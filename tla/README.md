# A verification development for Mile.Cirno

Mile.Cirno mounts a 9P2000.L file server as a Windows volume: Dokan calls back
into the program for each file operation, and the program turns the operation
into 9P requests over one TCP or Hyper-V socket. This directory holds TLA+
models of it, the TLC configurations that check them, and TLAPS proofs.
`PROJECT.json` maps each definition to the source lines it stands for.

Abbreviations for files of `src/Mile.Cirno/`: **M** `Mile.Cirno.cpp`,
**C** `Mile.Cirno.Core.cpp`, **P** `Mile.Cirno.Protocol.h`,
**R** `Mile.Cirno.Protocol.Parser.cpp`.

## 1. The system

| Component | State it keeps | Operations | What makes it correct |
|---|---|---|---|
| File ID allocator (C 86-124) | next unused ID, set of reusable IDs, a mutex | `AllocateFileId`, `FreeFileId` | no ID is lost or has two owners; a full allocator says so |
| Request/response transport (C 39-843) | the socket, one mutex | `RequestResponse`, `Read`, `Write`, 14 wrappers | a caller gets the answer to its own call, under any interleaving and after any loss |
| Codec (R, P) | none | `Push...`, `Pop...`, header sizes | both ends agree on every byte |
| Callbacks that own file IDs (M 190-629, 1035-1135) | locals, `DokanFileInfo->Context`, the root's ID | `ZwCreateFile`, `Cleanup`, `CloseFile`, `DeleteFile`, `DeleteDirectory`, `MoveFile`, `SimpleWalk`, `SimpleClunk`, ... | each ID has one owner; none is forgotten; a handle keeps denoting its file; the create disposition is honoured |
| Directory enumeration (M 847-958) | locals | `FindFiles` | every entry once; the handle's own ID survives; it ends |
| Transfers (M 631-765) | locals | `ReadFile`, `WriteFile` | the bytes reported are the bytes moved, in place, at any message size; it ends |
| Attribute callbacks, conversions (M 40-180, 767-845, 960-1033, 1137-1264) | none | `ToNtStatus`, file times, attributes, sizes, disk space | what a setter set is what is read back; no refusal becomes a success |
| Session (M 1266-1468, 1841-1890, C 845-975) | globals, sockets, libraries, the mount | connect, version, attach, mount, clean-up handler | callbacks find a complete session; whatever fails, everything is released |
| Command line, console, vendored headers | - | `main`'s parsing | which command line leads to which transport; the rest is text and constants |

Dokan runs callbacks on many threads. Each makes one or more calls of the
client; a call takes the mutex, sends header and content, receives one reply
and returns. Nothing is locked *between* the calls of a callback, so callbacks
interleave at each request, with one another and with the server's other
clients. Callbacks share file IDs through the allocator and through the context
that Dokan keeps for a handle.

What is hard about it: threads interleave around one socket with one tag for
everything; the connection may be lost in the middle of a message; a callback
has up to ten exits, each of which must release exactly the IDs it obtained;
one request of several fails and the callback goes on; the server may answer
short (walk, read, write, listing); the counters are unsigned and wrap;
messages are laid out by hand; nothing has a timeout. `PROJECT.json` lists 40
such hazards, each at its line, with the property that covers it or the reason
why none does.

## 2. The modules

```
FileIds <----------- Volume ----------> Server (external) <---------- Session
   |                 |      |             |       |                  |      |
FileIdsProofs   MCVolume    |             NtStatus            MCSession  SessionProofs
MCFileIds          VolumeProofs --> FileIdsProofs
                                             |
                  +--------------------------+------------+
                  |                  |                    |
Listing <--(refines)-- Enumeration   Attributes      Messages <-- RemoteCalls <--(refines)-- RequestResponse
                  |          |            |      |                                          |        |
       MCEnumeration  EnumerationProofs  MCAttributes  AttributesProofs     MCRequestResponse  RequestResponseProofs

Layouts <-- Codec <-- MCCodec, CodecProofs           Transfer <-- MCTransfer, TransferProofs
```

**NtStatus** is the table of `ToNtStatus` and the codes of
`Aptx.Posix.Error.h` that it names.

**FileIds** has one action per method of the allocator; each holds the mutex
from its first access to its last. The loop of `FreeFileId` is written in
closed form (the start it ends at is the one with the loop's test true above
it and false at it), because a recursive operator could not be proved about;
`MCFileIds` runs the loop as the code writes it and compares. `held`, the IDs
that callers own, is a ghost.

**Messages, RemoteCalls, RequestResponse.** `RemoteCalls` is the promise of
`Client`, without socket or mutex: a call is carried out at most once, and
returns the server's answer to that very call, or `EIO` once the connection is
lost; codes of `Rerror` that only some systems define are hidden behind `EIO`.
`RequestResponse` is the code: per thread a step for taking the mutex, each
`SocketSend`, each `SocketRecv` and the return; two byte streams of units; a
server that answers; a connection that may break after any unit, losing any
suffix of what is under way. `Read` receives count and data on its own path, as
the code does, and an error reply on the common one. `KeepsPromise` is
`RemoteCalls` under a refinement mapping (`pending` is where a thread is not
idle). `Startup` is the order in which `main` makes the first two calls.

**Server** is external: the fid table and the tree of a 9P server, by the rules
that the code relies on and the manual that P line 14 refers to. An operator
returns the set of all outcomes of a request. It may refuse anything
(`ServerErrors`), walk in part (`PartialWalk`) and page a listing as it likes; a
file that cannot be written it refuses to open for writing with `EACCES` or
`EROFS`.
`Reached`, where a walk leads, speaks of routes through the tree, not of a
recursion over the names, so that the walk can be proved about. `ServerTyped` is
the type of a server, `FileName` the names there are.

**Volume** composes `FileIds` and `Server` with the callbacks. A thread's
`frame` holds the locals of the running callback; each request is a step of its
own, so callbacks interleave between any two requests. `SimpleWalk` and
`SimpleClunk` are steps that return to `next`; the scope-exit handlers of the
code are the `clunk` steps every exit goes through. `Opens` is the open at the end
of `ZwCreateFile`, `Attempt` its request: refused with an error of `Denied`
(`EROFS`, `EACCES`, M 556) it is made once more without write access, and with
the truncate flag as it was. Requests lost with the connection are not in
`Volume`: from then on every request fails and the server has dropped all
fids, so that there is nothing left to leak or to denote. `handle` is Dokan's: the
context, the deletion flag, whether it was cleaned up. Dokan's side is
external: no callback about a handle that is not open, `CloseFile` once and
after `Cleanup`, one callback at a time for a handle. `DeleteDirectory` looks at
one reply; `FindFiles` follows the offsets and walks, asks and clunks for each
entry.

**Listing, Enumeration.** `Listing` is what a caller may expect of a listing
while others change the directory: what stayed all the time is reported once,
unless the server refused to tell about it or the listing is said to have
failed, and nothing is reported that was never there. `Enumeration` is
`FindFiles`: per step one reply of `ReadDirectory`, one entry's walk, one
request for its attributes, or the test of `LastOffset`. The server keeps entries
by offset, cuts a listing anywhere, and lets others create, remove and rename
between any two requests, also to offsets already passed. Names hold no path
separator, which `SimpleWalk` would split. `ImplementsListing` is `Listing` with
`listing` read off `pc`; the ghosts `kept`, `seen`, `reported` and `refused`
belong to it.

**Attributes** is one file of the server and the callbacks about it, each one
request. The widths of a DWORD, of a second and of a unit are constants, and
all arithmetic is modulo the square of a DWORD. `told` is a ghost: what callers
set with success and nobody changed since, which `InformationAgrees` compares
with what `GetFileInformation` reports. `SetFileTime` with both times sends the
write time only, as the code does, so `told` promises the access time only when
it is set alone.

**Session** is `main`, `ConnectWithTcpSocket`, `ConnectWithHyperVSocket`,
`SimpleAttach` of the root and the clean-up handler, one action per system call
or request, against a network that refuses anything and loses the connection at
any time. Callbacks are not in it: it ends where they begin (`mounted`), and
says what they may rely on. The handler clunks the root when its ID is `NOFID`
(M 1384), as the code does.

**Transfer** is the two loops, with their DWORD arithmetic, one round per step.
`g_MaximumMessageSize` is what the server replied with, which `main` takes as it
is (M 1443): below a header the room of a request wraps around (`Count`). The
server moves any number of bytes up to what was asked and what there is, or
refuses; other clients resize the file in between. The connection may be lost in
a request (`Lost`): after the server has written and before its reply came, or
with part of the data received into the buffer; the callback then fails with
what it had counted before, and later ones find the connection gone. `moved` is a
ghost: the pairs of places in the buffer and in the file. `answer` and `round`
are ghosts too; `round` makes each round of the loop a step, so that a loop that
repeats a request for ever is seen to do so.

**Layouts, Codec.** `Layouts` writes down the messages as the comments of P lay
them out: sequences of numbers, strings, counts and the elements that a count
stands for. The tables of `Codec` write down what the `Push` and `Pop` functions
do, call by call. A message crosses the wire one call at a time: the sender's
`layout` shrinks by a number, a string or a count with each push, its loop
(`Continue`) hands out an element per round, then the header is put before the
content (`Send`), and the receiver pops until nothing is left to expect in
`todo`. The client is the sender of requests and the receiver of replies; the
other side follows the comments. A byte is the field it belongs to, its place
there and the field's width; only lengths and counts have values.
`PopReadDirectoryResponse` takes entries to the end of the message,
`PopErrorResponse` takes a code if exactly four bytes are left, `Client::Write`
adds up its size from constants, `Client::Read` takes its reply in two pieces:
these are modelled as they are, and so are the casts of lengths and counts to
16 bits (`Cast`). `sent` and `taken` are histories.

## 3. The runs

Every passing run explores its whole state space. Each property has a mutant of
the code, in `PROJECT.json`, that it catches; the faulty definitions stand next
to the ones they mutate and are marked `Fault`.

| Run | Instance | Shows |
|---|---|---|
| `file_ids` | 8 IDs | `TypeOK`, `Partition`, `FreshOrExhausted`, `Compact`; `FreeAsTheLoopDoes`: the closed form is the loop |
| `request_response` | 2 threads, 4 calls, 5 operations, data of 0 to 2 units | `TypeOK` (mutual exclusion included), `StreamDrained`, `RequestsFramed`, `KeepsPromise`, `MutexReleased` |
| `volume` | 2 threads, 2 handles, 4 callbacks, 4 IDs, 2 objects; any request may fail, any walk may be partial | `TypeOK`, `OneOwner`, `HandleIntact`, `NoServerLeak`, `IdDiscipline` (the callbacks implement the callers of `FileIds`) |
| `volume_dispositions` | 1 thread, 4 callbacks, all dispositions, options and kinds of path; any request may fail with `EIO` or `EACCES` | `DispositionHonoured`, `CallbacksReturn`, `NoServerLeak` |
| `attributes` | a DWORD of 2 bits, 3 file times, 2 server times, 2 sizes, 2 types, 2 error codes | `TypeOK` (no conversion leaves its width), `InformationAgrees`, `RefusalsReported`, `SpaceOrdered`, `ContentKept` |
| `enumeration` | offsets to 4, 2 names, 2 objects, 2 changes by others; any request may fail | `TypeOK`, `ImplementsListing`, `FindFilesReturns` |
| `session` | 8 command lines, 0 to 3 addresses, 2 versions, 2 message sizes | `TypeOK`, `MountedIsReady`, `SocketsOwned`, `MainEnds` |
| `transfer` | message sizes 0, 11, 12, 23 and 25, lengths to 16, files to 15; the connection may be lost in any request | `TypeOK` (no count wraps), `Contiguous`, `ShortOnlyAtEnd`, `CallbackReturns` |
| `codec` | all messages but `Tcreate` (section 5), strings and lists of 0 to 2 | `Understood`, `SizesAgree` |
| `overwrite_after_error`, `partial_walk`, `remove_leak` | - | violations, see section 6 |

*Bounds.* `NOFID = 8` exhausts the allocator and lets it compact over several
IDs; the proofs remove the bound. Four calls are the two of the start and two
that race, which is what an exchange can be confused with; error codes 2, 11,
34 and 35 lie on either side of the two tests of the code. A client with two
threads shows every pair of callbacks; two names, one below the other, are
needed for a walk in part, a parent that must be walked to, and a rename across
directories. In `volume_dispositions` four callbacks are the attach, two of any
kind and one more to meet what they left, three objects let one be created next
to two that exist, and `EIO` and `EACCES` are an error that ends a callback and
one that is tried again. Of two paths one of which is below the other a rename
cannot replace one by the other: that a rename replaces its target is in the
model and in the proofs, but in no run of `Volume`.
Four IDs are the root's, two of a rename or of two callbacks, and one more, so
that running out of IDs is reached as well. At message size 25 a write carries
2 bytes and a read 14, at 12 a read carries one, so that a buffer of 5 or 16
takes several rounds; 11 and 23 leave no room in one of the two, 0, 11 and 12
wrap around in one or both; at
most one more file size than a buffer can reach lets a read meet the end
anywhere. In `Attributes` a DWORD has 2 bits, so that both halves of every value matter and
every time of the width can be set; of the times 1 is before 1970, 15 is the
last, and the server's two times are one before 1970 and one after. Of the error
codes one is in `ToNtStatus`'s table and one is not. In `Enumeration` four
offsets, two of them taken by the dots, hold two entries, which is what it takes
for a reply to end between them, for a rename to move one behind the other and
for one to be replaced; two changes allow a removal followed by a creation under
the same name. In `Session` three addresses let a refused socket, a refused
connection and a success come in any order. In `Codec` counts 0, 1 and 2 tell an absent, a lone and a repeated
element apart, and lengths likewise; the proofs remove the bound. `MaxCallbacks`,
`MaxCalls`, `MaxObjects`, `MaxRead`, `MaxSize`, `MaxOffset`, `MaxChanges`,
`MaxAddresses`, `MaxLength`, `MaxNames` and `MaxCount` are the only caps and
appear in guards or ranges.

*Deadlock* is checked where the program cannot stop by itself (`file_ids`,
`transfer`, `codec`, `attributes`, `enumeration`). It is not checked where a
bound on calls or callbacks makes the model stop, nor in `session`, where `main`
ends.

*Fairness.* A thread that is inside a call or callback and can go on goes on
(`WF` on its steps): Windows schedules it. The server answers a request it got
(`WF` on `Serve`); a connection that is lost ends a receive. Nothing makes Dokan
call, a connection break or another client act, and `std::mutex` is not fair:
`MutexReleased` therefore says that each holder lets go, not that each waiter
gets in. There is no timeout in the code to rely on.
`FindFilesReturns` assumes that the listing thread runs and its requests are
answered (`WF` on `Step`); that others do not extend the directory for ever
ahead of the listing is the bound on offsets. `MainEnds` assumes that `main` runs and each request is answered or its connection lost;
not that a mounted volume is ever unmounted, nor that the network works.

*Assumptions.* A socket call fails or comes back short only when the
connection is lost (`MSG_WAITALL` on a blocking socket). The server echoes the
tag (`RequestsStayFramed` is proved without that). A server moves at most the bytes
that a request asks for, and none if it refuses it.
A directory's server sends entries in the order of their offsets, which do not
change while an entry stays, and an empty reply only at the end. A server
answers a write of times or sizes by storing what the mask names. A server
refuses `NOFID` as a new fid, and gives up a fid at a clunk or remove
whatever it answers. Strings and lists of names are shorter than 2^16
(`BoundAssumption`): no path of Windows is longer than 32767 characters, and
nothing else is cast to 16 bits.

## 4. What is proved

For every value of the constants that their `ASSUME`s allow, checked by TLAPS:

**FileIdsProofs** - `IInv == TypeOK /\ Partition /\ Compact` is inductive:
`Partition` needs the type to know what lies below the start, and `FreeFileId`
keeps `Compact` because its loop stops exactly at an ID that someone holds.
`FreshOrExhausted` follows: the least reusable ID is not held, and with none
reusable the start is either unused or `NOFID`, with all of `FileId` held.

**TransferProofs** - for every message size, those below the headers included.
`IInv` adds to `TypeOK`, `Contiguous` and `ShortOnlyAtEnd` that an append has moved
nothing before it knows its offset (`AppendFirst`), and that nothing has
proceeded where a header fills the message (`UnaskedFirst`). `CountBounds` shows
that a request asks for no more than what is left, whether its room wrapped or
not, and for nothing only if the message size is the header's; so a round's `n` is
at most `unproceeded` and neither DWORD wraps. An answer extends the prefix that was moved and the
count alike (`AnsweredPreserves`); a lost connection extends the prefix alone, by
at most one request, and after it nothing moves (`FailedPreserves`).

**RequestResponseProofs** - two inductive invariants.
`FramingInv`, which assumes nothing of the server: types, only the mutex owner
is inside, and `RequestsFramed` strengthened with what is in the stream while a
content is still to be sent. It gives `TypeCorrect`, `MutualExclusion` and
`RequestsStayFramed`. `InStepInv`, for a server that echoes tags, adds `InStep`:
for each place of the owner, what of its reply has been received, what is in
the stream and what is still to come. No thread outside the mutex has anything
under way. It gives `StreamsDrain` and, step by step, `ImplementsPromise`: each
step of the exchange is a step of `RemoteCalls` or a stutter. `EchoesTags` is
needed: after a reply with another tag the code leaves the body in the stream
(C 183-187), and the next caller takes it for a header.

**AttributesProofs** - `FileTimeRoundTrip`: a FILETIME, of any two DWORDs, comes
back to the bit through `FromFileTime` and `ToFileTime`, although the subtraction
of the epochs wraps (M 145), for every width, epoch and frequency that the
assumptions allow, because the addition of `ToFileTime` undoes exactly that wrap.
`ServerTimeRoundTrip` is the other way, for times that fit. The invariant `Remembered` says of each set in `told` that it
converts to what `file` holds; `CallersAgree` follows. `RefusalsReach` is
`ToNtStatus` never being success for a code other than 0.

**EnumerationProofs** - the invariant says of each entry that stayed (`kept`)
where it is: still to come in this reply, beyond all that this reply holds (with
`lastOffset` or something left of the reply to lead on to it), or handled
(`Progress`); that its name finds it and nothing else (`Same`); and that what
the thread holds was seen during the listing (`Located`). Each step is then a
step of `Listing` or a stutter: `FindFilesIsListing`.

`SpaceInOrder` is the monotony of a product of naturals: when the size of the
volume is below the square of a DWORD, none of the three products of M 1194-1205
wraps. `ContentIsKept` follows from the masks alone.

**VolumeProofs** - first the server alone: one lemma per request, for every
server of the right type, says that a request keeps the type and touches no fid but its own (`TouchesOnly`); a walk
or attach that succeeds binds a fid that nobody knew and never `NOFID`; after a
clunk or remove the fid is unknown whatever the answer; nothing but a creation
adds an object (`Grows`) and nothing but a truncation empties one (`Empties`).

Then the callbacks, for any number of threads, handles, file IDs, paths and
objects, whatever the server answers. The inductive invariant is

    IInv == TypeOK /\ Allocator /\ Places /\ Owners /\ NoServerLeak /\ Unknown /\ HandleIntact

where the properties of the runs are `TypeOK`, `OneOwner` (in `Owners`),
`NoServerLeak` and `HandleIntact`, and the rest is what they need. `Allocator` is
the invariant of `FileIds`, whose proofs are used as lemmas here (`Allocation`,
`Freeing`). `IdOfPlace` says for each `pc` whether an ID is in work and whether
`MoveFile` keeps a second one: without it a `return` could forget an ID, and
`StartWalk` overwrite one. It looks through walks, clunks and frees to what comes
after them (`Toward`). `Unknown` says that the ID a walk is about to bind, or
`FreeId` about to give back, is none that the server knows: a walk that fails
leaves it so, and a free keeps `NoServerLeak`. `AttachAlone` keeps callbacks out
until the root is attached; without it two threads could attach. `HandleOfPlace` gives
a handle that is being opened to one callback, so that `Opens` stores its ID over none.
`AskedOfPlace` ties the place of a callback to what Dokan asked for.
`Spec => []IInv` splits into one lemma per action, and these rest on a few about
kinds of steps: what a thread that goes on must respect (`Continues`), a step
that owns the same IDs as before (`RequestStep`, `OwnershipKept`), takes a new
one (`WalkStep`, `OwnershipTaken`) or gives one up (`DropStep`,
`OwnershipDropped`), and one by which the ID goes to a handle (`OpenedStep`).
`IdsDisciplined` is the refinement: each step of the callbacks is a step of the
allocator's callers, who free nothing they do not hold. `DispositionsHonoured`
is the action property: a step of a callback adds an object only if it was asked
to create, and empties a file only if it was asked to truncate; and while it
still has to truncate it opens no file with content, at its first attempt or its
second (`Emptied`, which `LinuxOpenOutcome` gives for a truncating open that
succeeds). A file that was taken for absent and created is not covered by the
last part: section 6, finding 1.
The proofs assume of the constants what `ServerAssumption` and
`VolumeAssumption` say: the sets have their types, the server's error codes are
not 0, and the tree has a root.

**SessionProofs** - the invariant says for each place of `main` which sockets are
open and who has them (`Sockets`), what is started (`Libraries`), and what the
handshake left (`Handshake`); `Counted` is needed for the list of addresses,
since only a list that was empty from the start makes a client without a socket
(C 911). For any number of addresses.

**CodecProofs** - for strings of any length and lists of any number of elements
that 16 bits can say, and any number of bytes of data. The run sees the two
layouts of a message side by side; what is invariant is that they stay so.
`sent` keeps with each field what was still to push behind it, so that `Then(i)`
is what was left after `i` fields and `End(i)` how many bytes these took. Then

- `FieldsInv`: each field is the head of what was left before it, and what was
  left after it is the next thing to push (`Pushed`); a count is always followed
  by its loop (`Pushable`);
- `BytesInv`: the content is the fields one behind the other;
- `LockstepInv`: after `k` pops the receiver has the first `k` fields, stands at
  `End(k)`, and what it expects `Agree`s with `Then(k)`: item by item the same,
  or a number for a count with entries to the end of the message behind it, or
  an optional code at the end.

`Agree` is preserved because both sides take the same next step: a number, a
string of the length that was written, a count that bounds the same loop. Two
cases are not the same step on both sides and are where the code could be wrong.
A loop to the end of the message goes on exactly when the sender's loop does,
because what is left to push is empty exactly when what is left to pop has no
byte: every element has a field of at least one byte (`Simple`, and
`ContinueAgree`). And an optional code is there exactly when four bytes are left.
`Understood` follows, and that the two layouts of each message agree to begin
with is proved table by table. `SizeInv` counts the bytes of the data that are
still to be pushed; `SizesAgree` follows for reads and writes of any size.
`MessageAssumption` leaves out `Tcreate`, on whose layout code and comment
disagree (section 5). Lengths over 2^16 are excluded by `BoundAssumption`; the
cast of `PushString` would make the receiver read a shorter string there.

Only model-checked: liveness (`MutexReleased`, `CallbacksReturn`,
`CallbackReturns`, `FindFilesReturns`, `MainEnds`), which is out of the prover's
reach; and `FreeAsTheLoopDoes`, which compares with a recursive operator. Every
other property of a passing run is a theorem. The three violations are TLC's as
well.

## 5. What is not modelled

- `PopStatus`, `PushStatus` and the two messages with a status: `PopStatus`
  reads a span that is not yet initialised (R 199), and no method of `Client`
  uses it.
- The early returns for `System Volume Information` and `$RECYCLE.BIN`: a test
  on text before any request is made.
- `GetVolumeInformation`: constants, the access name and a hash of text; no
  request and no state.
- The text of the command line beyond its words (ports, access names, mount
  points), the console output, and the POSIX constants that nothing uses.
- Names with a path separator in a listing, which `SimpleWalk` would split.
- Walks of more than 16 names (M 248).
- The mode that `Tcreate` is pushed with, four bytes (R 763) where the layout at
  P 213 has one: no method of `Client` sends the message, and `codec` leaves it
  out.
- That a directory that only looks empty is kept, that a rename does not replace
  and that a deletion is reported are promises of Windows, not of this
  repository: they are listed as hazards without a property.

## 6. Findings

1. `overwrite_after_error` - any error of the first walk is taken for the absence
   of the file (M 483): the create that follows neither excludes nor truncates,
   and `FILE_OVERWRITE_IF` succeeds on the old content of a file that exists,
   against the comment at M 538-540 ("or will overwrite the file if the file
   exists").
2. `partial_walk` - `SimpleWalk` takes a partial walk for success (M 259-262):
   `FILE_CREATE` of a new name in an existing subdirectory reports a collision,
   with a server that follows the manual for partial walks.
3. `remove_leak` - `Cleanup` removes, which gives up the fid (M 611); the clunk
   of `CloseFile` is then refused, and `SimpleClunk` keeps the file ID for good.

Seen in the model and not the subject of a run: `FILE_OPEN_IF` with
`FILE_DIRECTORY_FILE` on a directory that exists ends in
`STATUS_OBJECT_NAME_COLLISION`, because a mkdir is sent first and its `EEXIST`
returned (M 409-421), where the comment at M 538-540 has it open the directory.

## 7. Plan

Built in this order: `FileIds` and its proofs, the transport with its abstract
specification and refinement proof, `Server` and `Volume`, `Transfer` and its
proofs, `Codec`; then `NtStatus`, `Attributes`, `Listing` and `Enumeration`,
`Session`, each with its proofs; then `VolumeProofs` and `CodecProofs`. What is
left are the hazards without a property in `PROJECT.json`; each says there why
nothing in the repository promises otherwise, what a model of it would need, or
where it is described.

## 8. Running it

    tlc -workers 2 -config MCVolume.cfg MCVolume
    tlapm VolumeProofs.tla

The longest run is `volume`, with about a minute and a half on two workers; the
longest proof is that of `VolumeProofs`, with about six minutes.
