------------------------------- MODULE Volume -------------------------------
(***************************************************************************)
(* The callbacks of Mile.Cirno.cpp that create, use, rename, delete and    *)
(* close files, run by several threads of Dokan over one server.  A step   *)
(* is one request with its answer (Client::RequestResponse holds its mutex *)
(* for all of it), one AllocateFileId or one FreeFileId, with the local    *)
(* computation next to it.  Between two steps the other threads run.       *)
(*                                                                         *)
(* A thread inside a callback has a frame: what it does next, its          *)
(* arguments and the local variables that hold file IDs.                   *)
(***************************************************************************)
EXTENDS Server

CONSTANTS Thread,
          Handle,         \* DOKAN_FILE_INFO structures
          Path,           \* paths callbacks are given: sequences of file names
          Disposition,    \* create dispositions that are asked for
          Access,         \* whether write access is asked for: TRUE, FALSE
          Option,         \* "any", "directory" or "nonDirectory"
          InitialTrees,   \* what the server may hold at first
          MaxCallbacks    \* bound: callbacks that use a frame

AnyDisposition == {"SUPERSEDE", "OPEN", "CREATE", "OPEN_IF", "OVERWRITE", "OVERWRITE_IF"}
AnyOption == {"any", "directory", "nonDirectory"}

ASSUME VolumeAssumption ==
    /\ Disposition \subseteq AnyDisposition /\ Option \subseteq AnyOption
    /\ Access \subseteq BOOLEAN /\ MaxCallbacks \in Nat
    /\ Path \subseteq Seq(FileName)
    /\ InitialTrees \subseteq Seq(ObjectType) \ {<< >>}

VARIABLES fileIdUnallocatedStart, reusableFileIds, held,    \* see FileIds
          server,     \* see Server
          rootId,     \* g_RootDirectoryFileId
          frame,      \* of each thread
          handle,     \* of each DOKAN_FILE_INFO, Closed when not in use
          begun       \* callbacks begun

ids == <<fileIdUnallocatedStart, reusableFileIds, held>>
vars == <<fileIdUnallocatedStart, reusableFileIds, held, server, rootId, frame, handle, begun>>

Ids == INSTANCE FileIds

NoHandle == [id |-> NOFID, open |-> FALSE, object |-> Root, path |-> << >>,
             deletePending |-> FALSE, cleaned |-> FALSE]

(* The local variables of a callback and of the functions that it calls.   *)
(* id is the file ID in work, saved the one of MoveFile's other directory; *)
(* next is where the running SimpleWalk or SimpleClunk returns to.         *)
Idle == [pc |-> "idle", next |-> "return", h |-> "none", path |-> << >>, newPath |-> << >>,
         asked |-> "none", disposition |-> "none", option |-> "any", write |-> FALSE,
         id |-> NOFID, saved |-> NOFID, dir |-> NOFID, names |-> << >>, todo |-> {},
         lastOffset |-> 0,
         error |-> 0, status |-> "SUCCESS"]

Init == /\ fileIdUnallocatedStart = 0 /\ reusableFileIds = {} /\ held = {}
        /\ server \in [fids : {[id \in {} |-> Root]}, tree : InitialTrees]
        /\ rootId = NOFID
        /\ frame = [t \in Thread |-> Idle]
        /\ handle = [h \in Handle |-> NoHandle]
        /\ begun = 0

Parent(path) == SubSeq(path, 1, Len(path) - 1)
Name(path) == IF path = << >> THEN "" ELSE path[Len(path)]

----------------------------------------------------------------------------
(* SimpleWalk and SimpleClunk, one shared step at a time.                  *)

Set(t, f) == frame' = [frame EXCEPT ![t] = f]
Goto(f, pc) == [f EXCEPT !.pc = pc]
(* The callback is over and its handle free for others; what is left of    *)
(* the frame is what Dokan sees of it.                                     *)
Returns(f, status) ==
    [Idle EXCEPT !.pc = "return", !.path = f.path, !.asked = f.asked, !.status = status]
Clunks(f, next) == [f EXCEPT !.pc = "clunk", !.next = next]

StartWalk(t, f, dir, names, next) ==
    /\ \E id \in 0 .. NOFID :
          /\ Ids!AllocateFileId(id)
          /\ Set(t, [f EXCEPT !.pc = "walk", !.next = next, !.id = id,
                              !.dir = dir, !.names = names])
    /\ UNCHANGED <<server, rootId>>

SimpleWalk(t) ==
    LET f == frame[t]
    IN  /\ f.pc = "walk"
        /\ \E r \in Walk(server, f.dir, f.id, f.names) :
              /\ server' = r.server
              /\ Set(t, [f EXCEPT !.pc = IF r.error = 0 THEN f.next ELSE "free",
                                  !.error = r.error, !.dir = NOFID, !.names = << >>])
        /\ UNCHANGED <<ids, rootId, handle, begun>>

(* The ID of a walk or an attach that failed, or of a clunk that did not.  *)
(* MoveFile then goes on with its other directory.                         *)
FreeId(t) ==
    LET f == frame[t]
    IN  /\ f.pc = "free"
        /\ Ids!FreeFileId(f.id)
        /\ Set(t, [f EXCEPT !.pc = f.next, !.id = NOFID])
        /\ UNCHANGED <<server, rootId, handle, begun>>

SimpleClunk(t) ==
    LET f == frame[t]
    IN  /\ f.pc = "clunk"
        /\ \E r \in Clunk(server, f.id) :
              /\ server' = r.server
              /\ Set(t, IF r.error = 0 THEN Goto(f, "free")
                        ELSE [f EXCEPT !.pc = f.next, !.id = NOFID])
        /\ UNCHANGED <<ids, rootId, handle, begun>>

(* main attaches before it mounts; if that fails the process ends.         *)
StartAttach(t) ==
    /\ rootId = NOFID /\ begun = 0
    /\ begun' = 1
    /\ \E id \in 0 .. NOFID :
          Ids!AllocateFileId(id) /\ Set(t, [Idle EXCEPT !.pc = "attach", !.id = id])
    /\ UNCHANGED <<server, rootId, handle>>

SimpleAttach(t) ==
    LET f == frame[t]
    IN  /\ f.pc = "attach"
        /\ \E r \in Attach(server, f.id) :
              /\ server' = r.server
              /\ rootId' = IF r.error = 0 THEN f.id ELSE NOFID
              /\ Set(t, IF r.error = 0 THEN Idle
                        ELSE [f EXCEPT !.pc = "free", !.next = "exit"])
        /\ UNCHANGED <<ids, handle, begun>>

----------------------------------------------------------------------------
(* ZwCreateFile.                                                           *)

Busy(h) == \E t \in Thread : frame[t].h = h

Begin(t) ==
    /\ frame[t].pc = "idle"
    /\ rootId # NOFID
    /\ begun < MaxCallbacks
    /\ begun' = begun + 1

ZwCreateFile(t) ==
    /\ Begin(t)
    /\ \E h \in Handle, path \in Path, disposition \in Disposition,
          option \in Option, write \in Access :
          LET f == [Idle EXCEPT !.h = h, !.path = path, !.asked = disposition,
                                !.disposition = disposition, !.option = option,
                                !.write = write]
          IN  /\ ~handle[h].open /\ ~Busy(h)
              /\ IF option = "directory" /\ disposition \in {"CREATE", "OPEN_IF"}
                 THEN StartWalk(t, f, rootId, Parent(path), "mkdirAttributes")
                 ELSE StartWalk(t, f, rootId, path, "walked")
    /\ UNCHANGED handle

(* SimpleMakeDirectory and SimpleLinuxCreate first walk to the parent and  *)
(* ask for its group.                                                      *)
ParentAttributes(t) ==
    LET f == frame[t]
        Does == IF f.pc = "mkdirAttributes" THEN "mkdir" ELSE "create"
        Done == IF f.pc = "mkdirAttributes" THEN "made" ELSE "created"
    IN  /\ f.pc \in {"mkdirAttributes", "createAttributes"}
        /\ IF f.error # 0
           THEN Set(t, Returns(f, ToNtStatus(f.error))) /\ UNCHANGED server
           ELSE \E r \in GetAttributes(server, f.id) :
                   /\ server' = r.server
                   /\ Set(t, IF r.error = 0 THEN Goto(f, Does)
                             ELSE Clunks([f EXCEPT !.error = r.error], Done))
        /\ UNCHANGED <<ids, rootId, handle, begun>>

SimpleMakeDirectory(t) ==
    LET f == frame[t]
    IN  /\ f.pc = "mkdir"
        /\ \E r \in MakeDirectory(server, f.id, Name(f.path)) :
              /\ server' = r.server
              /\ Set(t, Clunks([f EXCEPT !.error = r.error], "made"))
        /\ UNCHANGED <<ids, rootId, handle, begun>>

SimpleLinuxCreate(t) ==
    LET f == frame[t]
    IN  /\ f.pc = "create"
        /\ \E r \in LinuxCreate(server, f.id, Name(f.path), f.write) :
              /\ server' = r.server
              /\ Set(t, Clunks([f EXCEPT !.error = r.error], "created"))
        /\ UNCHANGED <<ids, rootId, handle, begun>>

(* What was made is opened by another walk.                                *)
MadeOrCreated(t) ==
    LET f == frame[t]
    IN  /\ f.pc \in {"made", "created"}
        /\ IF f.error # 0
           THEN Set(t, Returns(f, ToNtStatus(f.error))) /\ UNCHANGED <<ids, server, rootId>>
           ELSE StartWalk(t, [f EXCEPT !.disposition = "OPEN"], rootId, f.path,
                          IF f.pc = "made" THEN "walked" ELSE "rewalked")
        /\ UNCHANGED <<handle, begun>>

(* Fault: every disposition goes on to create.                             *)
AlwaysCreates(t) ==
    LET f == frame[t]
    IN  /\ f.pc = "walked"
        /\ f.error # 0
        /\ StartWalk(t, f, rootId, Parent(f.path), "createAttributes")
        /\ UNCHANGED <<handle, begun>>

(* Any error of the first walk is taken for the absence of the file.       *)
NotWalked(t) ==
    LET f == frame[t]
    IN  /\ f.pc \in {"walked", "rewalked"}
        /\ f.error # 0
        /\ IF f.pc = "walked" /\ f.option # "directory"
                              /\ f.disposition \notin {"OPEN", "OVERWRITE"}
           THEN StartWalk(t, f, rootId, Parent(f.path), "createAttributes")
           ELSE /\ Set(t, Returns(f, IF f.pc = "rewalked" THEN ToNtStatus(f.error)
                                     ELSE IF f.option = "directory"
                                     THEN "INVALID_PARAMETER"
                                     ELSE "OBJECT_NAME_NOT_FOUND"))
                /\ UNCHANGED <<ids, server, rootId>>
        /\ UNCHANGED <<handle, begun>>

Truncates(disposition) == disposition \in {"SUPERSEDE", "OVERWRITE", "OVERWRITE_IF"}

(* Fault: the file ID is not stored.                                       *)
ContextUnset(f, o) == [NoHandle EXCEPT !.open = TRUE, !.object = o, !.path = f.path]

(* The handle of a file that was opened.                                   *)
Context(f, o) ==
    [NoHandle EXCEPT !.id = f.id, !.open = TRUE, !.object = o, !.path = f.path]

(* Fault: the second attempt drops the truncate flag as well.              *)
AttemptKeepingContent(f, again) ==
    LinuxOpen(server, f.id, f.write /\ ~again, Truncates(f.disposition) /\ ~again)

(* The second attempt is for reading, but still truncates.                 *)
Attempt(f, again) ==
    LinuxOpen(server, f.id, f.write /\ ~again, Truncates(f.disposition))

(* Fault: an open that is refused returns early and clunks nothing.        *)
OpensEarlyReturn(t, again) ==
    LET f == frame[t]
    IN  \E r \in Attempt(f, again) :
          /\ server' = r.server
          /\ IF r.error = 0
             THEN /\ handle' = [handle EXCEPT ![f.h] = Context(f, r.server.fids[f.id])]
                  /\ Set(t, Returns(f, "SUCCESS"))
             ELSE Set(t, Returns(f, ToNtStatus(r.error))) /\ UNCHANGED handle

(* The errors after which it is worth trying to open for reading only.     *)
Denied == {EROFS, EACCES}

(* LinuxOpen, once more without write access when that was denied.  The    *)
(* file ID goes to the handle or is clunked.                               *)
Opens(t, again) ==
    LET f == frame[t]
    IN  \E r \in Attempt(f, again) :
          LET o == r.server.fids[f.id]
              wrong == f.option = "nonDirectory" /\ At(r.server, o).kind = "directory"
          IN  /\ server' = r.server
              /\ IF r.error \in Denied /\ ~again
                 THEN Set(t, Goto(f, "reopen")) /\ UNCHANGED handle
                 ELSE IF r.error = 0 /\ ~wrong
                 THEN /\ handle' = [handle EXCEPT ![f.h] = Context(f, o)]
                      /\ Set(t, Returns(f, "SUCCESS"))
                 ELSE /\ Set(t, Clunks([f EXCEPT !.status =
                                   IF r.error = 0 THEN "OBJECT_NAME_NOT_FOUND"
                                   ELSE ToNtStatus(r.error)], "return"))
                      /\ UNCHANGED handle

(* Fault: the collision returns early and clunks nothing.                  *)
OpenWalkedEarlyReturn(t) ==
    LET f == frame[t]
    IN  /\ f.pc \in {"walked", "rewalked"}
        /\ f.error = 0
        /\ IF f.disposition = "CREATE"
           THEN Set(t, Returns(f, "OBJECT_NAME_COLLISION")) /\ UNCHANGED <<server, handle>>
           ELSE Opens(t, FALSE)
        /\ UNCHANGED <<ids, rootId, begun>>

OpenWalked(t) ==
    LET f == frame[t]
    IN  /\ f.pc \in {"walked", "rewalked"}
        /\ f.error = 0
        /\ IF f.disposition = "CREATE"
           THEN /\ Set(t, Clunks([f EXCEPT !.status = "OBJECT_NAME_COLLISION"], "return"))
                /\ UNCHANGED <<server, handle>>
           ELSE Opens(t, FALSE)
        /\ UNCHANGED <<ids, rootId, begun>>

Reopen(t) ==
    /\ frame[t].pc = "reopen"
    /\ Opens(t, TRUE)
    /\ UNCHANGED <<ids, rootId, begun>>

----------------------------------------------------------------------------
(* The callbacks on an open handle.  Those that make one request are one   *)
(* step of their own.                                                      *)

Usable(h) == handle[h].open /\ ~handle[h].cleaned

WriteFile(h) ==
    /\ Usable(h)
    /\ \E r \in Write(server, handle[h].id) : server' = r.server
    /\ UNCHANGED <<ids, rootId, frame, handle, begun>>

(* Dokan marks the handle when the callback allows the deletion.           *)
Delete(h, allowed) ==
    /\ handle' = [handle EXCEPT ![h].deletePending = allowed]
    /\ UNCHANGED <<ids, rootId, frame, begun, server>>

IsDirectory(h) == At(server, handle[h].object).kind = "directory"

DeleteFile(h) == Usable(h) /\ ~IsDirectory(h) /\ Delete(h, TRUE)

(* Only the first reply is looked at.  More than the two dots in it means  *)
(* that the directory is not empty.                                        *)
DeleteDirectory(h) ==
    /\ Usable(h) /\ IsDirectory(h)
    /\ LET id == handle[h].id
       IN  \E r \in ReadDirectory(server, id, 0) :
              Delete(h, r.error = 0 /\ Listed(server, id, 0, r.last) = {})

(* Fault: cleanup already gives the file ID back.                          *)
CleanupFrees(h) ==
    /\ Usable(h) /\ ~Busy(h)
    /\ Ids!FreeFileId(handle[h].id)
    /\ IF handle[h].deletePending
       THEN \E r \in Remove(server, handle[h].id) : server' = r.server
       ELSE UNCHANGED server
    /\ handle' = [handle EXCEPT ![h].cleaned = TRUE]
    /\ UNCHANGED <<rootId, frame, begun>>

(* The result of the removal is ignored.                                   *)
Cleanup(h) ==
    /\ Usable(h) /\ ~Busy(h)
    /\ IF handle[h].deletePending
       THEN \E r \in Remove(server, handle[h].id) : server' = r.server
       ELSE UNCHANGED server
    /\ handle' = [handle EXCEPT ![h].cleaned = TRUE]
    /\ UNCHANGED <<ids, rootId, frame, begun>>

(* Fault: the handle can be closed again.                                  *)
CloseFileKeepsContext(t, h) ==
    /\ Begin(t)
    /\ handle[h].open /\ handle[h].cleaned /\ ~Busy(h)
    /\ Set(t, Clunks([Idle EXCEPT !.id = handle[h].id], "return"))
    /\ UNCHANGED <<ids, server, rootId, handle>>

CloseFile(t, h) ==
    /\ Begin(t)
    /\ handle[h].open /\ handle[h].cleaned /\ ~Busy(h)
    /\ Set(t, Clunks([Idle EXCEPT !.id = handle[h].id], "return"))
    /\ handle' = [handle EXCEPT ![h] = NoHandle]
    /\ UNCHANGED <<ids, server, rootId>>

(* Both parents are walked to, and clunked in reverse order.               *)
MoveFile(t, h) ==
    /\ Begin(t)
    /\ Usable(h) /\ ~Busy(h)
    /\ \E newPath \in Path :
          StartWalk(t, [Idle EXCEPT !.h = h, !.path = handle[h].path, !.newPath = newPath],
                    rootId, Parent(handle[h].path), "oldWalked")
    /\ UNCHANGED handle

OldWalked(t) ==
    LET f == frame[t]
    IN  /\ f.pc = "oldWalked"
        /\ IF f.error # 0
           THEN Set(t, Returns(f, ToNtStatus(f.error))) /\ UNCHANGED <<ids, server, rootId>>
           ELSE StartWalk(t, [f EXCEPT !.saved = f.id], rootId, Parent(f.newPath), "newWalked")
        /\ UNCHANGED <<handle, begun>>

Rename(t) ==
    LET f == frame[t]
    IN  /\ f.pc = "newWalked"
        /\ IF f.error # 0
           THEN /\ Set(t, Goto([f EXCEPT !.status = ToNtStatus(f.error)], "clunkOld"))
                /\ UNCHANGED <<server, handle>>
           ELSE \E r \in RenameAt(server, f.saved, Name(f.path), f.id, Name(f.newPath)) :
                   /\ server' = r.server
                   /\ handle' = IF r.error # 0 THEN handle
                                ELSE [handle EXCEPT ![f.h].path = f.newPath]
                   /\ Set(t, Clunks([f EXCEPT !.status = ToNtStatus(r.error)], "clunkOld"))
        /\ UNCHANGED <<ids, rootId, begun>>

ClunkOld(t) ==
    LET f == frame[t]
    IN  /\ f.pc = "clunkOld"
        /\ Set(t, Clunks([f EXCEPT !.id = f.saved, !.saved = NOFID], "return"))
        /\ UNCHANGED <<ids, server, rootId, handle, begun>>

(* The directory is read until a reply is empty.  Each name of a reply     *)
(* takes a walk, a request and a clunk; an entry whose walk or request     *)
(* fails is left out.                                                      *)
FindFiles(t, h) ==
    /\ Begin(t)
    /\ Usable(h) /\ ~Busy(h) /\ IsDirectory(h)
    /\ Set(t, [Idle EXCEPT !.pc = "readDirectory", !.h = h])
    /\ UNCHANGED <<ids, server, rootId, handle>>

ReadEntries(t) ==
    LET f == frame[t]
        id == handle[f.h].id
    IN  /\ f.pc = "readDirectory"
        /\ \E r \in ReadDirectory(server, id, f.lastOffset) :
              Set(t, IF r.error # 0 THEN Returns(f, ToNtStatus(r.error))
                     ELSE [f EXCEPT !.pc = "findNext", !.lastOffset = r.last,
                             !.todo = {At(server, o).name :
                                         o \in Listed(server, id, f.lastOffset, r.last)}])
        /\ UNCHANGED <<ids, server, rootId, handle, begun>>

(* The loop over the replies: while (LastOffset).                          *)
AfterEntries(f) == IF f.lastOffset = 0 THEN Returns(f, "SUCCESS") ELSE Goto(f, "readDirectory")

(* Fault: the loop does not advance.                                       *)
FindNextStays(t) ==
    LET f == frame[t]
    IN  /\ f.pc = "findNext"
        /\ IF f.todo = {}
           THEN Set(t, AfterEntries(f)) /\ UNCHANGED <<ids, server, rootId>>
           ELSE \E name \in f.todo : StartWalk(t, f, handle[f.h].id, <<name>>, "found")
        /\ UNCHANGED <<handle, begun>>

FindNext(t) ==
    LET f == frame[t]
    IN  /\ f.pc = "findNext"
        /\ IF f.todo = {}
           THEN Set(t, AfterEntries(f)) /\ UNCHANGED <<ids, server, rootId>>
           ELSE \E name \in f.todo :
                   StartWalk(t, [f EXCEPT !.todo = f.todo \ {name}],
                             handle[f.h].id, <<name>>, "found")
        /\ UNCHANGED <<handle, begun>>

(* Fault: the directory is clunked instead of the entry.                   *)
FoundClunksDirectory(t) ==
    LET f == frame[t]
    IN  /\ f.pc = "found"
        /\ IF f.error # 0
           THEN Set(t, Goto(f, "findNext")) /\ UNCHANGED server
           ELSE \E r \in GetAttributes(server, f.id) :
                   /\ server' = r.server
                   /\ Set(t, Clunks([f EXCEPT !.id = handle[f.h].id], "findNext"))
        /\ UNCHANGED <<ids, rootId, handle, begun>>

Found(t) ==
    LET f == frame[t]
    IN  /\ f.pc = "found"
        /\ IF f.error # 0
           THEN Set(t, Goto(f, "findNext")) /\ UNCHANGED server
           ELSE \E r \in GetAttributes(server, f.id) :
                   server' = r.server /\ Set(t, Clunks(f, "findNext"))
        /\ UNCHANGED <<ids, rootId, handle, begun>>

Return(t) ==
    /\ frame[t].pc = "return"
    /\ Set(t, Idle)
    /\ UNCHANGED <<ids, server, rootId, handle, begun>>

----------------------------------------------------------------------------

(* What a thread that is inside a callback does next.                      *)
Step(t) ==
    \/ SimpleAttach(t) \/ SimpleWalk(t) \/ FreeId(t) \/ SimpleClunk(t)
    \/ ParentAttributes(t) \/ SimpleMakeDirectory(t) \/ SimpleLinuxCreate(t)
    \/ MadeOrCreated(t) \/ NotWalked(t) \/ OpenWalked(t) \/ Reopen(t)
    \/ OldWalked(t) \/ Rename(t) \/ ClunkOld(t)
    \/ ReadEntries(t) \/ FindNext(t) \/ Found(t) \/ Return(t)

Next == \/ \E t \in Thread : StartAttach(t) \/ ZwCreateFile(t) \/ Step(t)
        \/ \E t \in Thread, h \in Handle : CloseFile(t, h) \/ MoveFile(t, h) \/ FindFiles(t, h)
        \/ \E h \in Handle : WriteFile(h) \/ DeleteFile(h) \/ DeleteDirectory(h) \/ Cleanup(h)

(* A thread inside a callback goes on; nothing makes Dokan call.           *)
Spec == Init /\ [][Next]_vars /\ \A t \in Thread : WF_vars(Step(t))

----------------------------------------------------------------------------

OpenHandles == {h \in Handle : handle[h].open}

Place == {"idle", "exit", "return", "attach", "walk", "free", "clunk",
          "mkdirAttributes", "mkdir", "made", "createAttributes", "create", "created",
          "walked", "rewalked", "reopen", "oldWalked", "newWalked", "clunkOld",
          "readDirectory", "findNext", "found"}

Frame == [pc : Place, next : Place, h : Handle \cup {"none"},
          path : Seq(FileName), newPath : Seq(FileName),
          asked : AnyDisposition \cup {"none"}, disposition : AnyDisposition \cup {"none"},
          option : AnyOption, write : BOOLEAN,
          id : 0 .. NOFID, saved : 0 .. NOFID, dir : 0 .. NOFID,
          names : Seq(EntryName), todo : SUBSET EntryName,
          lastOffset : Nat, error : Nat, status : Status]

HandleType(s) == [id : 0 .. NOFID, open : BOOLEAN, object : Objects(s), path : Seq(FileName),
                  deletePending : BOOLEAN, cleaned : BOOLEAN]

(* Every variable has its type; in particular an open handle has a file ID *)
(* that is not NOFID, and the server knows no other fids than file IDs.    *)
TypeOK ==
    /\ Ids!TypeOK
    /\ ServerTyped(server)
    /\ rootId \in 0 .. NOFID
    /\ frame \in [Thread -> Frame]
    /\ handle \in [Handle -> HandleType(server)]
    /\ \A h \in OpenHandles : handle[h].id # NOFID
    /\ begun \in Nat

(* The local variables, the handles and the root: each file ID that is in  *)
(* use belongs to exactly one of them, and the allocator agrees.           *)
Owned(t) == {frame[t].id, frame[t].saved} \ {NOFID}

OneOwner ==
    /\ \A t \in Thread :
          /\ Owned(t) \subseteq held \ {rootId}
          /\ frame[t].id = frame[t].saved => frame[t].id = NOFID
          /\ \A u \in Thread \ {t} : Owned(t) \cap Owned(u) = {}
          /\ \A h \in OpenHandles : handle[h].id \notin Owned(t)
    /\ \A g, h \in OpenHandles :
          handle[g].id \in held \ {rootId} /\ (handle[g].id = handle[h].id => g = h)

(* The server knows no file ID that the client has forgotten: each of its  *)
(* fids is the root, a handle's or a running callback's.  So an ID that    *)
(* the allocator gives out is never still in use on the server, whatever   *)
(* requests failed half way through a callback.                            *)
NoServerLeak ==
    DOMAIN server.fids \subseteq
        ({rootId} \cup {handle[h].id : h \in OpenHandles} \cup UNION {Owned(t) : t \in Thread})

(* From its creation to its cleanup a handle's file ID denotes on the      *)
(* server the object that was opened, through every rename, deletion and   *)
(* reuse of IDs around it.                                                 *)
HandleIntact ==
    \A h \in OpenHandles :
        ~(handle[h].cleaned /\ handle[h].deletePending) =>
            /\ Known(server, handle[h].id)
            /\ server.fids[handle[h].id] = handle[h].object

(* Each ID that is given back was handed out and not given back before.    *)
IdDiscipline == Ids!Spec

(* The handle that a step of a callback opens, on a file with content.     *)
OpensFull(t) ==
    \E h \in Handle :
        /\ frame[t].h = h /\ ~handle[h].open /\ handle'[h].open
        /\ At(server', handle'[h].object).kind = "file"
        /\ ~At(server', handle'[h].object).empty

(* A callback adds an object only for a disposition that creates, and      *)
(* empties a file only for one that overwrites, whatever failed meanwhile, *)
(* an error of the first walk for another reason than absence included,    *)
(* and whatever the thread rewrote its disposition to.  And one that       *)
(* overwrites a file it has found does not succeed on its old content, not *)
(* even when it is denied and tries again without write access.            *)
Creating == {"SUPERSEDE", "CREATE", "OPEN_IF", "OVERWRITE_IF"}
DispositionHonoured ==
    [][\A t \in Thread : frame'[t] # frame[t] =>
          /\ Len(server'.tree) > Len(server.tree) => frame[t].asked \in Creating
          /\ (\E i \in DOMAIN server.tree : ~server.tree[i].empty /\ server'.tree[i].empty)
                => Truncates(frame[t].asked)
          /\ Truncates(frame[t].disposition) => ~OpensFull(t)]_vars

(* Every callback that begins returns to Dokan, as long as the server      *)
(* answers.                                                                *)
CallbacksReturn ==
    \A t \in Thread : frame[t].pc \notin {"idle", "exit"} ~> frame[t].pc \in {"idle", "exit"}

----------------------------------------------------------------------------
(* What comments of the source say, and the code does not do.              *)

(* "These dispositions will create the file if the file does not exist":   *)
(* a collision is reported only for a path that leads to something.  (With *)
(* one thread: nothing else removes it meanwhile.)                         *)
CollisionIsReal ==
    \A t \in Thread :
        frame[t].pc = "return" /\ frame[t].status = "OBJECT_NAME_COLLISION" =>
            \E r \in Walk([server EXCEPT !.fids = [id \in {0} |-> Root]], 0, 1, frame[t].path) :
                r.error = 0 /\ 1 \in DOMAIN r.server.fids

(* "These dispositions will [...] overwrite the file if the file exists":  *)
(* one of them that succeeds leaves nothing of the old content.  (With one *)
(* thread: nobody else writes meanwhile.)                                  *)
OverwriteOverwrites ==
    [][\A t \in Thread : Truncates(frame[t].asked) => ~OpensFull(t)]_vars

(* "Only unregister the file ID because the file ID is not used by the     *)
(* server": an ID that the server does not use is given back.  With no     *)
(* callback running and no handle open only the root's is held.            *)
IdsComeBack ==
    (\A t \in Thread : frame[t].pc = "idle") /\ OpenHandles = {} => held \subseteq {rootId}

============================================================================
