----------------------------- MODULE Attributes -----------------------------
(***************************************************************************)
(* The callbacks of Mile.Cirno.cpp that read and set what the server keeps *)
(* about a file, with their conversions between Windows' values and        *)
(* Linux's.  Each callback is one request, so one step; other clients of   *)
(* the server change the file in between.  The widths are parameters:      *)
(* a FILETIME and a size are two DWORDs, and all arithmetic is unsigned.   *)
(***************************************************************************)
EXTENDS NtStatus, Integers

CONSTANTS DWORD,          \* 2^32
          Epoch,          \* SecondsBetweenWin32TimeAndUnixTime
          Frequency,      \* Win32TimeFrequency, FILETIME units in a second
          Unit,           \* nanoseconds in a unit: 100
          FileTimes,      \* the times that callers set, as 64-bit numbers
          ServerTimes,    \* <<seconds, nanoseconds>> that others set
          Sizes,          \* sizes that callers and others set
          Types,          \* types of file that the server holds
          ErrorCodes      \* codes with which it refuses a request

Word == DWORD * DWORD

ASSUME WidthAssumption ==
    /\ DWORD \in Nat \ {0} /\ Word \in Nat \ {0}
    /\ Epoch \in 0 .. (Word - 1)
    /\ Frequency \in Nat \ {0} /\ Unit \in Nat \ {0}

(* The type bits of a mode, in units of 0010000.                           *)
IFIFO == 1
IFCHR == 2
IFDIR == 4
IFBLK == 6
IFREG == 8
IFLNK == 10
IFSOCK == 12

ASSUME ValueAssumption ==
    /\ FileTimes \cup Sizes \subseteq 0 .. (Word - 1)
    /\ ServerTimes \subseteq (0 .. (Word - 1)) \X (0 .. (Frequency * Unit - 1))
    /\ Types \subseteq {IFIFO, IFCHR, IFDIR, IFBLK, IFREG, IFLNK, IFSOCK}
    /\ ErrorCodes \subseteq Nat \ {0}

VARIABLES file,     \* what the server keeps: type, permissions, size, times
          answer,   \* what the latest callback reported to Dokan
          told      \* ghost: what callers set with success, nobody changed since

vars == <<file, answer, told>>

----------------------------------------------------------------------------
(* Conversions.                                                            *)

Split(n) == [low |-> n % DWORD, high |-> (n \div DWORD) % DWORD]
Joined(pair) == pair.high * DWORD + pair.low

(* Fault: the epochs are not accounted for.                                *)
ToFileTimeFromUnixEpoch(seconds, nanoseconds) ==
    Split((seconds * Frequency + nanoseconds \div Unit) % Word)

ToFileTime(seconds, nanoseconds) ==
    Split((((seconds + Epoch) % Word) * Frequency + nanoseconds \div Unit) % Word)

(* Fault: the seconds are signed.                                          *)
FromFileTimeSigned(fileTime) ==
    << (Joined(fileTime) \div Frequency) - Epoch, (Joined(fileTime) % Frequency) * Unit >>

(* The subtraction wraps for a time before 1970.                           *)
FromFileTime(fileTime) ==
    << ((Joined(fileTime) \div Frequency) - Epoch) % Word,
       (Joined(fileTime) % Frequency) * Unit >>

(* The bit of IFDIR is also in the codes of two other types.               *)
HasDirectoryBit(type) == (type \div IFDIR) % 2 = 1

ToFileAttributes(type, permissions) ==
    {IF HasDirectoryBit(type) THEN "DIRECTORY" ELSE "ARCHIVE"}
      \cup (IF "w" \in permissions THEN {} ELSE {"READONLY"})

----------------------------------------------------------------------------
(* A request SetAttributes names in valid what it sets; the server stores  *)
(* that and nothing else, but a new size is also a new write time.         *)

NoTime == -1     \* a null pointer
NothingTold == [access |-> {}, write |-> {}, size |-> {}, readOnly |-> {}]

NoAnswer == [callback |-> "none", error |-> 0, status |-> "SUCCESS"]
NoRequest == [valid |-> {}, permissions |-> {}, size |-> 0, access |-> <<0, 0>>, write |-> <<0, 0>>]

Set(f, request, now) ==
    [f EXCEPT
        !.permissions = IF "Mode" \in request.valid THEN request.permissions ELSE @,
        !.size = IF "Size" \in request.valid THEN request.size ELSE @,
        !.access = IF {"AccessTime", "AccessTimeSet"} \subseteq request.valid
                   THEN request.access ELSE @,
        !.write = IF {"WriteTime", "WriteTimeSet"} \subseteq request.valid THEN request.write
                  ELSE IF "Size" \in request.valid THEN now ELSE @]

Init ==
    /\ file \in [type : Types, permissions : {{"r"}, {"r", "w"}, {"r", "w", "x"}},
                 size : Sizes, access : ServerTimes, write : ServerTimes]
    /\ answer = NoAnswer
    /\ told = NothingTold

Reports(callback, error) ==
    answer' = [callback |-> callback, error |-> error, status |-> ToNtStatus(error)]

(* A handle without a file ID is refused before any request is made, with  *)
(* the status of EBADF.                                                    *)
InvalidHandle(callback) ==
    /\ Reports(callback, EBADF)
    /\ UNCHANGED <<file, told>>

Refused(callback) ==
    /\ \E error \in ErrorCodes : Reports(callback, error)
    /\ UNCHANGED <<file, told>>

(* Fault: the size is marked as valid with everything else.                *)
SendsEverything(callback, request, remembered) ==
    \/ InvalidHandle(callback) \/ Refused(callback)
    \/ /\ \E now \in ServerTimes :
             file' = Set(file, [request EXCEPT !.valid = @ \cup {"Size"}], now)
       /\ told' = remembered
       /\ Reports(callback, 0)

SetAttributes(callback, request, remembered) ==
    \/ InvalidHandle(callback) \/ Refused(callback)
    \/ /\ \E now \in ServerTimes : file' = Set(file, request, now)
       /\ told' = remembered
       /\ Reports(callback, 0)

----------------------------------------------------------------------------
(* The callbacks.                                                          *)

(* Fault: the two times go to each other's place.                          *)
SetFileTimeSwapped(access, write) ==
    SetAttributes("SetFileTime",
        [NoRequest EXCEPT
            !.valid = IF write # NoTime THEN {"WriteTime", "WriteTimeSet"}
                      ELSE IF access # NoTime THEN {"AccessTime", "AccessTimeSet"}
                      ELSE {},
            !.write = IF access = NoTime THEN @ ELSE FromFileTime(Split(access)),
            !.access = IF write = NoTime THEN @ ELSE FromFileTime(Split(write))],
        [told EXCEPT !.access = IF access = NoTime \/ write # NoTime THEN @ ELSE {Split(access)},
                     !.write = IF write = NoTime THEN @ ELSE {Split(write)}])

(* The mask of the write time replaces that of the access time: with both  *)
(* given, the access time is left as it is, and told does not promise it.  *)
SetFileTime(access, write) ==
    SetAttributes("SetFileTime",
        [NoRequest EXCEPT
            !.valid = IF write # NoTime THEN {"WriteTime", "WriteTimeSet"}
                      ELSE IF access # NoTime THEN {"AccessTime", "AccessTimeSet"}
                      ELSE {},
            !.access = IF access = NoTime THEN @ ELSE FromFileTime(Split(access)),
            !.write = IF write = NoTime THEN @ ELSE FromFileTime(Split(write))],
        [told EXCEPT !.access = IF access = NoTime \/ write # NoTime THEN @ ELSE {Split(access)},
                     !.write = IF write = NoTime THEN @ ELSE {Split(write)}])

(* Only the permissions of the mode are modelled: a server does not change *)
(* the type.                                                               *)
SetFileAttributes(attributes) ==
    SetAttributes("SetFileAttributes",
        [NoRequest EXCEPT
            !.valid = {"Mode"},
            !.permissions = {"r"} \cup (IF "READONLY" \in attributes THEN {} ELSE {"w"})],
        [told EXCEPT !.readOnly = {"READONLY" \in attributes}])

SetSize(callback, size) ==
    SetAttributes(callback,
        [NoRequest EXCEPT !.valid = {"Size"}, !.size = size],
        [told EXCEPT !.size = {Split(size)}, !.write = {}])

SetEndOfFile(size) == SetSize("SetEndOfFile", size)

(* An allocation size is taken for the size.                               *)
SetAllocationSize(size) == SetSize("SetAllocationSize", size)

Information ==
    [attributes |-> ToFileAttributes(file.type, file.permissions),
     access |-> ToFileTime(file.access[1], file.access[2]),
     creation |-> ToFileTime(file.write[1], file.write[2]),
     write |-> ToFileTime(file.write[1], file.write[2]),
     size |-> Split(file.size)]

GetFileInformation ==
    \/ InvalidHandle("GetFileInformation") \/ Refused("GetFileInformation")
    \/ /\ answer' = [callback |-> "GetFileInformation", error |-> 0, status |-> ToNtStatus(0),
                     information |-> Information]
       /\ UNCHANGED <<file, told>>

FlushFileBuffers ==
    \/ InvalidHandle("FlushFileBuffers") \/ Refused("FlushFileBuffers")
    \/ Reports("FlushFileBuffers", 0) /\ UNCHANGED <<file, told>>

(* Fault: the blocks of the whole volume are reported as available.        *)
SpaceOfVolume(blockSize, total, free, available) ==
    [available |-> (blockSize * total) % Word,
     total |-> (blockSize * total) % Word,
     free |-> (blockSize * free) % Word]

(* Three products modulo 2^64.                                             *)
Space(blockSize, total, free, available) ==
    [available |-> (blockSize * available) % Word,
     total |-> (blockSize * total) % Word,
     free |-> (blockSize * free) % Word]

(* It asks about the root, whatever the handle.                            *)
GetDiskFreeSpace ==
    \/ Refused("GetDiskFreeSpace")
    \/ /\ \E blockSize \in Sizes, total \in Sizes :
             \E free \in Sizes \cup {0}, available \in Sizes \cup {0} :
                /\ available <= free /\ free <= total
                /\ answer' =
                     [callback |-> "GetDiskFreeSpace", error |-> 0, status |-> ToNtStatus(0),
                      fits |-> blockSize * total < Word, used |-> blockSize * (total - free),
                      space |-> Space(blockSize, total, free, available)]
       /\ UNCHANGED <<file, told>>

(* Another client of the server changes one thing about the file.          *)
Others ==
    /\ \/ \E time \in ServerTimes :
             file' = [file EXCEPT !.access = time] /\ told' = [told EXCEPT !.access = {}]
       \/ \E time \in ServerTimes :
             file' = [file EXCEPT !.write = time] /\ told' = [told EXCEPT !.write = {}]
       \/ \E size \in Sizes, time \in ServerTimes :
             /\ file' = [file EXCEPT !.size = size, !.write = time]
             /\ told' = [told EXCEPT !.size = {}, !.write = {}]
       \/ \E permissions \in {{"r"}, {"r", "w"}, {"r", "w", "x"}} :
             /\ file' = [file EXCEPT !.permissions = permissions]
             /\ told' = [told EXCEPT !.readOnly = {}]
    /\ answer' = NoAnswer

Next ==
    \/ \E access, write \in FileTimes \cup {NoTime} : SetFileTime(access, write)
    \/ \E attributes \in SUBSET {"READONLY", "DIRECTORY"} : SetFileAttributes(attributes)
    \/ \E size \in Sizes : SetEndOfFile(size) \/ SetAllocationSize(size)
    \/ GetFileInformation \/ FlushFileBuffers \/ GetDiskFreeSpace \/ Others

Spec == Init /\ [][Next]_vars

----------------------------------------------------------------------------

Pair == [low : 0 .. (DWORD - 1), high : 0 .. (DWORD - 1)]
Time == (0 .. (Word - 1)) \X Nat

(* Every variable has its type: no conversion leaves its width.            *)
TypeOK ==
    /\ file \in [type : Types, permissions : SUBSET {"r", "w", "x"},
                 size : 0 .. (Word - 1), access : Time, write : Time]
    /\ told \in [access : SUBSET Pair, write : SUBSET Pair, size : SUBSET Pair,
                 readOnly : SUBSET BOOLEAN]

(* What a caller set with success and nobody changed since is what         *)
(* GetFileInformation reports: the write time to the bit, before 1970 and  *)
(* at the ends of the range too; the access time if it was set without a   *)
(* write time; the size over both its halves; the read-only attribute;     *)
(* in whatever order the callbacks come.                                   *)
InformationAgrees ==
    answer.callback = "GetFileInformation" /\ answer.error = 0 =>
        /\ \A time \in told.write : answer.information.write = time
        /\ \A time \in told.access : answer.information.access = time
        /\ \A size \in told.size : answer.information.size = size
        /\ \A readOnly \in told.readOnly :
              readOnly <=> "READONLY" \in answer.information.attributes

(* Only the two callbacks about sizes change the size of a file: one about *)
(* times or attributes, whose request carries a size of 0, never empties   *)
(* it.                                                                     *)
ContentKept ==
    [][file'.size # file.size =>
          answer'.callback \in {"none", "SetEndOfFile", "SetAllocationSize"}]_vars

(* No request that the server refused is reported as a success, whatever   *)
(* the code: those that ToNtStatus does not list included.                 *)
RefusalsReported == answer.error # 0 => answer.status # "SUCCESS"

(* A volume whose size is a number of 64 bits has no more space available  *)
(* than free, no more free than there is, and what is not free is used.    *)
SpaceOrdered ==
    answer.callback = "GetDiskFreeSpace" /\ answer.error = 0 /\ answer.fits =>
        /\ answer.space.available <= answer.space.free
        /\ answer.space.free + answer.used = answer.space.total

=============================================================================
