------------------------------ MODULE Transfer ------------------------------
(***************************************************************************)
(* The loops of ReadFile and WriteFile, which cut a transfer into requests *)
(* that fit the negotiated message size.  One callback runs at a time;     *)
(* other clients of the server may grow or shrink the file between two of  *)
(* its requests, and the connection may be lost in the middle of one.  The *)
(* sizes are DWORDs and wrap around.                                       *)
(***************************************************************************)
EXTENDS Integers

CONSTANTS DWORD,                  \* 2^32: DWORD arithmetic is modulo this
          MessageSizes,           \* message sizes the server may reply with
          Offsets, Lengths,       \* offsets and buffer lengths Dokan asks for
          MaxSize                 \* bound: greatest size of a file on the server

ReadResponseHeaderSize == 11
WriteRequestHeaderSize == 23

(* A message size may be less than a header: nothing checks it.            *)
ASSUME TransferAssumption ==
    /\ DWORD \in Nat /\ DWORD > WriteRequestHeaderSize
    /\ MessageSizes \subseteq 0 .. (DWORD - 1)
    /\ Offsets \subseteq Nat
    /\ Lengths \subseteq 0 .. (DWORD - 1)
    /\ MaxSize \in Nat

VARIABLES g_MaximumMessageSize,
          up,             \* the connection is not lost
          pc,
          kind,           \* "read" or "write"
          offset,         \* Offset, once it is known
          length,         \* BufferLength or NumberOfBytesToWrite
          proceeded, unproceeded, \* ProceededSize, UnproceededSize
          status,         \* of the callback
          size,           \* of the file on the server
          moved,          \* ghost: pairs <<place in the buffer, place in the file>>
          answer,         \* ghost: what the server gave or took last
          round           \* ghost: rounds of the loop modulo 2: each is a step

call == <<kind, offset, length>>
counts == <<proceeded, unproceeded>>
vars == <<g_MaximumMessageSize, up, pc, call, counts, status, size, moved, answer, round>>

(* main takes the message size from the version reply as it is.            *)
Init == /\ g_MaximumMessageSize \in MessageSizes
        /\ up = TRUE
        /\ pc = "idle"
        /\ kind = "read"
        /\ offset = 0 /\ length = 0
        /\ proceeded = 0 /\ unproceeded = 0
        /\ status = "SUCCESS"
        /\ size \in 0 .. MaxSize
        /\ moved = {}
        /\ answer = "none"
        /\ round = 0

HeaderSize == IF kind = "read" THEN ReadResponseHeaderSize ELSE WriteRequestHeaderSize

(* The size of the next request.  A message size below the header wraps to *)
(* nearly 2^32 bytes of room, one that equals it leaves none.              *)
Count ==
    LET room == (g_MaximumMessageSize - HeaderSize) % DWORD
    IN  IF unproceeded < room THEN unproceeded ELSE room

----------------------------------------------------------------------------

Begin(k, where, bytes) ==
    /\ pc = "idle"
    /\ kind' = k
    /\ offset' = where
    /\ length' = bytes
    /\ proceeded' = 0
    /\ unproceeded' = bytes
    /\ status' = "SUCCESS"
    /\ moved' = {}
    /\ answer' = "none"
    /\ round' = 0
    /\ UNCHANGED <<g_MaximumMessageSize, up, size>>

ReadFile ==
    \E where \in Offsets, bytes \in Lengths : Begin("read", where, bytes) /\ pc' = "loop"

(* WriteToEndOfFile or an offset of -1: the end is asked for first.        *)
WriteFile ==
    \E where \in Offsets, bytes \in Lengths :
        Begin("write", where, bytes) /\ pc' \in {"loop", "append"}

Append ==
    /\ pc = "append"
    /\ \/ up /\ pc' = "loop" /\ offset' = size /\ UNCHANGED <<up, status>>
       \/ pc' = "return" /\ status' = "error" /\ up' \in {up, FALSE} /\ UNCHANGED offset
    /\ UNCHANGED <<g_MaximumMessageSize, kind, length, counts, size, moved, answer, round>>

(* The server moves some of the bytes, at most to the end of the file when *)
(* it reads and of its disk when it writes.                                *)
Available ==
    (IF kind = "read" THEN size ELSE MaxSize) - (offset + proceeded)
Movable == {n \in 0 .. Count : n = 0 \/ n <= Available}

(* Fault: the offset in the file does not advance.                         *)
MovesToStart(n) ==
    /\ moved' = moved \cup {<<proceeded + i, offset + i>> : i \in 0 .. (n - 1)}
    /\ UNCHANGED size

Moves(n) ==
    /\ moved' = moved \cup {<<proceeded + i, offset + proceeded + i>> : i \in 0 .. (n - 1)}
    /\ size' = IF kind = "write" /\ n > 0 /\ offset + proceeded + n > size
               THEN offset + proceeded + n ELSE size

(* Fault: the count that was asked for is taken for the count that moved.  *)
ProceedsByCount(n) ==
    /\ proceeded' = (proceeded + n) % DWORD
    /\ unproceeded' = (unproceeded - Count) % DWORD

Proceeds(n) ==
    /\ proceeded' = (proceeded + n) % DWORD
    /\ unproceeded' = (unproceeded - n) % DWORD

Answers(n) == answer' = CASE n > 0 -> "bytes"
                          [] n = 0 /\ Count > 0 -> "nothing"
                          [] OTHER -> "unasked"

(* Fault: a request that moved less than it could ends the transfer.       *)
AnsweredEndsOnShort(n) ==
    /\ up /\ Moves(n) /\ Proceeds(n) /\ Answers(n)
    /\ pc' = IF n < Count THEN "return" ELSE "loop"
    /\ UNCHANGED <<up, status>>

(* Fault: nothing moved, and the loop goes on.                             *)
AnsweredRepeats(n) ==
    /\ up /\ Moves(n) /\ Proceeds(n) /\ Answers(n)
    /\ UNCHANGED <<up, pc, status>>

Answered(n) ==
    /\ up /\ Moves(n) /\ Proceeds(n) /\ Answers(n)
    /\ pc' = IF n = 0 THEN "return" ELSE "loop"
    /\ UNCHANGED <<up, status>>

(* An error leaves the loop; what was counted before it is still reported. *)
Fails == pc' = "return" /\ status' = "error" /\ answer' = "error" /\ UNCHANGED counts

(* The server refuses, or the connection is gone already.                  *)
Refused == Fails /\ UNCHANGED <<up, moved, size>>

(* The connection is lost during the request: after the server has written *)
(* and before its reply arrives, or with part of the data received.        *)
Lost(n) == up /\ up' = FALSE /\ Fails /\ Moves(n)

(* One round of the loop: one request and what comes of it.                *)
Request ==
    /\ pc = "loop" /\ unproceeded # 0
    /\ Refused \/ \E n \in Movable : Answered(n) \/ Lost(n)
    /\ round' = 1 - round
    /\ UNCHANGED <<g_MaximumMessageSize, call>>

(* The loop is over.  proceeded is what Dokan is told.                     *)
Complete ==
    /\ pc = "loop" /\ unproceeded = 0
    /\ pc' = "return"
    /\ UNCHANGED <<g_MaximumMessageSize, up, call, counts, status, size, moved, answer, round>>

Return ==
    /\ pc = "return"
    /\ pc' = "idle"
    /\ UNCHANGED <<g_MaximumMessageSize, up, call, counts, status, size, moved, answer, round>>

(* Another client writes or truncates.                                     *)
Resize ==
    /\ size' \in 0 .. MaxSize
    /\ UNCHANGED <<g_MaximumMessageSize, up, pc, call, counts, status, moved, answer, round>>

Callback == Append \/ Request \/ Complete \/ Return

Next == ReadFile \/ WriteFile \/ Callback \/ Resize

Spec == Init /\ [][Next]_vars /\ WF_vars(Callback)

----------------------------------------------------------------------------

(* Every variable has its type: whatever message size was negotiated, the  *)
(* counters of the loops never wrap around.                                *)
TypeOK ==
    /\ g_MaximumMessageSize \in 0 .. (DWORD - 1)
    /\ up \in BOOLEAN
    /\ pc \in {"idle", "append", "loop", "return"}
    /\ kind \in {"read", "write"}
    /\ offset \in Nat
    /\ length \in 0 .. (DWORD - 1)
    /\ proceeded \in 0 .. length
    /\ unproceeded = length - proceeded
    /\ status \in {"SUCCESS", "error"}
    /\ size \in Nat
    /\ answer \in {"none", "bytes", "nothing", "unasked", "error"}
    /\ round \in 0 .. 1

(* The first n bytes of the buffer, each with its own place in the file.   *)
Prefix(n) == {<<i, offset + i>> : i \in 0 .. (n - 1)}

(* What was moved is a prefix of the buffer, each byte to or from its own  *)
(* place in the file: no gap, no overlap, no byte moved twice, however the *)
(* server cuts its answers.  The count that is reported is never more than *)
(* what was moved.  It is exactly that when the callback succeeds, and     *)
(* when it fails on a connection that is still up; only a lost connection  *)
(* can leave it behind, by no more than the one request that was pending.  *)
Contiguous ==
    \E n \in 0 .. Count :
        /\ moved = Prefix(proceeded + n)
        /\ up \/ status = "SUCCESS" => n = 0

(* A transfer that succeeds with less than was asked for did so because    *)
(* the server had nothing more to give or to take, or because the message  *)
(* size is that of the header alone and nothing was ever asked of it.      *)
ShortOnlyAtEnd ==
    pc = "return" /\ status = "SUCCESS" /\ unproceeded > 0 =>
        \/ answer = "nothing"
        \/ answer = "unasked" /\ g_MaximumMessageSize = HeaderSize /\ proceeded = 0

(* Each callback returns: no answer makes the loop run forever.            *)
CallbackReturns == pc # "idle" ~> pc = "idle"

============================================================================
