------------------------------ MODULE Messages ------------------------------
(***************************************************************************)
(* The 9P2000.L calls that Mile::Cirno::Client offers and the replies that *)
(* a server gives to them.  A reply is a type and a body.  A body is a     *)
(* sequence of units: what it says byte by byte is abstracted to who asked *)
(* for it and one number, so that two replies are never mistaken for each  *)
(* other and a framing error is visible.                                   *)
(***************************************************************************)
EXTENDS NtStatus, Integers, Sequences

CONSTANTS Thread,       \* threads of Dokan that call the client
          Operation,    \* the calls an instance makes, out of AnyOperation
          ErrorCodes,   \* POSIX error codes a server answers with
          MaxCalls,     \* bound: calls made over a behaviour
          MaxRead       \* bound: units of data in one read reply

(* The methods that go through Client::RequestResponse.                    *)
Wrapped == {"Version", "Attach", "Walk", "Clunk", "LinuxOpen",
            "ReadDirectory", "GetAttributes", "FileSystemStatus", "Remove",
            "SetAttributes", "FlushFile", "RenameAt", "MakeDirectory",
            "LinuxCreate"}

(* Their replies with an empty body: nothing is decoded from them.         *)
Bodiless == {"Clunk", "Remove", "SetAttributes", "FlushFile", "RenameAt"}

AnyOperation == Wrapped \cup {"Read", "Write"}

ASSUME OperationAssumption ==
    /\ Operation \subseteq AnyOperation
    /\ ErrorCodes \subseteq Nat \ {0}
    /\ MaxCalls \in Nat /\ MaxRead \in Nat

ErrorType == {"Error", "LinuxError"}

Unit(call, value) == [part |-> "body", call |-> call, value |-> value]

(* A read reply holds its count, then that many units; the code of an      *)
(* error is in the last unit of its body.                                  *)
SuccessBodies(op, call) ==
    IF op = "Read"
    THEN {<<Unit(call, n)>> \o [i \in 1 .. n |-> Unit(call, i)] : n \in 0 .. MaxRead}
    ELSE IF op \in Bodiless THEN {<< >>}
    ELSE {[i \in 1 .. n |-> Unit(call, i)] : n \in 1 .. 2}

(* What a server may answer to a call: success, an error, or a message     *)
(* that is no answer to that call at all.                                  *)
Replies(op, call) ==
       [type : {op}, body : SuccessBodies(op, call)]
  \cup [type : ErrorType, body : {<<Unit(call, code)>> : code \in ErrorCodes}]
  \cup [type : {"Unexpected"}, body : {<<Unit(call, 1)>>}]

============================================================================
