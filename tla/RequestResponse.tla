-------------------------- MODULE RequestResponse --------------------------
(***************************************************************************)
(* Mile::Cirno::Client at the level of its socket calls.  All requests go  *)
(* over one connection and all but the first carry the same tag, so only   *)
(* the mutex and the framing of the two byte streams keep the answers of   *)
(* concurrent callers apart.  The mutex is held from the first send to the *)
(* return; there is no timeout, and the socket is never closed after an    *)
(* error.                                                                  *)
(*                                                                         *)
(* A request is a header and a content, one send each.  A reply is a       *)
(* header, which says how many units of body follow, and these units.  The *)
(* server is external: it takes the requests one by one and answers each.  *)
(* A socket call fails, or receives less than it asked for, only when the  *)
(* connection is lost.                                                     *)
(***************************************************************************)
EXTENDS Messages

CONSTANTS NoThread,     \* the owner of a free mutex
          EchoesTags    \* the server answers with the tag of the request

ASSUME ConnectionAssumption == NoThread \notin Thread /\ EchoesTags \in BOOLEAN

VARIABLES pc,         \* where each thread is
          op, calls, call,   \* as in RemoteCalls
          mutex,      \* owner of m_RequestResponseMutex
          response,   \* of its owner: type received, units still to receive
          up,         \* the connection stands
          toServer, toClient, \* the units under way in each direction
          reply,      \* ghost: the server's answer to the latest call
          result      \* what the latest call that ended returned

vars == <<pc, op, calls, call, mutex, response, up, toServer, toClient, reply, result>>

(* MILE_CIRNO_NOTAG for the version negotiation, 1 for everything else.    *)
NOTAG == 65535
Tag(o) == IF o = "Version" THEN NOTAG ELSE 1

Header(type, tag, size) ==
    [part |-> "header", type |-> type, tag |-> tag, size |-> size]

NoResponse == [type |-> "none", toRecv |-> 0]
NoResult == [call |-> 0, code |-> 0, data |-> << >>]

Init == /\ pc = [t \in Thread |-> "idle"]
        /\ op = [t \in Thread |-> "Version"]
        /\ calls = 0
        /\ call = [t \in Thread |-> 0]
        /\ mutex = NoThread
        /\ response = NoResponse
        /\ up = TRUE
        /\ toServer = << >> /\ toClient = << >>
        /\ reply = [t \in Thread |-> << >>]
        /\ result = [t \in Thread |-> NoResult]

----------------------------------------------------------------------------
(* The program makes its first two calls alone and in this order, and goes *)
(* on only if they succeed.  After that any thread of Dokan calls anything.*)
Startup == <<"Version", "Attach">>

MayCall(o) ==
    /\ calls \in 1 .. Len(Startup) =>
          \E t \in Thread : result[t].call = calls /\ result[t].code = 0
    /\ IF calls < Len(Startup)
       THEN o = Startup[calls + 1]
       ELSE o \notin {Startup[i] : i \in 1 .. Len(Startup)}

Invoke(t, o) ==
    /\ pc[t] = "idle"
    /\ calls < MaxCalls
    /\ MayCall(o)
    /\ pc' = [pc EXCEPT ![t] = "lock"]
    /\ op' = [op EXCEPT ![t] = o]
    /\ calls' = calls + 1
    /\ call' = [call EXCEPT ![t] = calls + 1]
    /\ reply' = [reply EXCEPT ![t] = << >>]
    /\ UNCHANGED <<mutex, response, up, toServer, toClient, result>>

(* Fault: the guard is forgotten.                                          *)
LockWithoutMutex(t) ==
    /\ pc[t] = "lock"
    /\ mutex' = t
    /\ pc' = [pc EXCEPT ![t] = "sendHeader"]
    /\ UNCHANGED <<op, calls, call, response, up, toServer, toClient, reply, result>>

Lock(t) ==
    /\ pc[t] = "lock"
    /\ mutex = NoThread
    /\ mutex' = t
    /\ pc' = [pc EXCEPT ![t] = "sendHeader"]
    /\ UNCHANGED <<op, calls, call, response, up, toServer, toClient, reply, result>>

(* Fault: a return that does not unlock.                                   *)
ReturnLocked(t, code, data) ==
    /\ pc' = [pc EXCEPT ![t] = "idle"]
    /\ response' = NoResponse
    /\ result' = [result EXCEPT ![t] = [call |-> call[t], code |-> code, data |-> data]]
    /\ UNCHANGED <<op, calls, call, reply, mutex>>

(* Every return leaves the scope of the lock guard.                        *)
Return(t, code, data) ==
    /\ pc' = [pc EXCEPT ![t] = "idle"]
    /\ mutex' = NoThread
    /\ response' = NoResponse
    /\ result' = [result EXCEPT ![t] = [call |-> call[t], code |-> code, data |-> data]]
    /\ UNCHANGED <<op, calls, call, reply>>

Goto(t, step, type, toRecv) ==
    /\ pc' = [pc EXCEPT ![t] = step]
    /\ response' = [type |-> type, toRecv |-> toRecv]
    /\ UNCHANGED <<op, calls, call, mutex, reply, result>>

(* A send over a lost connection fails, or succeeds and reaches nobody.    *)
SocketSend(t, unit, step) ==
    /\ \/ up /\ toServer' = Append(toServer, unit) /\ Goto(t, step, "none", 1)
       \/ ~up /\ UNCHANGED toServer /\ Goto(t, step, "none", 1)
       \/ ~up /\ UNCHANGED toServer /\ Return(t, EIO, << >>)
    /\ UNCHANGED <<up, toClient>>

SendHeader(t) ==
    /\ pc[t] = "sendHeader"
    /\ SocketSend(t, [part |-> "header", thread |-> t], "sendContent")

SendContent(t) ==
    /\ pc[t] = "sendContent"
    /\ SocketSend(t, [part |-> "content", thread |-> t], "recvHeader")

----------------------------------------------------------------------------
(* MSG_WAITALL: a receive ends with all it asked for, or, when the         *)
(* connection is lost, fails or returns what is left.  Less is EIO.        *)
Arrived(n) == Len(toClient) >= n

RecvFails(t) ==
    /\ ~up /\ ~Arrived(response.toRecv)
    /\ toClient' = << >>
    /\ Return(t, EIO, << >>)

(* Four bytes as a number.  Out of step with the framing they may be the   *)
(* first field of a header, its size, which counts its seven bytes too.    *)
Number(unit) == IF unit.part = "body" THEN unit.value ELSE 7 + unit.size

(* Fault: the greatest portable code is hidden as well.                    *)
DecodedShort(t, type, content) ==
    LET code == Number(content[Len(content)])
    IN  CASE type = op[t] -> Return(t, 0, content)
          [] type = "Error" ->
                Return(t, IF code >= ERANGE \/ code = EAGAIN THEN EIO ELSE code, << >>)
          [] type = "LinuxError" -> Return(t, code, << >>)
          [] OTHER -> Return(t, EIO, << >>)

(* The outcome for the response type and the content that were received.   *)
Decoded(t, type, content) ==
    LET code == Number(content[Len(content)])
    IN  CASE type = op[t] -> Return(t, 0, content)
          [] type = "Error" ->
                Return(t, IF code > ERANGE \/ code = EAGAIN THEN EIO ELSE code, << >>)
          [] type = "LinuxError" -> Return(t, code, << >>)
          [] OTHER -> Return(t, EIO, << >>)

(* What the seven bytes of a header say.  Out of step with the framing,    *)
(* the client takes bytes of a body for a header and finds anything there. *)
ParsedHeaders(unit) ==
    IF unit.part = "header" THEN {unit}
    ELSE {Header(type, tag, 1) : type \in Operation \cup ErrorType, tag \in {1, NOTAG}}

(* Client::Read takes a read response apart while it receives it; any      *)
(* other response, and every response of the other methods, is received    *)
(* whole.                                                                  *)
RecvHeader(t) ==
    /\ pc[t] = "recvHeader"
    /\ \/ RecvFails(t)
       \/ /\ Arrived(1)
          /\ toClient' = Tail(toClient)
          /\ \E header \in ParsedHeaders(Head(toClient)) :
                CASE header.tag # Tag(op[t]) -> Return(t, EIO, << >>)
                  [] header.tag = Tag(op[t]) /\ op[t] = "Read" /\ header.type = "Read" ->
                        Goto(t, "recvCount", header.type, 1)
                  [] OTHER ->
                        IF header.size = 0
                        THEN Decoded(t, header.type, << >>)
                        ELSE Goto(t, "recvContent", header.type, header.size)
    /\ UNCHANGED <<up, toServer>>

(* Fault: the last unit of the body is left in the stream.                 *)
RecvContentShort(t) ==
    /\ pc[t] = "recvContent"
    /\ \/ RecvFails(t)
       \/ /\ Arrived(response.toRecv)
          /\ toClient' = SubSeq(toClient, response.toRecv, Len(toClient))
          /\ Decoded(t, response.type, SubSeq(toClient, 1, response.toRecv))
    /\ UNCHANGED <<up, toServer>>

RecvContent(t) ==
    /\ pc[t] = "recvContent"
    /\ \/ RecvFails(t)
       \/ /\ Arrived(response.toRecv)
          /\ toClient' = SubSeq(toClient, response.toRecv + 1, Len(toClient))
          /\ Decoded(t, response.type, SubSeq(toClient, 1, response.toRecv))
    /\ UNCHANGED <<up, toServer>>

RecvCount(t) ==
    /\ pc[t] = "recvCount"
    /\ \/ RecvFails(t)
       \/ /\ Arrived(1)
          /\ toClient' = Tail(toClient)
          /\ LET numberOfBytesRead == Number(Head(toClient))
             IN  IF numberOfBytesRead = 0
                 THEN Return(t, 0, << >>)
                 ELSE Goto(t, "recvData", response.type, numberOfBytesRead)
    /\ UNCHANGED <<up, toServer>>

RecvData(t) ==
    /\ pc[t] = "recvData"
    /\ \/ RecvFails(t)
       \/ /\ Arrived(response.toRecv)
          /\ toClient' = SubSeq(toClient, response.toRecv + 1, Len(toClient))
          /\ Return(t, 0, SubSeq(toClient, 1, response.toRecv))
    /\ UNCHANGED <<up, toServer>>

(* The three methods that talk to the socket.                              *)
RequestResponse(t) ==
    /\ op[t] \in Wrapped
    /\ Lock(t) \/ SendHeader(t) \/ SendContent(t) \/ RecvHeader(t) \/ RecvContent(t)

Write(t) ==
    /\ op[t] = "Write"
    /\ Lock(t) \/ SendHeader(t) \/ SendContent(t) \/ RecvHeader(t) \/ RecvContent(t)

Read(t) ==
    /\ op[t] = "Read"
    /\ \/ Lock(t) \/ SendHeader(t) \/ SendContent(t) \/ RecvHeader(t)
       \/ RecvContent(t) \/ RecvCount(t) \/ RecvData(t)

----------------------------------------------------------------------------
(* The server takes a whole request and answers it.                        *)
Serve ==
    /\ up
    /\ Len(toServer) >= 2
    /\ LET t == Head(toServer).thread
       IN  \E r \in Replies(op[t], call[t]),
              tag \in IF EchoesTags THEN {Tag(op[t])} ELSE {1, NOTAG} :
             /\ reply' = [reply EXCEPT ![t] = <<r>>]
             /\ toClient' = toClient \o <<Header(r.type, tag, Len(r.body))>> \o r.body
    /\ toServer' = SubSeq(toServer, 3, Len(toServer))
    /\ UNCHANGED <<pc, op, calls, call, mutex, response, up, result>>

(* What was sent and not yet received is lost, except for a prefix of it   *)
(* that the client's side already holds.                                   *)
Disconnect ==
    /\ up
    /\ up' = FALSE
    /\ toServer' = << >>
    /\ \E n \in 0 .. Len(toClient) : toClient' = SubSeq(toClient, 1, n)
    /\ UNCHANGED <<pc, op, calls, call, mutex, response, reply, result>>

Step(t) == RequestResponse(t) \/ Read(t) \/ Write(t)

Next == \/ \E t \in Thread : (\E o \in Operation : Invoke(t, o)) \/ Step(t)
        \/ Serve
        \/ Disconnect

(* A thread that can go on goes on, and the server answers what it got.    *)
(* Nothing is assumed of who gets a std::mutex that several wait for.      *)
Fairness == (\A t \in Thread : WF_vars(Step(t))) /\ WF_vars(Serve)

Spec == Init /\ [][Next]_vars /\ Fairness

----------------------------------------------------------------------------

Steps == {"idle", "lock", "sendHeader", "sendContent", "recvHeader",
          "recvContent", "recvCount", "recvData"}

(* Every variable has its type, and only the owner of the mutex is between *)
(* its first send and its return.                                          *)
TypeOK ==
    /\ pc \in [Thread -> Steps]
    /\ op \in [Thread -> AnyOperation]
    /\ calls \in 0 .. MaxCalls /\ call \in [Thread -> 0 .. calls]
    /\ mutex \in Thread \cup {NoThread}
    /\ response.toRecv \in Nat
    /\ up \in BOOLEAN
    /\ \A i \in 1 .. Len(toServer) : toServer[i].thread \in Thread
    /\ \A t \in Thread : pc[t] \notin {"idle", "lock"} <=> mutex = t

(* Whatever the server answers, the requests of concurrent callers never   *)
(* mix on the wire: each header is followed by the content of the same     *)
(* call, or is the last unit and its caller is about to send the content.  *)
RequestsFramed ==
    \A i \in 1 .. Len(toServer) :
        /\ toServer[i].part = IF i % 2 = 1 THEN "header" ELSE "content"
        /\ i % 2 = 0 => toServer[i].thread = toServer[i - 1].thread
        /\ i % 2 = 1 /\ i = Len(toServer) =>
              toServer[i].thread = mutex /\ pc[mutex] = "sendContent"

(* Between two calls nothing is left in either direction, so that the next *)
(* caller cannot receive what an earlier one did not take: every path of   *)
(* the three methods consumes exactly one reply while the connection       *)
(* stands.                                                                 *)
StreamDrained ==
    up /\ mutex = NoThread => toServer = << >> /\ toClient = << >>

(* The client implements what it promises: at most one execution per call, *)
(* each result from the answer to the same call, EIO in place of it only   *)
(* after the connection is lost.                                           *)
Promised == INSTANCE RemoteCalls WITH
                pending <- {t \in Thread : pc[t] # "idle"}
KeepsPromise == Promised!Spec

(* Since there is no timeout, one call that is never answered blocks every *)
(* thread.  With a server that answers or a connection that breaks, the    *)
(* mutex is released again by whoever holds it.                            *)
MutexReleased == \A t \in Thread : mutex = t ~> mutex # t

============================================================================
