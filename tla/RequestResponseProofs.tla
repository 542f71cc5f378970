----------------------- MODULE RequestResponseProofs -----------------------
(***************************************************************************)
(* The transport for any number of threads and calls.  The first half      *)
(* assumes nothing of the server: one exchange at a time holds the mutex,  *)
(* and requests are whole on the wire.  The second half is about a server  *)
(* that echoes tags: client and server stay in step, so that the client    *)
(* implements RemoteCalls.                                                 *)
(***************************************************************************)
EXTENDS RequestResponse, SequenceTheorems, TLAPS

MessageType == AnyOperation \cup ErrorType \cup {"Unexpected"}
BodyUnit == [part : {"body"}, call : Nat, value : Nat]
HeaderUnit == [part : {"header"}, type : MessageType, tag : Nat, size : Nat]
ClientUnit == HeaderUnit \cup BodyUnit
ServerUnit == [part : {"header", "content"}, thread : Thread]

StreamTypes == toServer \in Seq(ServerUnit) /\ toClient \in Seq(ClientUnit)

(* Nothing more is under way to the server once the connection is lost,    *)
(* and between the two sends of a call a header is last.                   *)
SenderFramed ==
    /\ ~up => toServer = << >>
    /\ \A t \in Thread : up /\ pc[t] = "sendContent" => Len(toServer) % 2 = 1

FramingInv == TypeOK /\ StreamTypes /\ RequestsFramed /\ SenderFramed

----------------------------------------------------------------------------
(* A part of a sequence is a sequence over the same set.                   *)
LEMMA PartOfSequence ==
  ASSUME NEW S, NEW s \in Seq(S), NEW n \in 0 .. Len(s), NEW m \in 1 .. n + 1
  PROVE  /\ SubSeq(s, m, n) \in Seq(S)
         /\ Len(SubSeq(s, m, n)) = n + 1 - m
         /\ \A i \in 1 .. n + 1 - m : SubSeq(s, m, n)[i] = s[m + i - 1]
  <1>1. \A i \in m .. n : s[i] \in S
    BY ElementOfSeq
  <1>2. m \in Int /\ n \in Int
    OBVIOUS
  <1>3. Len(SubSeq(s, m, n)) = IF m <= n THEN n - m + 1 ELSE 0
    BY <1>1, <1>2, SubSeqProperties
  <1>4. CASE m <= n
    BY <1>1, <1>2, <1>3, <1>4, SubSeqProperties
  <1>5. CASE m = n + 1
    BY <1>1, <1>2, <1>3, <1>5, SubSeqProperties
  <1> QED  BY <1>4, <1>5

(* Whatever a server replies is a type and a sequence of body units.       *)
LEMMA RepliesTyped ==
  ASSUME NEW o \in AnyOperation, NEW c \in Nat, NEW r \in Replies(o, c)
  PROVE  r.type \in MessageType /\ r.body \in Seq(BodyUnit)
  <1> USE DEF Unit, BodyUnit
  <1>1. ASSUME NEW body \in SuccessBodies(o, c)
        PROVE  body \in Seq(BodyUnit)
    <2>1. CASE o = "Read"
      <3>1. PICK n \in 0 .. MaxRead :
               body = <<Unit(c, n)>> \o [i \in 1 .. n |-> Unit(c, i)]
        BY <1>1, <2>1 DEF SuccessBodies
      <3>2. <<Unit(c, n)>> \in Seq(BodyUnit)
        BY OperationAssumption
      <3>3. [i \in 1 .. n |-> Unit(c, i)] \in Seq(BodyUnit)
        BY OperationAssumption
      <3> QED  BY <3>1, <3>2, <3>3, ConcatProperties
    <2>2. CASE o # "Read" /\ o \in Bodiless
      BY <1>1, <2>2 DEF SuccessBodies
    <2>3. CASE o # "Read" /\ o \notin Bodiless
      <3>1. PICK n \in 1 .. 2 : body = [i \in 1 .. n |-> Unit(c, i)]
        BY <1>1, <2>3 DEF SuccessBodies
      <3> QED  BY <3>1
    <2> QED  BY <2>1, <2>2, <2>3
  <1>2. \A code \in ErrorCodes \cup {1} : <<Unit(c, code)>> \in Seq(BodyUnit)
    BY OperationAssumption
  <1> QED  BY <1>1, <1>2 DEF Replies, MessageType

(* The initial state has empty streams and a free mutex.                   *)
LEMMA InitFramed == Init => FramingInv
  <1> SUFFICES ASSUME Init PROVE FramingInv
    OBVIOUS
  <1>1. TypeOK
    BY ConnectionAssumption, OperationAssumption
       DEF Init, TypeOK, NoResponse, Steps, AnyOperation, Wrapped
  <1>2. StreamTypes /\ RequestsFramed /\ SenderFramed
    BY DEF Init, StreamTypes, RequestsFramed, SenderFramed
  <1> QED  BY <1>1, <1>2 DEF FramingInv

(* The steps that only the owner of the mutex takes.                       *)
Inside == {"sendHeader", "sendContent", "recvHeader", "recvContent", "recvCount", "recvData"}

(* A thread that goes on receiving.                                        *)
LEMMA GotoFramed ==
  ASSUME FramingInv, NEW t \in Thread, NEW type, NEW toRecv \in Nat,
         NEW step \in {"recvContent", "recvCount", "recvData"},
         pc[t] \in Inside \ {"sendContent"}, Goto(t, step, type, toRecv),
         UNCHANGED <<up, toServer>>, toClient' \in Seq(ClientUnit)
  PROVE  FramingInv'
  <1> USE DEF FramingInv
  <1>1. /\ pc' = [pc EXCEPT ![t] = step]
        /\ response' = [type |-> type, toRecv |-> toRecv]
        /\ UNCHANGED <<op, calls, call, mutex, up, toServer>>
    BY DEF Goto
  <1>2. mutex = t
    BY DEF TypeOK, Inside
  <1>3. TypeOK'
    BY <1>1, <1>2 DEF TypeOK, Steps
  <1>4. RequestsFramed' /\ SenderFramed' /\ StreamTypes'
    BY <1>1, <1>2 DEF RequestsFramed, SenderFramed, StreamTypes, TypeOK
  <1> QED  BY <1>3, <1>4

(* A thread that returns, having sent its request if the connection stands.*)
LEMMA ReturnFramed ==
  ASSUME FramingInv, NEW t \in Thread, NEW code, NEW data,
         pc[t] \in Inside, pc[t] = "sendContent" => ~up, Return(t, code, data),
         UNCHANGED <<up, toServer>>, toClient' \in Seq(ClientUnit)
  PROVE  FramingInv'
  <1> USE DEF FramingInv
  <1>1. /\ pc' = [pc EXCEPT ![t] = "idle"]
        /\ mutex' = NoThread
        /\ response' = NoResponse
        /\ UNCHANGED <<op, calls, call, up, toServer>>
    BY DEF Return
  <1>2. mutex = t
    BY DEF TypeOK, Inside
  <1>3. TypeOK'
    <2>1. \A u \in Thread : pc'[u] \notin {"idle", "lock"} <=> mutex' = u
      BY <1>1, <1>2, ConnectionAssumption DEF TypeOK
    <2> QED  BY <1>1, <2>1 DEF TypeOK, Steps, NoResponse
  <1>4. RequestsFramed'
    <2>1. \A i \in 1 .. Len(toServer) : i % 2 = 1 => i # Len(toServer)
      BY <1>2 DEF RequestsFramed, SenderFramed
    <2> QED  BY <1>1, <2>1 DEF RequestsFramed
  <1>5. SenderFramed' /\ StreamTypes'
    BY <1>1 DEF SenderFramed, StreamTypes, TypeOK
  <1> QED  BY <1>3, <1>4, <1>5

(* A thread that sends a unit over a connection that stands.               *)
LEMMA SendFramed ==
  ASSUME FramingInv, NEW t \in Thread, up, NEW part, NEW step,
         \/ pc[t] = "sendHeader" /\ part = "header" /\ step = "sendContent"
         \/ pc[t] = "sendContent" /\ part = "content" /\ step = "recvHeader",
         toServer' = Append(toServer, [part |-> part, thread |-> t]),
         Goto(t, step, "none", 1), UNCHANGED <<up, toClient>>
  PROVE  FramingInv'
  <1> USE DEF FramingInv
  <1> DEFINE unit == [part |-> part, thread |-> t]
  <1>1. /\ pc' = [pc EXCEPT ![t] = step]
        /\ response' = [type |-> "none", toRecv |-> 1]
        /\ UNCHANGED <<op, calls, call, mutex>>
    BY DEF Goto
  <1>2. mutex = t
    BY DEF TypeOK
  <1>3. unit \in ServerUnit
    BY DEF ServerUnit
  <1>4. /\ toServer' \in Seq(ServerUnit)
        /\ Len(toServer) \in Nat
        /\ Len(toServer') = Len(toServer) + 1
        /\ \A i \in 1 .. Len(toServer) : toServer'[i] = toServer[i]
        /\ toServer'[Len(toServer) + 1] = unit
    BY <1>3, AppendProperties DEF StreamTypes
  <1>5. /\ part = "header" <=> Len(toServer) % 2 = 0
        /\ part = "content" <=> Len(toServer) % 2 = 1
    BY <1>2, <1>4 DEF RequestsFramed, SenderFramed
  <1>6. TypeOK'
    BY <1>1, <1>2, <1>4 DEF TypeOK, Steps
  <1>7. RequestsFramed'
    <2> SUFFICES ASSUME NEW i \in 1 .. Len(toServer')
                 PROVE  /\ toServer'[i].part = IF i % 2 = 1 THEN "header" ELSE "content"
                        /\ i % 2 = 0 => toServer'[i].thread = toServer'[i - 1].thread
                        /\ i % 2 = 1 /\ i = Len(toServer') =>
                              toServer'[i].thread = mutex' /\ pc'[mutex'] = "sendContent"
      BY DEF RequestsFramed
    <2>1. CASE i \in 1 .. Len(toServer)
      BY <1>1, <1>4, <2>1 DEF RequestsFramed
    <2>2. CASE i = Len(toServer) + 1
      <3>1. toServer'[i] = unit /\ i = Len(toServer')
        BY <1>4, <2>2
      <3>2. CASE part = "header"
        <4>1. i % 2 = 1
          BY <1>4, <1>5, <2>2, <3>2
        <4>2. pc'[mutex'] = "sendContent" /\ mutex' = t
          BY <1>1, <1>2, <3>2 DEF TypeOK
        <4> QED  BY <3>1, <3>2, <4>1, <4>2
      <3>3. CASE part = "content"
        <4>1. i % 2 = 0 /\ i - 1 = Len(toServer) /\ Len(toServer) \in 1 .. Len(toServer)
          BY <1>4, <1>5, <2>2, <3>3
        <4>2. toServer[Len(toServer)].thread = t
          BY <1>2, <1>5, <3>3, <4>1 DEF RequestsFramed
        <4> QED  BY <1>4, <3>1, <3>3, <4>1, <4>2
      <3> QED  BY <3>2, <3>3
    <2> QED  BY <1>4, <2>1, <2>2
  <1>8. SenderFramed'
    <2>1. ASSUME NEW u \in Thread, pc'[u] = "sendContent"
          PROVE  u = t /\ part = "header"
      BY <1>1, <1>2, <2>1 DEF TypeOK
    <2>2. part = "header" => Len(toServer') % 2 = 1
      BY <1>4, <1>5
    <2> QED  BY <2>1, <2>2 DEF SenderFramed
  <1>9. StreamTypes'
    BY <1>4 DEF StreamTypes
  <1> QED  BY <1>6, <1>7, <1>8, <1>9

(* A thread that sends nothing, the connection being lost, and goes on.    *)
LEMMA NotSentFramed ==
  ASSUME FramingInv, NEW t \in Thread, ~up, NEW step \in {"sendContent", "recvHeader"},
         pc[t] \in {"sendHeader", "sendContent"},
         Goto(t, step, "none", 1), UNCHANGED <<up, toServer, toClient>>
  PROVE  FramingInv'
  <1> USE DEF FramingInv
  <1>1. /\ pc' = [pc EXCEPT ![t] = step]
        /\ response' = [type |-> "none", toRecv |-> 1]
        /\ UNCHANGED <<op, calls, call, mutex, up, toServer, toClient>>
    BY DEF Goto
  <1>2. mutex = t /\ toServer = << >>
    BY DEF TypeOK, SenderFramed
  <1>3. TypeOK'
    BY <1>1, <1>2 DEF TypeOK, Steps
  <1> QED  BY <1>1, <1>2, <1>3 DEF RequestsFramed, SenderFramed, StreamTypes

(* Both sends of a request, whatever the state of the connection.          *)
LEMMA SendsFramed ==
  ASSUME FramingInv, NEW t \in Thread, SendHeader(t) \/ SendContent(t)
  PROVE  FramingInv'
  <1> PICK part, step :
         /\ \/ pc[t] = "sendHeader" /\ part = "header" /\ step = "sendContent"
            \/ pc[t] = "sendContent" /\ part = "content" /\ step = "recvHeader"
         /\ SocketSend(t, [part |-> part, thread |-> t], step)
    BY DEF SendHeader, SendContent
  <1>1. UNCHANGED <<up, toClient>> /\ toClient' \in Seq(ClientUnit)
    BY DEF SocketSend, FramingInv, StreamTypes
  <1>2. CASE up
    BY <1>1, <1>2, SendFramed DEF SocketSend
  <1>3. CASE ~up /\ UNCHANGED toServer /\ Goto(t, step, "none", 1)
    BY <1>1, <1>3, NotSentFramed
  <1>4. CASE ~up /\ UNCHANGED toServer /\ Return(t, EIO, << >>)
    BY <1>1, <1>4, ReturnFramed DEF Inside
  <1> QED  BY <1>2, <1>3, <1>4 DEF SocketSend

(* What is left of a stream after units were received from its front.      *)
LEMMA ReceivedTyped ==
  ASSUME StreamTypes, NEW n \in Nat, Arrived(n)
  PROVE  /\ SubSeq(toClient, n + 1, Len(toClient)) \in Seq(ClientUnit)
         /\ n > 0 => Head(toClient) \in ClientUnit /\ Tail(toClient) \in Seq(ClientUnit)
  <1>1. Len(toClient) \in Nat /\ toClient \in Seq(ClientUnit)
    BY DEF StreamTypes
  <1>2. SubSeq(toClient, n + 1, Len(toClient)) \in Seq(ClientUnit)
    BY <1>1, SubSeqProperties
  <1>3. n > 0 => toClient # << >>
    BY <1>1 DEF Arrived
  <1> QED  BY <1>1, <1>2, <1>3, HeadTailProperties

(* The outcome of a call, like every return, leaves the framing alone.     *)
LEMMA DecodedReturns ==
  ASSUME NEW t, NEW type, NEW content, Decoded(t, type, content)
  PROVE  \E code, data : Return(t, code, data)
  BY DEF Decoded

(* Every receive of the three methods.                                     *)
LEMMA ReceiveFramed ==
  ASSUME FramingInv, NEW t \in Thread,
         RecvHeader(t) \/ RecvContent(t) \/ RecvCount(t) \/ RecvData(t)
  PROVE  FramingInv'
  <1>1. /\ pc[t] \in Inside \ {"sendContent"}
        /\ UNCHANGED <<up, toServer>>
        /\ StreamTypes
        /\ response.toRecv \in Nat
    BY DEF RecvHeader, RecvContent, RecvCount, RecvData, Inside, FramingInv, TypeOK
  <1>2. CASE RecvFails(t)
    <2>1. toClient' \in Seq(ClientUnit) /\ Return(t, EIO, << >>)
      BY <1>2 DEF RecvFails
    <2> QED  BY <1>1, <2>1, ReturnFramed
  <1>3. CASE RecvHeader(t) /\ ~RecvFails(t)
    <2>0. Arrived(1) /\ toClient' = Tail(toClient)
      BY <1>3 DEF RecvHeader
    <2>1. /\ Head(toClient) \in ClientUnit
          /\ toClient' \in Seq(ClientUnit)
      BY <1>1, <2>0, ReceivedTyped
    <2>2. PICK header \in ParsedHeaders(Head(toClient)) :
              \/ \E code, data : Return(t, code, data)
              \/ Decoded(t, header.type, << >>)
              \/ Goto(t, "recvCount", header.type, 1)
              \/ Goto(t, "recvContent", header.type, header.size)
      BY <1>3 DEF RecvHeader
    <2>3. header.size \in Nat
      BY <2>1 DEF ParsedHeaders, ClientUnit, HeaderUnit, BodyUnit, Header
    <2> QED  BY <1>1, <2>1, <2>2, <2>3, DecodedReturns, ReturnFramed, GotoFramed
  <1>4. CASE RecvContent(t) /\ ~RecvFails(t)
    <2>1. toClient' \in Seq(ClientUnit) /\ \E type, content : Decoded(t, type, content)
      BY <1>1, <1>4, ReceivedTyped DEF RecvContent
    <2> QED  BY <1>1, <2>1, DecodedReturns, ReturnFramed
  <1>5. CASE RecvCount(t) /\ ~RecvFails(t)
    <2>1. Head(toClient) \in ClientUnit /\ toClient' \in Seq(ClientUnit)
      BY <1>1, <1>5, ReceivedTyped DEF RecvCount
    <2>2. Number(Head(toClient)) \in Nat
      BY <2>1 DEF Number, ClientUnit, HeaderUnit, BodyUnit
    <2>3. \/ \E code, data : Return(t, code, data)
          \/ Goto(t, "recvData", response.type, Number(Head(toClient)))
      BY <1>5 DEF RecvCount
    <2> QED  BY <1>1, <2>1, <2>2, <2>3, ReturnFramed, GotoFramed
  <1>6. CASE RecvData(t) /\ ~RecvFails(t)
    <2>1. toClient' \in Seq(ClientUnit) /\ \E code, data : Return(t, code, data)
      BY <1>1, <1>6, ReceivedTyped DEF RecvData
    <2> QED  BY <1>1, <2>1, ReturnFramed
  <1> QED  BY <1>2, <1>3, <1>4, <1>5, <1>6

(* A thread that gets the mutex sends nothing yet.                         *)
LEMMA LockFramed ==
  ASSUME FramingInv, NEW t \in Thread, Lock(t)
  PROVE  FramingInv'
  <1> USE DEF FramingInv
  <1>1. TypeOK'
    BY ConnectionAssumption DEF Lock, TypeOK, Steps
  <1>2. \A i \in 1 .. Len(toServer) : i % 2 = 1 => i # Len(toServer)
    BY ConnectionAssumption DEF Lock, RequestsFramed, TypeOK
  <1>3. RequestsFramed'
    BY <1>2 DEF Lock, RequestsFramed
  <1>4. SenderFramed' /\ StreamTypes'
    BY DEF Lock, SenderFramed, StreamTypes, TypeOK
  <1> QED  BY <1>1, <1>3, <1>4

(* A new call.                                                             *)
LEMMA InvokeFramed ==
  ASSUME FramingInv, NEW t \in Thread, NEW o \in Operation, Invoke(t, o)
  PROVE  FramingInv'
  <1> USE DEF FramingInv
  <1>1. mutex # t
    BY DEF Invoke, TypeOK
  <1>2. TypeOK'
    <2>1. call' \in [Thread -> 0 .. calls'] /\ calls' \in 0 .. MaxCalls
      BY OperationAssumption DEF Invoke, TypeOK
    <2> QED  BY <1>1, <2>1, OperationAssumption DEF Invoke, TypeOK, Steps
  <1>3. RequestsFramed' /\ SenderFramed' /\ StreamTypes'
    BY <1>1 DEF Invoke, RequestsFramed, SenderFramed, StreamTypes, TypeOK
  <1> QED  BY <1>2, <1>3

(* The server takes whole requests only.                                   *)
LEMMA ServeFramed ==
  ASSUME FramingInv, Serve
  PROVE  FramingInv'
  <1> USE DEF FramingInv
  <1>1. /\ toServer' = SubSeq(toServer, 3, Len(toServer))
        /\ Len(toServer) >= 2 /\ up
        /\ UNCHANGED <<pc, op, calls, call, mutex, response, up>>
    BY DEF Serve
  <1>2. Len(toServer) \in Nat /\ toServer \in Seq(ServerUnit)
    BY DEF StreamTypes
  <1>3. /\ toServer' \in Seq(ServerUnit)
        /\ Len(toServer') = Len(toServer) - 2
        /\ \A i \in 1 .. Len(toServer') : toServer'[i] = toServer[i + 2]
    <2>1. Len(toServer) \in 0 .. Len(toServer) /\ 3 \in 1 .. Len(toServer) + 1
      BY <1>1, <1>2
    <2> DEFINE rest == SubSeq(toServer, 3, Len(toServer))
    <2>2. /\ rest \in Seq(ServerUnit)
          /\ Len(rest) = Len(toServer) + 1 - 3
          /\ \A i \in 1 .. Len(toServer) + 1 - 3 : rest[i] = toServer[3 + i - 1]
      BY <1>2, <2>1, PartOfSequence
    <2>3. toServer' = rest
      BY <1>1
    <2> HIDE DEF rest
    <2>4. ASSUME NEW i \in 1 .. Len(rest) PROVE rest[i] = toServer[i + 2]
      <3>1. i \in 1 .. Len(toServer) + 1 - 3 /\ 3 + i - 1 = i + 2
        BY <1>2, <2>2
      <3> QED  BY <2>2, <3>1
    <2> QED  BY <1>2, <2>2, <2>3, <2>4
  <1>4. toClient' \in Seq(ClientUnit)
    <2> DEFINE t == Head(toServer).thread
    <2>0. Head(toServer) \in ServerUnit
      BY <1>1, <1>2, HeadTailProperties
    <2>1. t \in Thread
      BY <2>0 DEF ServerUnit
    <2>2. PICK r \in Replies(op[t], call[t]), tag \in {Tag(op[t]), 1, NOTAG} :
             toClient' = toClient \o <<Header(r.type, tag, Len(r.body))>> \o r.body
      BY DEF Serve
    <2>3. r.type \in MessageType /\ r.body \in Seq(BodyUnit)
      BY <2>1, RepliesTyped DEF TypeOK
    <2>4. tag \in Nat
      BY DEF Tag, NOTAG
    <2>5. Header(r.type, tag, Len(r.body)) \in ClientUnit
      BY <2>3, <2>4 DEF Header, ClientUnit, HeaderUnit
    <2>6. r.body \in Seq(ClientUnit)
      BY <2>3, SeqMonotonic DEF ClientUnit
    <2>7. <<Header(r.type, tag, Len(r.body))>> \in Seq(ClientUnit)
      BY <2>5
    <2> HIDE DEF t
    <2> QED  BY <2>2, <2>6, <2>7, ConcatProperties DEF StreamTypes
  <1>5. TypeOK'
    BY <1>1, <1>3 DEF TypeOK, ServerUnit
  <1>6. RequestsFramed'
    <2> SUFFICES ASSUME NEW i \in 1 .. Len(toServer')
                 PROVE  /\ toServer'[i].part = IF i % 2 = 1 THEN "header" ELSE "content"
                        /\ i % 2 = 0 => toServer'[i].thread = toServer'[i - 1].thread
                        /\ i % 2 = 1 /\ i = Len(toServer') =>
                              toServer'[i].thread = mutex' /\ pc'[mutex'] = "sendContent"
      BY DEF RequestsFramed
    <2>1. /\ i + 2 \in 1 .. Len(toServer) /\ (i + 2) % 2 = i % 2
          /\ toServer'[i] = toServer[i + 2]
          /\ i = Len(toServer') <=> i + 2 = Len(toServer)
      BY <1>2, <1>3
    <2>2. i % 2 = 0 => toServer'[i - 1] = toServer[(i + 2) - 1]
      BY <1>2, <1>3
    <2> QED  BY <1>1, <2>1, <2>2 DEF RequestsFramed
  <1>7. SenderFramed' /\ StreamTypes'
    <2>1. Len(toServer') % 2 = Len(toServer) % 2
      BY <1>2, <1>3
    <2> QED  BY <1>1, <1>3, <1>4, <2>1 DEF SenderFramed, StreamTypes
  <1> QED  BY <1>5, <1>6, <1>7

(* A lost connection takes what was under way with it.                     *)
LEMMA DisconnectFramed ==
  ASSUME FramingInv, Disconnect
  PROVE  FramingInv'
  <1> USE DEF FramingInv
  <1>1. toClient' \in Seq(ClientUnit)
    <2>1. PICK n \in 0 .. Len(toClient) : toClient' = SubSeq(toClient, 1, n)
      BY DEF Disconnect
    <2>2. toClient \in Seq(ClientUnit) /\ Len(toClient) \in Nat
      BY DEF StreamTypes
    <2> QED  BY <2>1, <2>2, PartOfSequence
  <1>2. /\ up' = FALSE /\ toServer' = << >>
        /\ UNCHANGED <<pc, op, calls, call, mutex, response>>
    BY DEF Disconnect
  <1>3. TypeOK'
    <2>1. \A i \in 1 .. Len(toServer') : toServer'[i].thread \in Thread
      BY <1>2
    <2>2. up' \in BOOLEAN
      BY <1>2
    <2> QED  BY <1>2, <2>1, <2>2 DEF TypeOK
  <1>4. RequestsFramed' /\ SenderFramed' /\ StreamTypes'
    BY <1>1, <1>2 DEF RequestsFramed, SenderFramed, StreamTypes
  <1> QED  BY <1>3, <1>4

(* Every step keeps the requests framed.                                   *)
LEMMA StepFramed == FramingInv /\ [Next]_vars => FramingInv'
  <1> SUFFICES ASSUME FramingInv, [Next]_vars PROVE FramingInv'
    OBVIOUS
  <1>1. ASSUME NEW t \in Thread, Step(t) PROVE FramingInv'
    BY <1>1, LockFramed, SendsFramed, ReceiveFramed DEF Step, RequestResponse, Read, Write
  <1>2. CASE UNCHANGED vars
    BY <1>2 DEF vars, FramingInv, TypeOK, StreamTypes, RequestsFramed, SenderFramed
  <1> QED  BY <1>1, <1>2, InvokeFramed, ServeFramed, DisconnectFramed DEF Next

(* Whatever the server answers and whenever the connection is lost, the    *)
(* variables keep their types and only the owner of the mutex is inside.   *)
THEOREM TypeCorrect == Spec => []TypeOK
  <1>1. FramingInv => TypeOK
    BY DEF FramingInv
  <1> QED  BY <1>1, InitFramed, StepFramed, PTL DEF Spec

(* No two threads are ever between their first send and their return.      *)
THEOREM MutualExclusion ==
  Spec => [](\A t, u \in Thread : pc[t] \in Inside /\ pc[u] \in Inside => t = u)
  <1>1. TypeOK => \A t, u \in Thread : pc[t] \in Inside /\ pc[u] \in Inside => t = u
    BY DEF TypeOK, Inside
  <1> QED  BY <1>1, TypeCorrect, PTL

(* The header and the content of a request are next to each other on the   *)
(* wire, whatever the server answers.                                      *)
THEOREM RequestsStayFramed == Spec => []RequestsFramed
  <1>1. FramingInv => RequestsFramed
    BY DEF FramingInv
  <1> QED  BY <1>1, InitFramed, StepFramed, PTL DEF Spec

----------------------------------------------------------------------------
(* From here on the server echoes tags.  Then the streams hold just what   *)
(* belongs to the call of the owner of the mutex.                          *)

RequestHeader(t) == <<[part |-> "header", thread |-> t]>>

Request(t) == <<[part |-> "header", thread |-> t], [part |-> "content", thread |-> t]>>

OnWire(o, r) == <<Header(r.type, Tag(o), Len(r.body))>> \o r.body

(* All of whole is still to be received, or, the connection being lost,    *)
(* what arrived of it before.                                              *)
StillToCome(whole) ==
    \E n \in 0 .. Len(whole) : toClient = SubSeq(whole, 1, n) /\ (up => n = Len(whole))

(* Of the owner of the mutex: what is under way when it was not yet        *)
(* answered,                                                               *)
Unanswered(t) ==
    /\ pc[t] \in {"sendHeader", "sendContent", "recvHeader"}
    /\ toClient = << >>
    /\ up /\ pc[t] = "sendHeader" => toServer = << >>
    /\ up /\ pc[t] = "sendContent" => toServer = RequestHeader(t)
    /\ up /\ pc[t] = "recvHeader" => toServer = Request(t)
    /\ pc[t] = "recvHeader" => response.toRecv = 1

(* and what it expects when it was answered with r.                        *)
Answered(t, r) ==
    /\ toServer = << >>
    /\ \/ /\ pc[t] = "recvHeader" /\ response.toRecv = 1
          /\ StillToCome(OnWire(op[t], r))
       \/ /\ pc[t] = "recvContent"
          /\ response = [type |-> r.type, toRecv |-> Len(r.body)]
          /\ r.body # << >> /\ (op[t] = "Read" => r.type # "Read")
          /\ StillToCome(r.body)
       \/ /\ pc[t] = "recvCount" /\ response.toRecv = 1
          /\ op[t] = "Read" /\ r.type = "Read"
          /\ StillToCome(r.body)
       \/ /\ pc[t] = "recvData" /\ response.toRecv = Len(r.body) - 1
          /\ op[t] = "Read" /\ r.type = "Read"
          /\ StillToCome(Tail(r.body))

Exchange(t) ==
    \/ reply[t] = << >> /\ Unanswered(t)
    \/ \E r \in Replies(op[t], call[t]) : reply[t] = <<r>> /\ Answered(t, r)

InStep ==
    /\ reply = [t \in Thread |-> reply[t]]
    /\ mutex = NoThread => toServer = << >> /\ toClient = << >>
    /\ \A t \in Thread : pc[t] = "lock" => reply[t] = << >>
    /\ \A t \in Thread : mutex = t => Exchange(t)

InStepInv == FramingInv /\ InStep

Implements == [Promised!Next]_(Promised!vars)

(* The first unit of what is still to come, and what comes after it.       *)
LEMMA FirstUnit ==
  ASSUME NEW S, NEW unit \in S, NEW rest \in Seq(S),
         StillToCome(<<unit>> \o rest), Arrived(1)
  PROVE  /\ Head(toClient) = unit
         /\ toClient' = Tail(toClient) /\ up' = up => StillToCome(rest)'
  <1> DEFINE whole == <<unit>> \o rest
  <1>1. /\ whole \in Seq(S) /\ Len(rest) \in Nat /\ Len(whole) = Len(rest) + 1
        /\ whole[1] = unit /\ \A i \in 1 .. Len(rest) : whole[i + 1] = rest[i]
    <2>1. <<unit>> \in Seq(S) /\ Len(<<unit>>) = 1
      OBVIOUS
    <2> QED  BY <2>1, ConcatProperties
  <1>2. PICK n \in 0 .. Len(whole) :
           toClient = SubSeq(whole, 1, n) /\ (up => n = Len(whole))
    BY DEF StillToCome
  <1> HIDE DEF whole
  <1>3. Len(toClient) = n /\ n >= 1
    BY <1>1, <1>2, PartOfSequence DEF Arrived
  <1>4. Head(toClient) = whole[1] /\ Tail(toClient) = SubSeq(whole, 2, n)
    BY <1>1, <1>2, <1>3, HeadTailOfSubSeq
  <1>5. SubSeq(whole, 2, n) = SubSeq(rest, 1, n - 1)
    <2>1. /\ SubSeq(whole, 2, n) \in Seq(S)
          /\ Len(SubSeq(whole, 2, n)) = n + 1 - 2
          /\ \A i \in 1 .. n + 1 - 2 : SubSeq(whole, 2, n)[i] = whole[2 + i - 1]
      BY <1>1, <1>2, <1>3, PartOfSequence
    <2>2. n - 1 \in 0 .. Len(rest) /\ 1 \in 1 .. (n - 1) + 1
      BY <1>1, <1>3
    <2>3. /\ SubSeq(rest, 1, n - 1) \in Seq(S)
          /\ Len(SubSeq(rest, 1, n - 1)) = (n - 1) + 1 - 1
          /\ \A i \in 1 .. (n - 1) + 1 - 1 : SubSeq(rest, 1, n - 1)[i] = rest[1 + i - 1]
      BY <2>2, PartOfSequence
    <2>4. ASSUME NEW i \in 1 .. n - 1
          PROVE  SubSeq(whole, 2, n)[i] = SubSeq(rest, 1, n - 1)[i]
      <3>1. 2 + i - 1 = i + 1 /\ 1 + i - 1 = i /\ i \in 1 .. Len(rest)
        BY <1>1, <1>3
      <3>2. i \in 1 .. n + 1 - 2 /\ i \in 1 .. (n - 1) + 1 - 1
        BY <1>3
      <3>3. SubSeq(whole, 2, n)[i] = whole[i + 1]
        BY <2>1, <3>1, <3>2
      <3>4. SubSeq(rest, 1, n - 1)[i] = rest[i]
        BY <2>3, <3>1, <3>2
      <3> QED  BY <1>1, <3>1, <3>3, <3>4
    <2>5. n + 1 - 2 = n - 1 /\ (n - 1) + 1 - 1 = n - 1
      BY <1>3
    <2> QED  BY <2>1, <2>3, <2>4, <2>5, SeqEqual
  <1>6. ASSUME toClient' = Tail(toClient), up' = up PROVE StillToCome(rest)'
    <2>1. n - 1 \in 0 .. Len(rest) /\ (up' => n - 1 = Len(rest))
      BY <1>1, <1>2, <1>3, <1>6
    <2>2. toClient' = SubSeq(rest, 1, n - 1)
      BY <1>4, <1>5, <1>6
    <2> QED  BY <2>1, <2>2 DEF StillToCome
  <1> QED  BY <1>1, <1>4, <1>6

(* All that is still to come, once as many units arrived.                  *)
LEMMA AllUnits ==
  ASSUME NEW S, NEW whole \in Seq(S), StillToCome(whole), Arrived(Len(whole))
  PROVE  /\ toClient = whole
         /\ SubSeq(toClient, 1, Len(whole)) = whole
         /\ SubSeq(toClient, Len(whole) + 1, Len(toClient)) = << >>
  <1>1. PICK n \in 0 .. Len(whole) : toClient = SubSeq(whole, 1, n)
    BY DEF StillToCome
  <1>2. Len(whole) \in Nat /\ Len(toClient) = n
    BY <1>1, PartOfSequence
  <1>3. n = Len(whole)
    BY <1>2 DEF Arrived
  <1>4. toClient = whole
    BY <1>1, <1>3, SubSeqFull
  <1> QED  BY <1>2, <1>4, SubSeqFull, SubSeqEmpty

(* The codes hidden behind EIO are those outside the portable ones.        *)
LEMMA HiddenCodes ==
    \A code \in Nat \ {0} : code > 34 \/ code = 11 <=> code \notin 1 .. 34 \ {11}
  OBVIOUS

(* What the client makes of the reply to its own call is what RemoteCalls  *)
(* makes of it.                                                            *)
LEMMA DecodesReturn ==
  ASSUME FramingInv, NEW t \in Thread, NEW r \in Replies(op[t], call[t]),
         op[t] = "Read" => r.type # "Read",
         Decoded(t, r.type, r.body)
  PROVE  \E code, data : /\ Return(t, code, data)
                         /\ [code |-> code, data |-> data] = Promised!Outcome(op[t], r)
  <1> DEFINE last == r.body[Len(r.body)]
             outcome == Promised!Outcome(op[t], r)
  <1>1. op[t] \in AnyOperation /\ call[t] \in Nat
    BY OperationAssumption DEF FramingInv, TypeOK
  <1>2. op[t] \notin ErrorType \cup {"Unexpected"}
    BY <1>1 DEF AnyOperation, Wrapped, ErrorType
  <1>3. CASE r.type = op[t]
    <2>1. outcome = [code |-> 0, data |-> r.body]
      BY <1>2, <1>3 DEF Promised!Outcome, ErrorType
    <2>2. Return(t, 0, r.body)
      BY <1>2, <1>3 DEF Decoded, ErrorType
    <2> QED  BY <2>1, <2>2
  <1>4. CASE r.type # op[t] /\ r.type \in ErrorType
    <2>1. PICK code \in ErrorCodes : r.body = <<Unit(call[t], code)>>
      BY <1>2, <1>4 DEF Replies, ErrorType
    <2>2. last = Unit(call[t], code) /\ code \in Nat \ {0}
      BY <2>1, OperationAssumption
    <2>3. Number(last) = code /\ last.value = code
      BY <2>2 DEF Number, Unit
    <2>4. CASE r.type = "LinuxError"
      <3>1. outcome = [code |-> code, data |-> << >>]
        BY <1>4, <2>3, <2>4 DEF Promised!Outcome
      <3>2. Return(t, code, << >>)
        BY <1>4, <2>3, <2>4 DEF Decoded
      <3> QED  BY <3>1, <3>2
    <2>5. CASE r.type = "Error"
      <3>1. outcome = [code |-> IF code > ERANGE \/ code = EAGAIN THEN EIO ELSE code,
                       data |-> << >>]
        <4>1. code > ERANGE \/ code = EAGAIN <=>
                 code \notin 1 .. Promised!ERANGE \ {Promised!EAGAIN}
          BY <2>2, HiddenCodes DEF ERANGE, Promised!ERANGE, EAGAIN, Promised!EAGAIN
        <4>2. EIO = Promised!EIO
          BY DEF EIO, Promised!EIO
        <4> QED  BY <1>4, <2>3, <2>5, <4>1, <4>2 DEF Promised!Outcome
      <3>2. Return(t, IF code > ERANGE \/ code = EAGAIN THEN EIO ELSE code, << >>)
        BY <1>4, <2>3, <2>5 DEF Decoded
      <3> QED  BY <3>1, <3>2
    <2> QED  BY <1>4, <2>4, <2>5 DEF ErrorType
  <1>5. CASE r.type = "Unexpected"
    <2>1. outcome = [code |-> EIO, data |-> << >>]
      BY <1>2, <1>5 DEF Promised!Outcome, EIO, Promised!EIO
    <2>2. Return(t, EIO, << >>)
      BY <1>2, <1>5 DEF Decoded
    <2> QED  BY <2>1, <2>2
  <1> QED  BY <1>3, <1>4, <1>5 DEF Replies

(* A return, with the outcome of the server's answer or with EIO after the *)
(* connection was lost, that leaves nothing in the streams.                *)
LEMMA ReturnInStep ==
  ASSUME InStepInv, NEW t \in Thread, pc[t] \in Inside, NEW code, NEW data,
         Return(t, code, data), UNCHANGED up, toServer' = << >>, toClient' = << >>,
         \/ ~up /\ code = EIO /\ data = << >>
         \/ \E r \in Replies(op[t], call[t]) :
               /\ reply[t] = <<r>>
               /\ [code |-> code, data |-> data] = Promised!Outcome(op[t], r)
  PROVE  InStep' /\ Implements
  <1> USE DEF InStepInv, FramingInv
  <1>1. mutex = t
    BY DEF TypeOK, Inside
  <1>2. /\ pc' = [pc EXCEPT ![t] = "idle"]
        /\ mutex' = NoThread
        /\ result' = [result EXCEPT ![t] =
                        [call |-> call[t], code |-> code, data |-> data]]
        /\ UNCHANGED <<op, calls, call, reply, up>>
    BY DEF Return
  <1>3. InStep'
    BY <1>2, ConnectionAssumption DEF InStep, TypeOK
  <1>4. Promised!Return(t)
    <2>1. {u \in Thread : pc'[u] # "idle"} = {u \in Thread : pc[u] # "idle"} \ {t}
      BY <1>2 DEF TypeOK
    <2>2. t \in {u \in Thread : pc[u] # "idle"}
      BY DEF Inside
    <2>3. [code |-> code, data |-> data] \in
             {Promised!Outcome(op[t], reply[t][i]) : i \in DOMAIN reply[t]}
               \cup (IF up THEN {} ELSE {[code |-> EIO, data |-> << >>]})
      OBVIOUS
    <2>4. EIO = Promised!EIO
      BY DEF EIO, Promised!EIO
    <2> QED  BY <1>2, <2>1, <2>2, <2>3, <2>4 DEF Promised!Return
  <1>5. Promised!Next
    BY <1>4 DEF Promised!Next
  <1> QED  BY <1>3, <1>5 DEF Implements

(* Any other step of the owner of the mutex is not seen by the callers.    *)
LEMMA GotoImplements ==
  ASSUME FramingInv, NEW t \in Thread, pc[t] \in Inside, NEW step \in Inside,
         NEW type, NEW toRecv, Goto(t, step, type, toRecv), UNCHANGED up
  PROVE  Implements
  <1>1. pc' = [pc EXCEPT ![t] = step] /\ UNCHANGED <<op, calls, call, reply, result, up>>
    BY DEF Goto
  <1>2. {u \in Thread : pc'[u] # "idle"} = {u \in Thread : pc[u] # "idle"}
    BY <1>1 DEF Inside, FramingInv, TypeOK
  <1> QED  BY <1>1, <1>2 DEF Implements, Promised!vars

(* It keeps in step if its own exchange does.                              *)
LEMMA GotoInStep ==
  ASSUME InStepInv, NEW t \in Thread, pc[t] \in Inside, NEW step \in Inside,
         NEW type, NEW toRecv, Goto(t, step, type, toRecv), Exchange(t)'
  PROVE  InStep'
  <1> USE DEF InStepInv, FramingInv
  <1>1. pc' = [pc EXCEPT ![t] = step] /\ UNCHANGED <<op, calls, call, mutex, reply, result>>
    BY DEF Goto
  <1>2. mutex = t
    BY DEF TypeOK, Inside
  <1> QED  BY <1>1, <1>2, ConnectionAssumption DEF InStep, TypeOK, Inside

(* A thread that gets the mutex finds both streams empty.                  *)
LEMMA LockInStep ==
  ASSUME InStepInv, NEW t \in Thread, Lock(t)
  PROVE  InStep' /\ Implements
  <1> USE DEF InStepInv, FramingInv
  <1>1. /\ pc' = [pc EXCEPT ![t] = "sendHeader"] /\ mutex' = t
        /\ mutex = NoThread /\ pc[t] = "lock"
        /\ UNCHANGED <<op, calls, call, response, up, toServer, toClient, reply, result>>
    BY DEF Lock
  <1>2. pc'[t] = "sendHeader" /\ toServer = << >> /\ toClient = << >> /\ reply[t] = << >>
    BY <1>1 DEF InStep, TypeOK
  <1>3. Exchange(t)'
    BY <1>1, <1>2 DEF Exchange, Unanswered
  <1>4. InStep'
    BY <1>1, <1>3, ConnectionAssumption DEF InStep, TypeOK
  <1>5. {u \in Thread : pc'[u] # "idle"} = {u \in Thread : pc[u] # "idle"}
    BY <1>1 DEF TypeOK
  <1> QED  BY <1>1, <1>4, <1>5 DEF Implements, Promised!vars

(* The owner's exchange, which is the only one under way.                  *)
LEMMA OwnerInside ==
  ASSUME InStepInv, NEW t \in Thread, pc[t] \in Inside
  PROVE  /\ mutex = t /\ Exchange(t)
         /\ ~up => toServer = << >>
         /\ op[t] \in AnyOperation /\ call[t] \in Nat
  BY OperationAssumption DEF InStepInv, InStep, FramingInv, TypeOK, SenderFramed, Inside

(* A connection that is lost ends the call with EIO.                       *)
LEMMA FailsInStep ==
  ASSUME InStepInv, NEW t \in Thread, pc[t] \in Inside, RecvFails(t), UNCHANGED <<up, toServer>>
  PROVE  InStep' /\ Implements
  BY OwnerInside, ReturnInStep DEF RecvFails

(* The two sends.                                                          *)
LEMMA SendInStep ==
  ASSUME InStepInv, NEW t \in Thread, SendHeader(t) \/ SendContent(t)
  PROVE  InStep' /\ Implements
  <1>1. pc[t] \in Inside /\ pc[t] \in {"sendHeader", "sendContent"}
    BY DEF SendHeader, SendContent, Inside
  <1>2. /\ mutex = t /\ reply[t] = << >> /\ toClient = << >>
        /\ ~up => toServer = << >>
        /\ up /\ pc[t] = "sendHeader" => toServer = << >>
        /\ up /\ pc[t] = "sendContent" => toServer = RequestHeader(t)
    BY <1>1, OwnerInside DEF Exchange, Unanswered, Answered
  <1> PICK part, step :
         /\ \/ pc[t] = "sendHeader" /\ part = "header" /\ step = "sendContent"
            \/ pc[t] = "sendContent" /\ part = "content" /\ step = "recvHeader"
         /\ SocketSend(t, [part |-> part, thread |-> t], step)
    BY DEF SendHeader, SendContent
  <1>3. UNCHANGED <<up, toClient>> /\ step \in Inside
    BY DEF SocketSend, Inside
  <1>4. ASSUME Goto(t, step, "none", 1),
               up => toServer' = Append(toServer, [part |-> part, thread |-> t])
        PROVE  InStep' /\ Implements
    <2>1. /\ pc' = [pc EXCEPT ![t] = step] /\ reply' = reply
          /\ response' = [type |-> "none", toRecv |-> 1]
      BY <1>4 DEF Goto
    <2>2. pc'[t] = step
      BY <2>1 DEF InStepInv, FramingInv, TypeOK
    <2>3. up => toServer' = IF step = "sendContent" THEN RequestHeader(t)
                            ELSE Request(t)
      BY <1>2, <1>4 DEF RequestHeader, Request
    <2>4. Exchange(t)'
      BY <1>2, <1>3, <2>1, <2>2, <2>3 DEF Exchange, Unanswered, RequestHeader, Request
    <2> QED  BY <1>1, <1>3, <1>4, <2>4, GotoInStep, GotoImplements DEF InStepInv
  <1>5. CASE up
    BY <1>4, <1>5 DEF SocketSend
  <1>6. CASE ~up /\ UNCHANGED toServer /\ Goto(t, step, "none", 1)
    BY <1>4, <1>6
  <1>7. CASE ~up /\ UNCHANGED toServer /\ Return(t, EIO, << >>)
    BY <1>1, <1>2, <1>3, <1>7, ReturnInStep
  <1> QED  BY <1>5, <1>6, <1>7 DEF SocketSend

(* The reply to a successful read: a count and that many units.            *)
LEMMA ReadReply ==
  ASSUME NEW c \in Nat, NEW r \in Replies("Read", c), r.type = "Read"
  PROVE  \E n \in Nat : \E data \in Seq(ClientUnit) :
            r.body = <<Unit(c, n)>> \o data /\ Len(data) = n /\ Tail(r.body) = data
                                        /\ Len(r.body) = n + 1
  <1>1. r.body \in SuccessBodies("Read", c)
    BY DEF Replies, ErrorType
  <1>2. PICK n \in 0 .. MaxRead :
           r.body = <<Unit(c, n)>> \o [i \in 1 .. n |-> Unit(c, i)]
    BY <1>1 DEF SuccessBodies
  <1> DEFINE data == [i \in 1 .. n |-> Unit(c, i)]
  <1>3. n \in Nat /\ \A v \in Nat : Unit(c, v) \in ClientUnit
    BY OperationAssumption DEF Unit, ClientUnit, BodyUnit
  <1>4. data \in Seq(ClientUnit) /\ Len(data) = n
    BY <1>3
  <1> HIDE DEF data
  <1>5. <<Unit(c, n)>> \in Seq(ClientUnit) /\ Len(<<Unit(c, n)>>) = 1
    BY <1>3
  <1>6. r.body = <<Unit(c, n)>> \o data
    BY <1>2 DEF data
  <1>7. /\ r.body \in Seq(ClientUnit) /\ Len(r.body) = n + 1
        /\ \A i \in 1 .. n : r.body[i + 1] = data[i]
    BY <1>3, <1>4, <1>5, <1>6, ConcatProperties
  <1>8. /\ Tail(r.body) \in Seq(ClientUnit) /\ Len(Tail(r.body)) = n
        /\ \A i \in 1 .. n : Tail(r.body)[i] = r.body[i + 1]
    BY <1>3, <1>7, HeadTailProperties
  <1>9. Tail(r.body) = data
    BY <1>4, <1>7, <1>8, SeqEqual
  <1> QED  BY <1>3, <1>4, <1>6, <1>7, <1>9

(* The header of the reply, which is there when one is.                    *)
LEMMA RecvHeaderInStep ==
  ASSUME EchoesTags, InStepInv, NEW t \in Thread, RecvHeader(t)
  PROVE  InStep' /\ Implements
  <1>1. pc[t] = "recvHeader" /\ pc[t] \in Inside /\ UNCHANGED <<up, toServer>>
    BY DEF RecvHeader, Inside
  <1>2. CASE RecvFails(t)
    BY <1>1, <1>2, FailsInStep
  <1>3. CASE ~RecvFails(t)
    <2>1. Arrived(1) /\ toClient' = Tail(toClient)
      BY <1>3 DEF RecvHeader
    <2>2. toClient # << >>
      BY <2>1 DEF Arrived
    <2>3. PICK r \in Replies(op[t], call[t]) :
             /\ reply[t] = <<r>> /\ toServer = << >>
             /\ StillToCome(OnWire(op[t], r))
      BY <1>1, <2>2, OwnerInside DEF Exchange, Unanswered, Answered
    <2> DEFINE header == Header(r.type, Tag(op[t]), Len(r.body))
    <2>4. r.type \in MessageType /\ r.body \in Seq(ClientUnit) /\ Len(r.body) \in Nat
      <3>1. r.type \in MessageType /\ r.body \in Seq(BodyUnit)
        BY <1>1, OwnerInside, RepliesTyped
      <3> QED  BY <3>1, SeqMonotonic DEF ClientUnit
    <2>5. header \in ClientUnit
      BY <2>4 DEF Header, ClientUnit, HeaderUnit, Tag, NOTAG
    <2>6. Head(toClient) = header /\ StillToCome(r.body)'
      BY <1>1, <2>1, <2>3, <2>4, <2>5, FirstUnit DEF OnWire
    <2>7. /\ ParsedHeaders(Head(toClient)) = {header}
          /\ header.type = r.type /\ header.tag = Tag(op[t]) /\ header.size = Len(r.body)
      <3>1. /\ header.part = "header"
            /\ header.type = r.type /\ header.tag = Tag(op[t]) /\ header.size = Len(r.body)
        BY DEF Header
      <3> HIDE DEF header
      <3> QED  BY <2>6, <3>1 DEF ParsedHeaders
    <2>8. \/ /\ op[t] = "Read" /\ r.type = "Read"
             /\ Goto(t, "recvCount", r.type, 1)
          \/ /\ ~(op[t] = "Read" /\ r.type = "Read")
             /\ IF Len(r.body) = 0 THEN Decoded(t, r.type, << >>)
                ELSE Goto(t, "recvContent", r.type, Len(r.body))
      BY <1>3, <2>7 DEF RecvHeader
    <2>9. CASE Goto(t, "recvCount", r.type, 1) /\ op[t] = "Read" /\ r.type = "Read"
      <3>1. /\ pc'[t] = "recvCount" /\ response'.toRecv = 1
            /\ UNCHANGED <<op, call, reply, toServer>>
        BY <1>1, <2>9 DEF Goto, InStepInv, FramingInv, TypeOK
      <3>2. Exchange(t)'
        BY <2>3, <2>6, <2>9, <3>1 DEF Exchange, Answered
      <3> QED  BY <1>1, <2>9, <3>2, GotoInStep, GotoImplements DEF Inside, InStepInv
    <2>10. CASE /\ Len(r.body) = 0 /\ Decoded(t, r.type, << >>)
                /\ ~(op[t] = "Read" /\ r.type = "Read")
      <3>1. r.body = << >>
        BY <2>4, <2>10
      <3>2. toClient' = << >>
        BY <2>6, <2>10, <3>1 DEF StillToCome
      <3>3. PICK code, data : /\ Return(t, code, data)
                              /\ [code |-> code, data |-> data] = Promised!Outcome(op[t], r)
        BY <2>10, <3>1, DecodesReturn DEF InStepInv
      <3> QED  BY <1>1, <2>3, <3>2, <3>3, ReturnInStep
    <2>11. CASE /\ Len(r.body) # 0 /\ Goto(t, "recvContent", r.type, Len(r.body))
                /\ ~(op[t] = "Read" /\ r.type = "Read")
      <3>1. /\ pc'[t] = "recvContent"
            /\ response' = [type |-> r.type, toRecv |-> Len(r.body)]
            /\ UNCHANGED <<op, call, reply, toServer>>
        BY <1>1, <2>11 DEF Goto, InStepInv, FramingInv, TypeOK
      <3>2. r.body # << >>
        BY <2>11
      <3>3. Exchange(t)'
        BY <2>3, <2>6, <2>11, <3>1, <3>2 DEF Exchange, Answered
      <3> QED  BY <1>1, <2>11, <3>3, GotoInStep, GotoImplements DEF Inside, InStepInv
    <2> QED  BY <2>8, <2>9, <2>10, <2>11
  <1> QED  BY <1>2, <1>3

(* The body of any other reply, received whole.                            *)
LEMMA RecvContentInStep ==
  ASSUME InStepInv, NEW t \in Thread, RecvContent(t)
  PROVE  InStep' /\ Implements
  <1>1. pc[t] = "recvContent" /\ pc[t] \in Inside /\ UNCHANGED <<up, toServer>>
    BY DEF RecvContent, Inside
  <1>2. CASE RecvFails(t)
    BY <1>1, <1>2, FailsInStep
  <1>3. CASE ~RecvFails(t)
    <2>1. PICK r \in Replies(op[t], call[t]) :
             /\ reply[t] = <<r>> /\ toServer = << >>
             /\ response = [type |-> r.type, toRecv |-> Len(r.body)]
             /\ op[t] = "Read" => r.type # "Read"
             /\ StillToCome(r.body)
      BY <1>1, OwnerInside DEF Exchange, Unanswered, Answered
    <2>2. /\ Arrived(Len(r.body))
          /\ toClient' = SubSeq(toClient, Len(r.body) + 1, Len(toClient))
          /\ Decoded(t, r.type, SubSeq(toClient, 1, Len(r.body)))
      BY <1>3, <2>1 DEF RecvContent
    <2>3. r.body \in Seq(BodyUnit)
      BY <1>1, OwnerInside, RepliesTyped
    <2>4. toClient' = << >> /\ Decoded(t, r.type, r.body)
      BY <2>1, <2>2, <2>3, AllUnits
    <2>5. PICK code, data : /\ Return(t, code, data)
                            /\ [code |-> code, data |-> data] = Promised!Outcome(op[t], r)
      BY <2>1, <2>4, DecodesReturn DEF InStepInv
    <2> QED  BY <1>1, <2>1, <2>4, <2>5, ReturnInStep
  <1> QED  BY <1>2, <1>3

(* The count of a read reply, and then its data.                           *)
LEMMA RecvCountInStep ==
  ASSUME InStepInv, NEW t \in Thread, RecvCount(t)
  PROVE  InStep' /\ Implements
  <1>1. pc[t] = "recvCount" /\ pc[t] \in Inside /\ UNCHANGED <<up, toServer>>
    BY DEF RecvCount, Inside
  <1>2. CASE RecvFails(t)
    BY <1>1, <1>2, FailsInStep
  <1>3. CASE ~RecvFails(t)
    <2>1. PICK r \in Replies(op[t], call[t]) :
             /\ reply[t] = <<r>> /\ toServer = << >>
             /\ op[t] = "Read" /\ r.type = "Read"
             /\ StillToCome(r.body)
      BY <1>1, OwnerInside DEF Exchange, Unanswered, Answered
    <2>2. call[t] \in Nat /\ r \in Replies("Read", call[t])
      BY <1>1, <2>1, OwnerInside
    <2>3. PICK n \in Nat : \E data \in Seq(ClientUnit) :
             r.body = <<Unit(call[t], n)>> \o data /\ Len(data) = n /\ Tail(r.body) = data
                                        /\ Len(r.body) = n + 1
      BY <2>1, <2>2, ReadReply
    <2>4. PICK data \in Seq(ClientUnit) :
             r.body = <<Unit(call[t], n)>> \o data /\ Len(data) = n /\ Tail(r.body) = data
                                        /\ Len(r.body) = n + 1
      BY <2>3
    <2>5. Unit(call[t], n) \in ClientUnit
      BY <2>2 DEF Unit, ClientUnit, BodyUnit
    <2>6. Arrived(1) /\ toClient' = Tail(toClient)
      BY <1>3 DEF RecvCount
    <2>7. Head(toClient) = Unit(call[t], n) /\ StillToCome(data)'
      BY <1>1, <2>1, <2>4, <2>5, <2>6, FirstUnit
    <2>8. Number(Head(toClient)) = n
      BY <2>7 DEF Number, Unit
    <2>9. CASE n = 0
      <3>1. data = << >>
        BY <2>4, <2>9
      <3>2. toClient' = << >>
        BY <2>4, <2>7, <2>9, <3>1 DEF StillToCome
      <3>3. Return(t, 0, << >>)
        BY <1>3, <2>8, <2>9 DEF RecvCount
      <3>4. [code |-> 0, data |-> << >>] = Promised!Outcome(op[t], r)
        BY <2>1, <2>4, <3>1 DEF Promised!Outcome
      <3> QED  BY <1>1, <2>1, <3>2, <3>3, <3>4, ReturnInStep
    <2>10. CASE n # 0
      <3>1. Goto(t, "recvData", response.type, n)
        BY <1>3, <2>8, <2>10 DEF RecvCount
      <3>2. /\ pc'[t] = "recvData" /\ response'.toRecv = n
            /\ UNCHANGED <<op, call, reply, toServer>>
        BY <1>1, <3>1 DEF Goto, InStepInv, FramingInv, TypeOK
      <3>3. n = Len(r.body) - 1
        BY <2>4
      <3>4. StillToCome(Tail(r.body))'
        BY <2>4, <2>7 DEF StillToCome
      <3>5. Exchange(t)'
        BY <2>1, <3>2, <3>3, <3>4 DEF Exchange, Answered
      <3> QED  BY <1>1, <3>1, <3>5, GotoInStep, GotoImplements DEF Inside, InStepInv
    <2> QED  BY <2>9, <2>10
  <1> QED  BY <1>2, <1>3

LEMMA RecvDataInStep ==
  ASSUME InStepInv, NEW t \in Thread, RecvData(t)
  PROVE  InStep' /\ Implements
  <1>1. pc[t] = "recvData" /\ pc[t] \in Inside /\ UNCHANGED <<up, toServer>>
    BY DEF RecvData, Inside
  <1>2. CASE RecvFails(t)
    BY <1>1, <1>2, FailsInStep
  <1>3. CASE ~RecvFails(t)
    <2>1. PICK r \in Replies(op[t], call[t]) :
             /\ reply[t] = <<r>> /\ toServer = << >>
             /\ op[t] = "Read" /\ r.type = "Read"
             /\ response.toRecv = Len(r.body) - 1
             /\ StillToCome(Tail(r.body))
      BY <1>1, OwnerInside DEF Exchange, Unanswered, Answered
    <2> DEFINE data == Tail(r.body)
    <2>2. data \in Seq(ClientUnit) /\ response.toRecv = Len(data)
      <3>1. call[t] \in Nat /\ r \in Replies("Read", call[t])
        BY <1>1, <2>1, OwnerInside
      <3>2. PICK n \in Nat : \E d \in Seq(ClientUnit) :
               /\ r.body = <<Unit(call[t], n)>> \o d
               /\ Len(d) = n /\ Tail(r.body) = d /\ Len(r.body) = n + 1
        BY <2>1, <3>1, ReadReply
      <3>3. data \in Seq(ClientUnit) /\ Len(data) = n /\ Len(r.body) = n + 1
        BY <3>2
      <3>4. (n + 1) - 1 = n
        OBVIOUS
      <3> QED  BY <2>1, <3>3, <3>4
    <2>3. /\ Arrived(Len(data))
          /\ toClient' = SubSeq(toClient, Len(data) + 1, Len(toClient))
          /\ Return(t, 0, SubSeq(toClient, 1, Len(data)))
      BY <1>3, <2>2 DEF RecvData
    <2>4. toClient' = << >> /\ Return(t, 0, data)
      BY <2>1, <2>2, <2>3, AllUnits
    <2>5. [code |-> 0, data |-> data] = Promised!Outcome(op[t], r)
      BY <2>1 DEF Promised!Outcome
    <2> QED  BY <1>1, <2>1, <2>4, <2>5, ReturnInStep
  <1> QED  BY <1>2, <1>3

(* A new call, which waits for the mutex.                                  *)
LEMMA InvokeInStep ==
  ASSUME InStepInv, NEW t \in Thread, NEW o \in Operation, Invoke(t, o)
  PROVE  InStep' /\ Implements
  <1> USE DEF InStepInv, FramingInv
  <1>1. /\ pc[t] = "idle" /\ calls < MaxCalls
        /\ pc' = [pc EXCEPT ![t] = "lock"]
        /\ op' = [op EXCEPT ![t] = o]
        /\ calls' = calls + 1
        /\ call' = [call EXCEPT ![t] = calls + 1]
        /\ reply' = [reply EXCEPT ![t] = << >>]
        /\ UNCHANGED <<mutex, response, up, toServer, toClient, result>>
    BY DEF Invoke
  <1>2. mutex # t
    BY <1>1 DEF TypeOK
  <1>3. ASSUME NEW u \in Thread, mutex' = u PROVE Exchange(u)'
    <2>1. u # t /\ mutex = u /\ Exchange(u)
      BY <1>1, <1>2, <1>3 DEF InStep
    <2>2. pc'[u] = pc[u] /\ op'[u] = op[u] /\ call'[u] = call[u]
      BY <1>1, <2>1 DEF TypeOK
    <2>3. reply'[u] = reply[u]
      BY <1>1, <2>1 DEF InStep
    <2>4. \A whole : StillToCome(whole)' <=> StillToCome(whole)
      BY <1>1 DEF StillToCome
    <2>5. Unanswered(u)' <=> Unanswered(u)
      BY <1>1, <2>2 DEF Unanswered
    <2>6. \A r : Answered(u, r)' <=> Answered(u, r)
      BY <1>1, <2>2, <2>4 DEF Answered
    <2>7. Replies(op[u], call[u])' = Replies(op[u], call[u])
      BY <2>2 DEF Replies, SuccessBodies
    <2> QED  BY <2>1, <2>3, <2>5, <2>6, <2>7 DEF Exchange
  <1>4. InStep'
    BY <1>1, <1>3 DEF InStep, TypeOK
  <1>5. {u \in Thread : pc'[u] # "idle"} = {u \in Thread : pc[u] # "idle"} \cup {t}
    BY <1>1 DEF TypeOK
  <1>6. Promised!Invoke(t, o)
    BY <1>1, <1>5 DEF Promised!Invoke
  <1> QED  BY <1>4, <1>6 DEF Implements, Promised!Next

(* The server answers the call of the owner of the mutex, once.            *)
LEMMA ServeInStep ==
  ASSUME EchoesTags, InStepInv, Serve
  PROVE  InStep' /\ Implements
  <1> USE DEF InStepInv, FramingInv
  <1>1. up /\ Len(toServer) >= 2 /\ toServer # << >>
    BY DEF Serve
  <1>2. PICK t \in Thread : mutex = t
    BY <1>1 DEF InStep, TypeOK
  <1>3. /\ reply[t] = << >> /\ toClient = << >> /\ toServer = Request(t)
        /\ pc[t] = "recvHeader" /\ response.toRecv = 1
    <2>1. reply[t] = << >> /\ Unanswered(t)
      BY <1>1, <1>2 DEF InStep, Exchange, Answered
    <2>2. Len(RequestHeader(t)) = 1
      BY DEF RequestHeader
    <2>3. pc[t] # "sendHeader"
      BY <1>1, <2>1 DEF Unanswered
    <2>4. pc[t] # "sendContent"
      <3>1. pc[t] = "sendContent" => toServer = RequestHeader(t)
        BY <1>1, <2>1 DEF Unanswered
      <3>2. \A n \in Nat : n >= 2 => n # 1
        OBVIOUS
      <3>3. Len(toServer) \in Nat /\ Len(toServer) >= 2
        BY <1>1 DEF StreamTypes
      <3>4. Len(toServer) # 1
        BY <3>2, <3>3, Zenon
      <3> QED  BY <2>2, <3>1, <3>4
    <2>5. pc[t] = "recvHeader"
      BY <2>1, <2>3, <2>4 DEF Unanswered
    <2> QED  BY <1>1, <2>1, <2>5 DEF Unanswered
  <1>4. Head(toServer).thread = t /\ SubSeq(toServer, 3, Len(toServer)) = << >>
    BY <1>3 DEF Request
  <1>5. PICK r \in Replies(op[t], call[t]) :
           /\ reply' = [reply EXCEPT ![t] = <<r>>]
           /\ toClient' = toClient \o <<Header(r.type, Tag(op[t]), Len(r.body))>> \o r.body
    BY <1>4 DEF Serve
  <1>6. /\ toServer' = << >>
        /\ UNCHANGED <<pc, op, calls, call, mutex, response, up, result>>
    BY <1>4 DEF Serve
  <1>7. /\ OnWire(op[t], r) \in Seq(ClientUnit)
        /\ toClient' = OnWire(op[t], r)
    <2> DEFINE header == Header(r.type, Tag(op[t]), Len(r.body))
    <2>1. op[t] \in AnyOperation /\ call[t] \in Nat
      BY <1>2, <1>3, OwnerInside DEF Inside
    <2>2. r.type \in MessageType /\ r.body \in Seq(BodyUnit)
      BY <2>1, RepliesTyped
    <2>3. r.body \in Seq(ClientUnit) /\ Len(r.body) \in Nat
      BY <2>2, SeqMonotonic DEF ClientUnit
    <2>4. header \in ClientUnit
      BY <2>2, <2>3 DEF Header, ClientUnit, HeaderUnit, Tag, NOTAG
    <2> HIDE DEF header
    <2>5. <<header>> \in Seq(ClientUnit)
      BY <2>4
    <2>6. << >> \o <<header>> = <<header>>
      BY <2>5, ConcatEmptySeq
    <2>7. toClient' = <<header>> \o r.body
      BY <1>3, <1>5, <2>6 DEF header
    <2> QED  BY <2>3, <2>5, <2>7, ConcatProperties DEF OnWire, header
  <1>8. StillToCome(OnWire(op[t], r))'
    <2> DEFINE whole == OnWire(op[t], r)
    <2>1. Len(whole) \in 0 .. Len(whole) /\ SubSeq(whole, 1, Len(whole)) = whole
      BY <1>7, SubSeqFull
    <2>2. op' = op
      BY <1>6
    <2> QED  BY <1>7, <2>1, <2>2 DEF StillToCome
  <1>9. \A u \in Thread : u # t => reply'[u] = reply[u]
    BY <1>5 DEF InStep
  <1>10. reply'[t] = <<r>>
    BY <1>5 DEF InStep
  <1>11. Exchange(t)'
    BY <1>3, <1>6, <1>8, <1>10 DEF Exchange, Answered
  <1>12. InStep'
    <2>1. pc'[t] # "lock" /\ mutex' = t /\ t # NoThread
      BY <1>2, <1>3, <1>6, ConnectionAssumption
    <2>2. reply' = [u \in Thread |-> reply'[u]]
      BY <1>5 DEF InStep
    <2>3. \A u \in Thread : pc'[u] = "lock" => reply'[u] = << >>
      BY <1>6, <1>9, <2>1 DEF InStep
    <2>4. \A u \in Thread : mutex' = u => Exchange(u)'
      BY <1>11, <2>1 DEF Exchange
    <2>5. mutex' = NoThread => toServer' = << >> /\ toClient' = << >>
      BY <2>1
    <2>6. \A u \in Thread : pc'[u] = "lock" => reply'[u] = << >>
      BY <2>3
    <2> QED  BY <2>2, <2>4, <2>5, <2>6 DEF InStep
  <1>13. Promised!Execute(t)
    <2>1. r \in Promised!Replies(op[t], call[t])
      BY DEF Replies, Promised!Replies, SuccessBodies, Promised!SuccessBodies, Unit,
             Promised!Unit, ErrorType, Promised!ErrorType, Bodiless, Promised!Bodiless
    <2>2. {u \in Thread : pc'[u] # "idle"} = {u \in Thread : pc[u] # "idle"}
      BY <1>6
    <2>3. t \in {u \in Thread : pc[u] # "idle"}
      BY <1>3
    <2> QED  BY <1>1, <1>3, <1>5, <1>6, <2>1, <2>2, <2>3 DEF Promised!Execute
  <1> QED  BY <1>12, <1>13 DEF Implements, Promised!Next

(* A lost connection cuts short what is still to come.                     *)
LEMMA DisconnectInStep ==
  ASSUME InStepInv, Disconnect
  PROVE  InStep' /\ Implements
  <1> USE DEF InStepInv, FramingInv
  <1>1. /\ up /\ up' = FALSE /\ toServer' = << >>
        /\ UNCHANGED <<pc, op, calls, call, mutex, response, reply, result>>
    BY DEF Disconnect
  <1>2. PICK n \in 0 .. Len(toClient) : toClient' = SubSeq(toClient, 1, n)
    BY DEF Disconnect
  <1>3. toClient = << >> => toClient' = << >>
    BY <1>2
  <1>4. ASSUME NEW S, NEW whole \in Seq(S), StillToCome(whole)
        PROVE  StillToCome(whole)'
    <2>1. toClient = whole /\ Len(whole) \in Nat
      <3>1. Len(whole) \in Nat /\ toClient = SubSeq(whole, 1, Len(whole))
        BY <1>1, <1>4 DEF StillToCome
      <3> QED  BY <3>1, SubSeqFull
    <2> QED  BY <1>1, <1>2, <2>1 DEF StillToCome
  <1>5. ASSUME NEW t \in Thread, mutex' = t PROVE Exchange(t)'
    <2>1. mutex = t /\ Exchange(t) /\ op[t] \in AnyOperation /\ call[t] \in Nat
      BY <1>1, <1>5, OperationAssumption DEF InStep, TypeOK
    <2>2. CASE reply[t] = << >> /\ Unanswered(t)
      BY <1>1, <1>3, <2>2 DEF Exchange, Unanswered
    <2>3. CASE \E r \in Replies(op[t], call[t]) : reply[t] = <<r>> /\ Answered(t, r)
      <3>1. PICK r \in Replies(op[t], call[t]) : reply[t] = <<r>> /\ Answered(t, r)
        BY <2>3
      <3>2. r.type \in MessageType /\ r.body \in Seq(BodyUnit)
        BY <2>1, RepliesTyped
      <3>3. r.body \in Seq(ClientUnit) /\ Len(r.body) \in Nat
        BY <3>2, SeqMonotonic DEF ClientUnit
      <3>4. OnWire(op[t], r) \in Seq(ClientUnit)
        <4> DEFINE header == Header(r.type, Tag(op[t]), Len(r.body))
        <4>1. header \in ClientUnit
          BY <3>2, <3>3 DEF Header, ClientUnit, HeaderUnit, Tag, NOTAG
        <4> HIDE DEF header
        <4>2. <<header>> \in Seq(ClientUnit)
          BY <4>1
        <4> QED  BY <3>3, <4>2, ConcatProperties DEF OnWire, header
      <3>5. op[t] = "Read" /\ r.type = "Read" => Tail(r.body) \in Seq(ClientUnit)
        BY <2>1, <3>1, ReadReply
      <3>6. StillToCome(OnWire(op[t], r)) => StillToCome(OnWire(op[t], r))'
        <4>1. op' = op
          BY <1>1
        <4> QED  BY <1>4, <3>4, <4>1
      <3>7. Answered(t, r)'
        BY <1>1, <1>4, <3>1, <3>3, <3>5, <3>6 DEF Answered
      <3> QED  BY <1>1, <3>1, <3>7 DEF Exchange
    <2> QED  BY <2>1, <2>2, <2>3 DEF Exchange
  <1>6. InStep'
    BY <1>1, <1>3, <1>5 DEF InStep
  <1>7. Promised!Lose
    BY <1>1 DEF Promised!Lose
  <1> QED  BY <1>6, <1>7 DEF Implements, Promised!Next

LEMMA InitInStep == Init => InStepInv /\ Promised!Init
  <1> SUFFICES ASSUME Init PROVE InStepInv /\ Promised!Init
    OBVIOUS
  <1>1. InStep
    BY ConnectionAssumption DEF Init, InStep
  <1>2. Promised!Init
    BY DEF Init, Promised!Init, NoResult, Promised!NoResult
  <1> QED  BY <1>1, <1>2, InitFramed DEF InStepInv

(* With a server that echoes tags every step keeps client and server in    *)
(* step, and is a step of RemoteCalls or is not seen by it.                *)
LEMMA StepInStep == EchoesTags /\ InStepInv /\ [Next]_vars => InStepInv' /\ Implements
  <1> SUFFICES ASSUME EchoesTags, InStepInv, [Next]_vars PROVE InStep' /\ Implements
    BY StepFramed DEF InStepInv
  <1>1. ASSUME NEW t \in Thread, Step(t) PROVE InStep' /\ Implements
    <2>1. \/ Lock(t) \/ SendHeader(t) \/ SendContent(t)
          \/ RecvHeader(t) \/ RecvContent(t) \/ RecvCount(t) \/ RecvData(t)
      BY <1>1 DEF Step, RequestResponse, Read, Write
    <2>2. CASE SendHeader(t) \/ SendContent(t)
      BY <2>2, SendInStep
    <2>3. CASE RecvHeader(t)
      BY <2>3, RecvHeaderInStep
    <2>4. CASE Lock(t) \/ RecvContent(t) \/ RecvCount(t) \/ RecvData(t)
      BY <2>4, LockInStep, RecvContentInStep, RecvCountInStep, RecvDataInStep
    <2> QED  BY <2>1, <2>2, <2>3, <2>4
  <1>2. CASE UNCHANGED vars
    <2>1. UNCHANGED <<pc, op, calls, call, mutex, response, up, toServer, toClient, reply, result>>
      BY <1>2 DEF vars
    <2>2. Implements
      BY <2>1 DEF Implements, Promised!vars
    <2>3. \A whole : StillToCome(whole)' <=> StillToCome(whole)
      BY <2>1 DEF StillToCome
    <2>4. ASSUME NEW t \in Thread PROVE Exchange(t)' <=> Exchange(t)
      <3>1. Unanswered(t)' <=> Unanswered(t)
        BY <2>1 DEF Unanswered
      <3>2. \A r : Answered(t, r)' <=> Answered(t, r)
        BY <2>1, <2>3 DEF Answered
      <3>3. Replies(op[t], call[t])' = Replies(op[t], call[t])
        BY <2>1 DEF Replies, SuccessBodies
      <3> QED  BY <2>1, <3>1, <3>2, <3>3 DEF Exchange
    <2>5. InStep'
      BY <2>1, <2>4 DEF InStepInv, InStep
    <2> QED  BY <2>2, <2>5
  <1> QED  BY <1>1, <1>2, InvokeInStep, ServeInStep, DisconnectInStep DEF Next

(* Every path of the three methods consumes exactly one reply while the    *)
(* connection stands, if the server echoes tags.                           *)
THEOREM StreamsDrain == EchoesTags => (Spec => []StreamDrained)
  <1>1. InStepInv => StreamDrained
    BY DEF InStepInv, InStep, StreamDrained
  <1> SUFFICES ASSUME EchoesTags PROVE Spec => []StreamDrained
    OBVIOUS
  <1>2. InStepInv /\ [Next]_vars => InStepInv'
    BY StepInStep
  <1> QED  BY <1>1, <1>2, InitInStep, PTL DEF Spec

(* Then a call returns what the server answered to that very call, and EIO *)
(* in place of it only after the connection was lost.                      *)
THEOREM ImplementsPromise == EchoesTags => (Spec => KeepsPromise)
  <1> SUFFICES ASSUME EchoesTags PROVE Spec => KeepsPromise
    OBVIOUS
  <1>1. InStepInv /\ [Next]_vars => InStepInv' /\ [Promised!Next]_(Promised!vars)
    BY StepInStep DEF Implements
  <1> QED  BY <1>1, InitInStep, PTL DEF Spec, KeepsPromise, Promised!Spec

============================================================================
