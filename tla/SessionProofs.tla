--------------------------- MODULE SessionProofs ---------------------------
(***************************************************************************)
(* How main comes to a mounted volume and what it gives back, for every    *)
(* command line, number of addresses, version, message size and refusal.   *)
(***************************************************************************)
EXTENDS Session, FiniteSetTheorems, TLAPS

(* What the proofs need of the constants.                                  *)
LEMMA Constants ==
    /\ MaxAddresses \in Nat /\ ServerErrors \subseteq Nat \ {0} /\ NOFID \in Nat \ {0}
    /\ DokanErrors \subseteq Int \ {0} /\ MessageSizes \subseteq Nat \ {0}
  BY SessionAssumption, ServerAssumption

USE Constants DEF INVALID_SOCKET

----------------------------------------------------------------------------
(* The invariant: what main holds at each place.                           *)

BeforeConnect == {"main", "WSAStartup", "resolve", "address", "hyperV"}
Connecting == {"WSAConnect", "hyperVConnect"}
WithClient == {"version", "attach", "mount", "mounted"}
Cleaning == {"cleanup", "delete", "WSACleanup", "DokanShutdown"}

Tcp == command.host # "HvSocket"

Places == pc \in BeforeConnect \cup Connecting \cup WithClient \cup Cleaning \cup {"ended", "exited"}

Counted ==
    /\ resolved \in 0 .. MaxAddresses /\ addresses \in 0 .. resolved
    /\ pc = "address" /\ error = 0 => addresses = resolved
    /\ pc = "WSAConnect" => addresses > 0

(* Sockets and clients: 0 is the socket of a client without one.           *)
Sockets ==
    /\ pc \in BeforeConnect => open = {} /\ client = {} /\ connected = FALSE
    /\ pc \in {"hyperV", "hyperVConnect"} => ~Tcp
    /\ pc \in Connecting => open = {1} /\ socket = 1 /\ client = {} /\ connected = FALSE
    /\ pc \in WithClient => \/ client = {0} /\ open = {} /\ connected = FALSE /\ resolved = 0
                            \/ client = {1} /\ open = {1}
    /\ pc \in {"cleanup", "delete"} =>
          \/ client = {0} /\ open = {} /\ connected = FALSE /\ resolved = 0
          \/ client = {1} /\ open = {1}
          \/ client = {} /\ connected = FALSE /\ open \subseteq {1} /\ (Tcp => open = {})
    /\ pc \in {"WSACleanup", "DokanShutdown", "ended"} =>
          client = {} /\ connected = FALSE /\ open \subseteq {1} /\ (Tcp => open = {})
    /\ pc = "exited" => client = {1} /\ open = {1}

Libraries ==
    /\ pc \in (BeforeConnect \ {"main", "WSAStartup"}) \cup Connecting \cup WithClient \cup {"exited"}
          => winsock = TRUE /\ dokan = TRUE
    /\ pc \in {"cleanup", "delete"} /\ open # {} => winsock = TRUE
    /\ pc = "DokanShutdown" => winsock = FALSE
    /\ pc = "main" => winsock = FALSE /\ dokan = FALSE
    /\ pc = "WSAStartup" => winsock = FALSE /\ dokan = TRUE
    /\ pc = "ended" => winsock = FALSE /\ dokan = FALSE

Handshake ==
    /\ pc \in {"attach", "mount", "mounted"} =>
          client = {1} /\ answered # 0 /\ messageSize = answered
    /\ pc \in {"mount", "mounted"} => rootId = 0 /\ (connected = TRUE => 0 \in DOMAIN server.fids)
    /\ pc \in BeforeConnect \cup Connecting \cup WithClient => exit = {}
    /\ pc \in BeforeConnect \cup Connecting \cup WithClient =>
          server = [fids |-> server.fids, tree |-> server.tree]
    /\ rootId \in {0, NOFID}

IInv == Places /\ Counted /\ Sockets /\ Libraries /\ Handshake

USE DEF BeforeConnect, Connecting, WithClient, Cleaning

----------------------------------------------------------------------------

(* The first socket of a program that has none open.                       *)
LEMMA FreshSocket == open = {} => Fresh = 1
<1> SUFFICES ASSUME open = {} PROVE Fresh = 1
  OBVIOUS
<1>1. Cardinality(open) = 0
  BY FS_EmptySet
<1>2. 1 .. (Cardinality(open) + 1) = {1}
  BY <1>1
<1> QED
  BY <1>2 DEF Fresh

(* A successful Attach leaves a server that knows the root's file ID.      *)
LEMMA Attached ==
    ASSUME server = [fids |-> server.fids, tree |-> server.tree],
           NEW r \in Attach(server, 0), r.error = 0
    PROVE  /\ 0 \in DOMAIN r.server.fids
           /\ r.server = [fids |-> r.server.fids, tree |-> r.server.tree]
<1>1. r = Outcome(0, WithFid(server, 0, Root))
  BY DEF Attach, Outcome, Refused, EBADF
<1>2. r.server = WithFid(server, 0, Root)
  BY <1>1 DEF Outcome
<1>3. WithFid(server, 0, Root) =
         [fids |-> [f \in DOMAIN server.fids \cup {0} |-> IF f = 0 THEN Root ELSE server.fids[f]],
          tree |-> server.tree]
  BY DEF WithFid
<1> QED
  BY <1>2, <1>3

LEMMA InitIInv == Init => IInv
  BY DEF Init, IInv, Places, Counted, Sockets, Libraries, Handshake

(* How the places of main's locals and of the network stay as they are.    *)
USE DEF IInv, Places, Counted, Sockets, Libraries, Handshake, Tcp, Goto, Return

LEMMA StartKeeps == IInv /\ (Main \/ WSAStartup) => IInv'
  BY DEF Main, WSAStartup, network, globals, locals

LEMMA ConnectKeeps == IInv /\ Connect => IInv'
<1> SUFFICES ASSUME IInv, Connect PROVE IInv'
  OBVIOUS
<1> USE DEF network, globals, locals, libraries
<1>1. CASE Resolve
  BY <1>1 DEF Resolve
<1>2. CASE NoAddress
  BY <1>2 DEF NoAddress, Connected
<1>3. CASE WSASocket
  <2>1. Fresh = 1
    BY <1>3, FreshSocket DEF WSASocket
  <2> QED
    BY <1>3, <2>1 DEF WSASocket
<1>4. CASE WSAConnect
  BY <1>4 DEF WSAConnect, Connected
<1>5. CASE HyperVSocket
  <2>1. Fresh = 1
    BY <1>5, FreshSocket DEF HyperVSocket
  <2> QED
    BY <1>5, <2>1 DEF HyperVSocket
<1>6. CASE HyperVConnect
  BY <1>6 DEF HyperVConnect, Connected
<1> QED
  BY <1>1, <1>2, <1>3, <1>4, <1>5, <1>6 DEF Connect

LEMMA HandshakeKeeps == IInv /\ (Version \/ SimpleAttach) => IInv'
<1> SUFFICES ASSUME IInv, Version \/ SimpleAttach PROVE IInv'
  OBVIOUS
<1> USE DEF locals, libraries
<1>1. CASE Version
  BY <1>1 DEF Version, Unanswered, Lose
<1>2. CASE SimpleAttach
  <2>1. CASE Unanswered /\ Return(-1) /\ rootId' = NOFID
    BY <1>2, <2>1 DEF SimpleAttach, Unanswered, Lose
  <2>2. CASE \E r \in Attach(server, 0) :
               /\ server' = r.server
               /\ IF r.error = 0 THEN Goto("mount") /\ rootId' = 0
                  ELSE Return(-1) /\ rootId' = NOFID
    <3>1. PICK r \in Attach(server, 0) :
             /\ server' = r.server
             /\ IF r.error = 0 THEN Goto("mount") /\ rootId' = 0
                ELSE Return(-1) /\ rootId' = NOFID
      BY <2>2
    <3>2. CASE r.error = 0
      <4>1. /\ 0 \in DOMAIN server'.fids
            /\ server' = [fids |-> server'.fids, tree |-> server'.tree]
        BY <1>2, <3>1, <3>2, Attached DEF SimpleAttach
      <4> QED
        BY <1>2, <2>2, <3>1, <3>2, <4>1 DEF SimpleAttach
    <3>3. CASE r.error # 0
      BY <1>2, <2>2, <3>1, <3>3 DEF SimpleAttach, Unanswered, Lose
    <3> QED
      BY <3>2, <3>3
  <2> QED
    BY <1>2, <2>1, <2>2 DEF SimpleAttach
<1> QED
  BY <1>1, <1>2

LEMMA MountKeeps == IInv /\ (DokanMain \/ Disconnect) => IInv'
  BY DEF DokanMain, Disconnect, Lose, network, globals, locals, libraries

LEMMA CleanupKeeps == IInv /\ Cleanup => IInv'
<1> SUFFICES ASSUME IInv, Cleanup PROVE IInv'
  OBVIOUS
<1> USE DEF network, globals, locals, libraries
<1>1. CASE ClunkRoot
  BY <1>1 DEF ClunkRoot, Unanswered, Lose
<1>2. CASE DeleteClient
  BY <1>2 DEF DeleteClient, Lose
<1>3. CASE WSACleanup
  BY <1>3 DEF WSACleanup
<1>4. CASE DokanShutdown
  BY <1>4 DEF DokanShutdown
<1> QED
  BY <1>1, <1>2, <1>3, <1>4 DEF Cleanup

LEMMA StutterKeeps == IInv /\ UNCHANGED vars => IInv'
  BY DEF vars, network, globals, locals, libraries

HIDE DEF IInv, Places, Counted, Sockets, Libraries, Handshake, Tcp, Goto, Return

LEMMA Inductive == Spec => []IInv
<1>1. IInv /\ [Next]_vars => IInv'
  BY StutterKeeps, StartKeeps, ConnectKeeps, HandshakeKeeps, MountKeeps, CleanupKeeps DEF Next, Step
<1> QED
  BY <1>1, InitIInv, PTL DEF Spec

----------------------------------------------------------------------------
(* The theorems.                                                           *)

(* main's variables have their types.                                      *)
THEOREM TypeCorrect == Spec => []TypeOK
<1>1. IInv => TypeOK
  <2> SUFFICES ASSUME IInv PROVE TypeOK
    OBVIOUS
  <2> USE DEF IInv, Places, Counted, Sockets
  <2>1. client = {} \/ client = {0} \/ client = {1}
    OBVIOUS
  <2>2. Cardinality(client) <= 1
    <3>1. Cardinality({}) = 0 /\ Cardinality({0}) = 1 /\ Cardinality({1}) = 1
      BY FS_EmptySet, FS_Singleton
    <3> QED
      BY <2>1, <3>1
  <2>3. open \subseteq {1}
    OBVIOUS
  <2> QED
    BY <2>2, <2>3 DEF TypeOK, Handshake
<1> QED
  BY <1>1, Inductive, PTL

(* No callback runs before what it uses is there.                          *)
THEOREM CallbacksFindTheirSession == Spec => []MountedIsReady
<1>1. IInv => MountedIsReady
  BY DEF MountedIsReady, Known, IInv, Sockets, Libraries, Handshake
<1> QED
  BY <1>1, Inductive, PTL

(* Whatever fails, a TCP session leaves no socket without an owner.        *)
THEOREM NoSocketLeaks == Spec => []SocketsOwned
<1>1. IInv => SocketsOwned
  <2> SUFFICES ASSUME IInv, Tcp
               PROVE  SocketsOwned
    BY DEF SocketsOwned, Tcp
  <2> USE DEF IInv, Places, Sockets
  <2>1. open \subseteq client \cup (IF pc = "WSAConnect" THEN {socket} ELSE {})
    OBVIOUS
  <2>2. open # {} => winsock
    BY DEF Libraries
  <2>3. pc = "ended" => open = {} /\ winsock = FALSE /\ dokan = FALSE
    BY DEF Libraries
  <2>4. 0 \in client => resolved = 0
    OBVIOUS
  <2> QED
    BY <2>1, <2>2, <2>3, <2>4 DEF SocketsOwned
<1> QED
  BY <1>1, Inductive, PTL

=============================================================================
