------------------------------ MODULE Session ------------------------------
(***************************************************************************)
(* main of Mile.Cirno.cpp and the two connects of Mile.Cirno.Core.cpp: how *)
(* the program comes to a mounted volume, and what it gives back at its    *)
(* end.  One thread runs it; the other party is the network, which may     *)
(* refuse anything and lose the connection at any time.  A request with    *)
(* its answer is one step (see RequestResponse for the exchange itself).   *)
(***************************************************************************)
EXTENDS Server

CONSTANTS CommandLines,     \* what the program is started with
          MaxAddresses,     \* bound: addresses a host name resolves to
          Versions,         \* protocol versions that the server answers with
          MessageSizes,     \* message sizes that it answers with
          DokanErrors       \* codes other than DOKAN_SUCCESS

DefaultProtocolVersion == "9P2000.L"
DefaultMaximumMessageSize == 1048576
INVALID_SOCKET == 0

ASSUME SessionAssumption ==
    /\ MaxAddresses \in Nat
    /\ DokanErrors \subseteq Int \ {0} /\ MessageSizes \subseteq Nat \ {0}

VARIABLES pc,           \* where main is
          command,      \* host, and whether help is all that was asked for
          winsock, dokan,       \* between startup and cleanup
          resolved, addresses,  \* what the host name led to, and what is left of it
          error, socket,        \* locals of the connects
          open,         \* sockets that are open
          client,       \* g_Instance: its socket, in a set that is empty for nullptr
          connected,    \* the connection behind it
          server,       \* see Server
          answered,     \* ghost: the message size the server last agreed to
          rootId, messageSize,  \* g_RootDirectoryFileId, g_MaximumMessageSize
          exit          \* what the process ended with

network == <<open, connected, server, answered>>
globals == <<client, rootId, messageSize>>
locals == <<command, resolved, addresses, error, socket>>
libraries == <<winsock, dokan>>
vars == <<pc, network, globals, locals, libraries, exit>>

----------------------------------------------------------------------------
(* The command line, the program's name included.  Words are compared      *)
(* without regard to case, so a word stands for all its spellings.         *)

Help == [help |-> TRUE, host |-> ""]
MountHost(host) == [help |-> FALSE, host |-> host]

(* What is not understood is answered with the help.                       *)
Parsed(arguments) ==
    LET n == Len(arguments)
        Mounts(transport, size) ==
            n = size /\ arguments[2] = "Mount" /\ arguments[3] = transport
    IN  CASE n <= 1 -> MountHost("HvSocket")
          [] Mounts("TCP", 7) -> MountHost(arguments[4])
          [] Mounts("HvSocket", 6) -> MountHost("HvSocket")
          [] OTHER -> Help

Init ==
    /\ pc = "main"
    /\ \E arguments \in CommandLines : command = Parsed(arguments)
    /\ winsock = FALSE /\ dokan = FALSE
    /\ resolved = 0 /\ addresses = 0 /\ error = 0 /\ socket = INVALID_SOCKET
    /\ open = {} /\ client = {} /\ connected = FALSE
    /\ server = [fids |-> << >>, tree |-> <<RootObject>>]
    /\ answered = 0
    /\ rootId = NOFID /\ messageSize = DefaultMaximumMessageSize
    /\ exit = {}

Goto(next) == pc' = next /\ UNCHANGED exit

(* From the moment that DokanInit has been called, main ends through its   *)
(* cleanup handler.                                                        *)
Return(code) == pc' = "cleanup" /\ exit' = {code}

Main ==
    /\ pc = "main"
    /\ IF command.help
       THEN pc' = "ended" /\ exit' = {0} /\ UNCHANGED dokan
       ELSE Goto("WSAStartup") /\ dokan' = TRUE
    /\ UNCHANGED <<network, globals, locals, winsock>>

WSAStartup ==
    /\ pc = "WSAStartup"
    /\ \/ Return(-1) /\ UNCHANGED winsock
       \/ /\ winsock' = TRUE
          /\ Goto(IF command.host = "HvSocket" THEN "hyperV" ELSE "resolve")
    /\ UNCHANGED <<network, globals, locals, dokan>>

----------------------------------------------------------------------------
(* ConnectWithTcpSocket.                                                   *)

Fresh == CHOOSE s \in 1 .. (Cardinality(open) + 1) : s \notin open

Connected(s) ==
    /\ client' = {s} /\ connected' = (s # INVALID_SOCKET)
    /\ Goto("version")
    /\ UNCHANGED <<open, server, answered, rootId, messageSize>>

(* The name is unknown, which throws, or leads to any number of addresses. *)
Resolve ==
    /\ pc = "resolve"
    /\ \/ Return(-1) /\ UNCHANGED <<resolved, addresses, error>>
       \/ /\ resolved' \in 0 .. MaxAddresses /\ addresses' = resolved'
          /\ error' = 0 /\ Goto("address")
    /\ UNCHANGED <<network, globals, libraries, command, socket>>

(* No address is left: that throws, but not if there never was one.        *)
NoAddress ==
    /\ pc = "address" /\ addresses = 0
    /\ IF error # 0 THEN Return(-1) /\ UNCHANGED <<network, globals>>
       ELSE Connected(INVALID_SOCKET)
    /\ UNCHANGED <<locals, libraries>>

WSASocket ==
    /\ pc = "address" /\ addresses > 0
    /\ \/ /\ error' = 1 /\ addresses' = addresses - 1 /\ Goto(pc)
          /\ UNCHANGED <<open, socket>>
       \/ /\ socket' = Fresh /\ open' = open \cup {Fresh} /\ Goto("WSAConnect")
          /\ UNCHANGED <<error, addresses>>
    /\ UNCHANGED <<connected, server, answered, globals, libraries, command, resolved>>

(* Fault: the loop goes on with the same address.                          *)
WSAConnectStays ==
    /\ pc = "WSAConnect"
    /\ \/ Connected(socket) /\ UNCHANGED <<addresses, error, socket>>
       \/ /\ error' = 1 /\ open' = open \ {socket}
          /\ socket' = INVALID_SOCKET /\ Goto("address")
          /\ UNCHANGED <<connected, server, answered, globals, addresses>>
    /\ UNCHANGED <<libraries, command, resolved>>

(* Fault: a connected socket is closed like one that is not.               *)
WSAConnectCloses ==
    /\ pc = "WSAConnect"
    /\ \/ /\ client' = {socket} /\ connected' = TRUE /\ open' = open \ {socket}
          /\ Goto("version")
          /\ UNCHANGED <<server, answered, rootId, messageSize, addresses, error, socket>>
       \/ /\ error' = 1 /\ addresses' = addresses - 1 /\ open' = open \ {socket}
          /\ socket' = INVALID_SOCKET /\ Goto("address")
          /\ UNCHANGED <<connected, server, answered, globals>>
    /\ UNCHANGED <<libraries, command, resolved>>

(* Fault: a socket that cannot be connected stays open.                    *)
WSAConnectLeaks ==
    /\ pc = "WSAConnect"
    /\ \/ Connected(socket) /\ UNCHANGED <<addresses, error, socket>>
       \/ /\ error' = 1 /\ addresses' = addresses - 1
          /\ socket' = INVALID_SOCKET /\ Goto("address")
          /\ UNCHANGED <<network, globals>>
    /\ UNCHANGED <<libraries, command, resolved>>

WSAConnect ==
    /\ pc = "WSAConnect"
    /\ \/ Connected(socket) /\ UNCHANGED <<addresses, error, socket>>
       \/ /\ error' = 1 /\ addresses' = addresses - 1 /\ open' = open \ {socket}
          /\ socket' = INVALID_SOCKET /\ Goto("address")
          /\ UNCHANGED <<connected, server, answered, globals>>
    /\ UNCHANGED <<libraries, command, resolved>>

(* ConnectWithHyperVSocket.  It throws without closing its socket.         *)
HyperVSocket ==
    /\ pc = "hyperV"
    /\ \/ Return(-1) /\ UNCHANGED <<network, globals, socket>>
       \/ /\ socket' = Fresh /\ open' = open \cup {Fresh} /\ Goto("hyperVConnect")
          /\ UNCHANGED <<connected, server, answered, globals>>
    /\ UNCHANGED <<libraries, command, resolved, addresses, error>>

HyperVConnect ==
    /\ pc = "hyperVConnect"
    /\ \/ Connected(socket)
       \/ Return(-1) /\ UNCHANGED <<network, globals>>
    /\ UNCHANGED <<locals, libraries>>

----------------------------------------------------------------------------
(* The handshake.  Without a connection every request fails.               *)

Lose == connected' = FALSE /\ server' = [server EXCEPT !.fids = << >>]

(* The request fails: it cannot be sent, or the connection is lost, before *)
(* or after the server has carried it out.                                 *)
Unanswered ==
    \/ UNCHANGED <<connected, server>> /\ ~connected
    \/ Lose /\ connected

(* Fault: a version that is not supported is reported, and no more.        *)
VersionUnchecked ==
    /\ pc = "version"
    /\ \/ Unanswered /\ Return(-1) /\ UNCHANGED <<messageSize, answered>>
       \/ /\ connected /\ UNCHANGED <<connected, server>>
          /\ \E version \in Versions, size \in MessageSizes :
                /\ answered' = IF version = DefaultProtocolVersion THEN size ELSE 0
                /\ Goto("attach") /\ messageSize' = size
    /\ UNCHANGED <<open, client, rootId, locals, libraries>>

(* The message size is taken as it comes.                                  *)
Version ==
    /\ pc = "version"
    /\ \/ Unanswered /\ Return(-1) /\ UNCHANGED <<messageSize, answered>>
       \/ /\ connected /\ UNCHANGED <<connected, server>>
          /\ \/ Return(-1) /\ UNCHANGED <<messageSize, answered>>
             \/ \E version \in Versions, size \in MessageSizes :
                   /\ answered' = IF version = DefaultProtocolVersion THEN size ELSE 0
                   /\ IF version = DefaultProtocolVersion
                      THEN Goto("attach") /\ messageSize' = size
                      ELSE Return(-1) /\ UNCHANGED messageSize
    /\ UNCHANGED <<open, client, rootId, locals, libraries>>

(* SimpleAttach allocates the first file ID, 0, and gives it back if the   *)
(* request fails.                                                          *)
SimpleAttach ==
    /\ pc = "attach"
    /\ \/ Unanswered /\ Return(-1) /\ rootId' = NOFID
       \/ /\ connected /\ UNCHANGED connected
          /\ \E r \in Attach(server, 0) :
                /\ server' = r.server
                /\ IF r.error = 0 THEN Goto("mount") /\ rootId' = 0
                   ELSE Return(-1) /\ rootId' = NOFID
    /\ UNCHANGED <<open, answered, client, messageSize, locals, libraries>>

(* DokanMain returns when it cannot mount, or after the volume has been    *)
(* unmounted.  Other results than success end the process on the spot.     *)
DokanMain ==
    /\ \/ pc = "mount" /\ Goto("mounted")
       \/ pc = "mounted" /\ Return(0)
       \/ /\ pc \in {"mount", "mounted"} /\ pc' = "exited"
          /\ \E code \in DokanErrors : exit' = {code}
    /\ UNCHANGED <<network, globals, locals, libraries>>

(* The connection is lost, while the program waits or serves.              *)
Disconnect ==
    /\ connected /\ Lose
    /\ UNCHANGED <<pc, open, answered, globals, locals, libraries, exit>>

----------------------------------------------------------------------------
(* The cleanup handler.                                                    *)

(* The root is clunked if it has no file ID, which no server knows.        *)
ClunkRoot ==
    /\ pc = "cleanup"
    /\ \/ /\ client # {} /\ rootId = NOFID
          /\ \/ Unanswered
             \/ connected /\ \E r \in Clunk(server, rootId) : server' = r.server /\ UNCHANGED connected
       \/ (client = {} \/ rootId # NOFID) /\ UNCHANGED <<connected, server>>
    /\ Goto("delete")
    /\ UNCHANGED <<open, answered, globals, locals, libraries>>

(* ~Client closes its socket if it has one.                                *)
DeleteClient ==
    /\ pc = "delete" /\ Goto("WSACleanup")
    /\ open' = open \ client
    /\ IF client = {} \/ client = {INVALID_SOCKET} THEN UNCHANGED <<connected, server>> ELSE Lose
    /\ client' = {}
    /\ UNCHANGED <<answered, rootId, messageSize, locals, libraries>>

WSACleanup ==
    /\ pc = "WSACleanup" /\ winsock' = FALSE /\ Goto("DokanShutdown")
    /\ UNCHANGED <<network, globals, locals, dokan>>

DokanShutdown ==
    /\ pc = "DokanShutdown" /\ dokan' = FALSE /\ Goto("ended")
    /\ UNCHANGED <<network, globals, locals, winsock>>

Connect == Resolve \/ NoAddress \/ WSASocket \/ WSAConnect \/ HyperVSocket \/ HyperVConnect
Cleanup == ClunkRoot \/ DeleteClient \/ WSACleanup \/ DokanShutdown

Step == Main \/ WSAStartup \/ Connect \/ Version \/ SimpleAttach \/ DokanMain \/ Cleanup

Next == Step \/ Disconnect

Spec == Init /\ [][Next]_vars

(* main runs; a request is answered or its connection is lost, which holds *)
(* of a server that goes on answering: no receive has a timeout.  Whether  *)
(* a volume is ever unmounted is not up to the program.                    *)
FairSpec == Spec /\ WF_vars(pc # "mounted" /\ Step)

----------------------------------------------------------------------------

TypeOK ==
    /\ pc \in {"main", "WSAStartup", "resolve", "address", "WSAConnect", "hyperV",
              "hyperVConnect", "version", "attach", "mount", "mounted", "cleanup", "delete",
              "WSACleanup", "DokanShutdown", "ended", "exited"}
    /\ addresses \in 0 .. resolved /\ resolved \in 0 .. MaxAddresses
    /\ open \subseteq 1 .. (MaxAddresses + 1) /\ Cardinality(client) <= 1
    /\ rootId \in {0, NOFID}
    /\ connected => client \subseteq open

(* A volume is mounted, and its callbacks run, only after everything they  *)
(* use is there: a connected client, the message size that the server      *)
(* agreed to for this version of the protocol, and a root that the server  *)
(* knows as long as the connection lasts.                                  *)
MountedIsReady ==
    pc \in {"mount", "mounted"} =>
        /\ winsock /\ dokan /\ exit = {}
        /\ client # {} /\ client \subseteq open
        /\ answered # 0 /\ messageSize = answered
        /\ rootId # NOFID /\ (connected => Known(server, rootId))

(* Whatever fails on the way, no socket of a TCP session is left without   *)
(* an owner that will close it, none outlives Winsock, and main returns    *)
(* with everything released.  A client without a socket is made only when  *)
(* the name led to no address at all.                                      *)
SocketsOwned ==
    command.host # "HvSocket" =>
        /\ open \subseteq client \cup (IF pc = "WSAConnect" THEN {socket} ELSE {})
        /\ open # {} => winsock
        /\ pc = "ended" => open = {} /\ winsock = FALSE /\ dokan = FALSE
        /\ INVALID_SOCKET \in client => resolved = 0

(* main gets as far as a mounted volume or to its end, and from the        *)
(* unmounting to its end, also when the connection is lost on the way.     *)
MainEnds == pc # "mounted" ~> pc \in {"mounted", "ended", "exited"}

=============================================================================
