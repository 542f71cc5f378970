------------------------------- MODULE Codec -------------------------------
(***************************************************************************)
(* Mile.Cirno.Protocol.Parser: one message at a time crosses the wire.  A  *)
(* request is pushed by the code and taken apart by a server that follows  *)
(* the comments of Mile.Cirno.Protocol.h (Layouts); a reply the other way  *)
(* round.  A byte is what it belongs to and its place in it, so that any   *)
(* field that is missing, too wide, out of order or of another byte order  *)
(* shows; only lengths and counts have a value.                            *)
(***************************************************************************)
EXTENDS Layouts

CONSTANTS Message,    \* the messages of an instance
          MaxLength,  \* bound: bytes of a string
          MaxNames,   \* bound: elements of a list with a count of 16 bits
          MaxCount    \* bound: elements of another list

VARIABLES phase,    \* of the message: "idle", "push", "sent" or "pop"
          message,  \* the message that crosses the wire, or the last one
          layout,   \* what its sender has still to push
          content,  \* the bytes that it pushed
          wire,     \* bytes that the receiver did not receive yet
          buffer,   \* bytes of the content that it received
          at,       \* how many of them it has popped
          todo,     \* what it expects to find behind them
          sent,     \* history: the fields that were pushed, where each begins
                    \* and what was still to push then
          taken     \* history: the fields that were popped

vars == <<phase, message, layout, content, wire, buffer, at, todo, sent, taken>>

(* Elements up to the end of the message.                                  *)
Rest(element) == <<[kind |-> "rest", of |-> element]>>

(* There if it fills the rest of the message exactly.                      *)
IfFits(width, name) == <<[kind |-> "optional", width |-> width, name |-> name]>>

HeaderSize == 4 + 1 + 2
ReadResponseHeaderSize == HeaderSize + 4

(* Fault: a field is forgotten in the sum.                                 *)
WriteRequestHeaderSizeShort == HeaderSize + 4 + 4
WriteRequestHeaderSize == HeaderSize + 4 + 8 + 4

(* Fault: the code of the error is taken for granted.                      *)
PopErrorAlways == S("ename") \o U(4, <<"errno">>)

(* The code is there in 9P2000.u only.                                     *)
PopErrorResponse == S("ename") \o IfFits(4, "errno")

----------------------------------------------------------------------------
(* What the functions Push...Request push and Pop...Response pop, in the   *)
(* order of their calls.                                                   *)
PopAttributes ==
    U(4, <<"mode", "uid", "gid">>)
      \o U(8, <<"nlink", "rdev", "size", "blksize", "blocks", "atime_sec", "atime_nsec",
                "mtime_sec", "mtime_nsec", "ctime_sec", "ctime_nsec",
                "btime_sec", "btime_nsec", "gen", "data_version">>)

PopQid == U(1, <<"qid.type">>) \o U(4, <<"version">>) \o U(8, <<"path">>)

PopDirectoryEntry == PopQid \o U(8, <<"offset">>) \o U(1, <<"type">>) \o S("name")

PopWindowsDirectoryEntry ==
    PopQid \o U(8, <<"offset">>) \o U(1, <<"type">>) \o S("name")
      \o U(4, <<"mode", "uid", "gid">>)
      \o U(8, <<"nlink", "rdev", "size", "blksize", "blocks", "atime_sec", "atime_nsec",
                "mtime_sec", "mtime_nsec", "ctime_sec", "ctime_nsec">>)

Opening ==
  [LinuxErrorResponse        |-> U(4, <<"ecode">>),
   FileSystemStatusRequest   |-> U(4, <<"fid">>),
   FileSystemStatusResponse  |-> U(4, <<"type", "bsize">>)
        \o U(8, <<"blocks", "bfree", "bavail", "files", "ffree", "fsid">>) \o U(4, <<"namelen">>),
   LinuxOpenRequest          |-> U(4, <<"fid", "flags">>),
   LinuxOpenResponse         |-> PopQid \o U(4, <<"iounit">>),
   LinuxCreateRequest        |-> U(4, <<"fid">>) \o S("name") \o U(4, <<"flags", "mode", "gid">>),
   LinuxCreateResponse       |-> PopQid \o U(4, <<"iounit">>),
   MakeSymbolicLinkRequest   |-> U(4, <<"fid">>) \o S("name") \o S("symtgt") \o U(4, <<"gid">>),
   MakeSymbolicLinkResponse  |-> PopQid,
   MakeDeviceNodeRequest     |-> U(4, <<"dfid">>) \o S("name")
        \o U(4, <<"mode", "major", "minor", "gid">>),
   MakeDeviceNodeResponse    |-> PopQid,
   RenameRequest             |-> U(4, <<"fid", "dfid">>) \o S("name"),
   ReadLinkRequest           |-> U(4, <<"fid">>),
   ReadLinkResponse          |-> S("target")]

AttributesAndDirectories ==
  [GetAttributesRequest      |-> U(4, <<"fid">>) \o U(8, <<"request_mask">>),
   GetAttributesResponse     |-> U(8, <<"valid">>) \o PopQid \o PopAttributes,
   SetAttributesRequest      |-> U(4, <<"fid", "valid", "mode", "uid", "gid">>)
        \o U(8, <<"size", "atime_sec", "atime_nsec", "mtime_sec", "mtime_nsec">>),
   WalkExtendedAttributesRequest   |-> U(4, <<"fid", "newfid">>) \o S("name"),
   WalkExtendedAttributesResponse  |-> U(8, <<"size">>),
   CreateExtendedAttributesRequest |-> U(4, <<"fid">>) \o S("name")
        \o U(8, <<"attr_size">>) \o U(4, <<"flags">>),
   ReadDirectoryRequest      |-> U(4, <<"fid">>) \o U(8, <<"offset">>) \o U(4, <<"count">>),
   ReadDirectoryResponse     |-> U(4, <<"count">>) \o Rest(PopDirectoryEntry),
   FlushFileRequest          |-> U(4, <<"fid">>)]

LocksAndNames ==
  [LockRequest               |-> U(4, <<"fid">>) \o U(1, <<"type">>) \o U(4, <<"flags">>)
        \o U(8, <<"start", "length">>) \o U(4, <<"proc_id">>) \o S("client_id"),
   LockResponse              |-> U(1, <<"status">>),
   GetLockRequest            |-> U(4, <<"fid">>) \o U(1, <<"type">>)
        \o U(8, <<"start", "length">>) \o U(4, <<"proc_id">>) \o S("client_id"),
   GetLockResponse           |-> U(1, <<"type">>)
        \o U(8, <<"start", "length">>) \o U(4, <<"proc_id">>) \o S("client_id"),
   LinkRequest               |-> U(4, <<"dfid", "fid">>) \o S("name"),
   MakeDirectoryRequest      |-> U(4, <<"dfid">>) \o S("name") \o U(4, <<"mode", "gid">>),
   MakeDirectoryResponse     |-> PopQid,
   RenameAtRequest           |-> U(4, <<"olddirfid">>) \o S("oldname")
        \o U(4, <<"newdirfid">>) \o S("newname"),
   UnlinkAtRequest           |-> U(4, <<"dirfd">>) \o S("name") \o U(4, <<"flags">>)]

SessionAndWalk ==
  [VersionRequest            |-> U(4, <<"msize">>) \o S("version"),
   VersionResponse           |-> U(4, <<"msize">>) \o S("version"),
   AuthenticationRequest     |-> U(4, <<"afid">>) \o S("uname") \o S("aname") \o U(4, <<"n_uname">>),
   AuthenticationResponse    |-> PopQid,
   AttachRequest             |-> U(4, <<"fid", "afid">>) \o S("uname") \o S("aname")
        \o U(4, <<"n_uname">>),
   AttachResponse            |-> PopQid,
   ErrorResponse             |-> PopErrorResponse,
   UnixErrorResponse         |-> PopErrorResponse,
   FlushRequest              |-> U(2, <<"oldtag">>),
   WalkRequest               |-> U(4, <<"fid", "newfid">>) \o List(2, "nwname", S("wname")),
   WalkResponse              |-> List(2, "nwqid", PopQid),
   OpenRequest               |-> U(4, <<"fid">>) \o U(1, <<"mode">>),
   OpenResponse              |-> PopQid \o U(4, <<"iounit">>),
   CreateRequest             |-> U(4, <<"fid">>) \o S("name")
        \o U(4, <<"perm", "mode">>) \o S("extension"),
   CreateResponse            |-> PopQid \o U(4, <<"iounit">>)]

(* Client::Read receives the count and the data one by one, the data right *)
(* into the buffer of its caller; Client::Write sends them in such a way.  *)
ReadInPlace == [ReadInPlaceResponse |-> List(4, "count", Byte)]

WriteInPlace ==
  [WriteInPlaceRequest       |-> U(4, <<"fid">>) \o U(8, <<"offset">>) \o List(4, "count", Byte)]

Transferring ==
  [ReadRequest               |-> U(4, <<"fid">>) \o U(8, <<"offset">>) \o U(4, <<"count">>),
   ReadResponse              |-> List(4, "count", Byte),
   WriteRequest              |-> U(4, <<"fid">>) \o U(8, <<"offset">>) \o List(4, "count", Byte),
   WriteResponse             |-> U(4, <<"count">>),
   ClunkRequest              |-> U(4, <<"fid">>),
   RemoveRequest             |-> U(4, <<"fid">>),
   ReadStatusRequest         |-> U(4, <<"fid">>)]

Windows ==
  [AccessRequest             |-> U(4, <<"fid", "flags">>),
   WindowsReadDirectoryRequest  |-> U(4, <<"fid">>) \o U(8, <<"offset">>) \o U(4, <<"count">>),
   WindowsReadDirectoryResponse |-> U(4, <<"count">>) \o Rest(PopWindowsDirectoryEntry),
   WindowsOpenRequest        |-> U(4, <<"fid", "newfid", "flags", "wflags", "mode", "gid">>)
        \o U(8, <<"attr_mask">>) \o List(2, "nwname", S("wname")),
   WindowsOpenResponse       |-> U(1, <<"status">>) \o U(2, <<"walked">>) \o PopQid
        \o S("symlink_target") \o U(4, <<"iounit">>) \o PopAttributes]

(* Two tables in one.                                                      *)
f ++ g == [m \in DOMAIN f \cup DOMAIN g |-> IF m \in DOMAIN f THEN f[m] ELSE g[m]]

Coded == Opening ++ AttributesAndDirectories ++ LocksAndNames ++ SessionAndWalk
           ++ ReadInPlace ++ WriteInPlace ++ Transferring ++ Windows

Documented == LinuxMessages ++ BaseMessages ++ WindowsMessages
                ++ [ReadInPlaceResponse |-> BaseMessages.ReadResponse,
                    WriteInPlaceRequest |-> BaseMessages.WriteRequest]

(* Of the messages one is laid out otherwise by the code than by the       *)
(* comments: it pushes the mode of a CreateRequest in four bytes, not one. *)
ASSUME MessageAssumption == Message \subseteq DOMAIN Coded \ {"CreateRequest"}

(* A size that is cast to 16 bits has to fit in them: no path of Windows   *)
(* is longer than 32767 characters, no name in it longer than 255.         *)
ASSUME BoundAssumption ==
    /\ MaxLength \in Nat /\ MaxLength < 65536
    /\ MaxNames \in Nat /\ MaxNames < 65536
    /\ MaxCount \in Nat

Replies == {"LinuxErrorResponse", "FileSystemStatusResponse", "LinuxOpenResponse",
            "LinuxCreateResponse", "MakeSymbolicLinkResponse", "MakeDeviceNodeResponse",
            "ReadLinkResponse", "GetAttributesResponse", "WalkExtendedAttributesResponse",
            "ReadDirectoryResponse", "LockResponse", "GetLockResponse",
            "MakeDirectoryResponse", "VersionResponse", "AuthenticationResponse",
            "AttachResponse", "ErrorResponse", "UnixErrorResponse", "WalkResponse",
            "OpenResponse", "CreateResponse", "ReadResponse", "ReadInPlaceResponse",
            "WriteResponse", "WindowsReadDirectoryResponse", "WindowsOpenResponse"}

----------------------------------------------------------------------------
(* A field on the wire: width bytes, the lowest first.                     *)
Field(name, width, value) ==
    [i \in 1 .. width |-> [of |-> name, width |-> width, at |-> i, value |-> value]]

(* Sizes of strings and of lists of names are cast to 16 bits.             *)
Cast(value, width) == IF width = 2 THEN value % 65536 ELSE value

Text(name, length) == Field("length", 2, Cast(length, 2)) \o Field(name, length, 0)

(* A loop goes on for as long as there are elements left, or bytes.        *)
GoesOn(loop, end) == IF loop.kind = "rest" THEN ~end ELSE loop.left > 0

Less(loop) == IF loop.kind = "rest" THEN loop ELSE Elements(loop.of, loop.left - 1)

(* The head of a loop is passed with the step before it.                   *)
Continue(items, end) ==
    IF items = << >> \/ Head(items).kind \notin {"elements", "rest"}
    THEN items
    ELSE IF GoesOn(Head(items), end)
    THEN Head(items).of \o (<<Less(Head(items))>> \o Tail(items))
    ELSE Tail(items)

(* The count that was read or written is the bound of the loop behind it.  *)
Counted(items, count) == <<Elements(Head(items).of, count)>> \o Tail(items)

Sender(m) == IF m \in Replies THEN Documented[m] ELSE Coded[m]
Receiver(m) == IF m \in Replies THEN Coded[m] ELSE Documented[m]

Init == /\ phase = "idle" /\ message = "none" /\ at = 0
        /\ layout = << >> /\ content = << >> /\ wire = << >>
        /\ buffer = << >> /\ todo = << >> /\ sent = << >> /\ taken = << >>

Begin(m) ==
    /\ phase = "idle"
    /\ phase' = "push" /\ message' = m /\ at' = 0
    /\ layout' = Sender(m) /\ todo' = Receiver(m)
    /\ content' = << >> /\ buffer' = << >> /\ sent' = << >> /\ taken' = << >>
    /\ UNCHANGED wire

Pushes(kind) == phase = "push" /\ layout # << >> /\ Head(layout).kind = kind

Push(bytes, items) ==
    /\ layout' = Continue(items, FALSE)
    /\ content' = content \o bytes
    /\ sent' = Append(sent, [name |-> Head(layout).name, bytes |-> bytes,
                             from |-> Len(content), then |-> Continue(items, FALSE)])
    /\ UNCHANGED <<phase, message, wire, buffer, at, todo, taken>>

PushNumber ==
    /\ Pushes("number")
    /\ Push(Field(Head(layout).name, Head(layout).width, 0), Tail(layout))

PushString ==
    /\ Pushes("string")
    /\ \E length \in 0 .. MaxLength : Push(Text(Head(layout).name, length), Tail(layout))

PushCount ==
    /\ Pushes("count")
    /\ LET width == Head(layout).width
       IN  \E count \in 0 .. IF width = 2 THEN MaxNames ELSE MaxCount :
              Push(Field(Head(layout).name, width, Cast(count, width)),
                   Counted(Tail(layout), count))

(* The count of a message with data.                                       *)
DataCount == sent[IF message \in Replies THEN 1 ELSE 3].bytes[1].value

(* Client::Write adds up the size of its message; all else is measured.    *)
ContentSize ==
    IF message = "WriteInPlaceRequest"
    THEN WriteRequestHeaderSize - HeaderSize + DataCount
    ELSE Len(content)

PushHeader(size) ==
    Field("size", 4, size + HeaderSize) \o Field("type", 1, 0) \o Field("tag", 2, 0)

Send ==
    /\ phase = "push" /\ layout = << >>
    /\ phase' = "sent"
    /\ wire' = PushHeader(ContentSize) \o content
    /\ UNCHANGED <<message, layout, content, buffer, at, todo, sent, taken>>

(* The receiver receives as much as the header says.                       *)
PopHeader ==
    /\ phase = "sent"
    /\ LET end == wire[1].value
       IN  /\ end <= Len(wire)
           /\ buffer' = SubSeq(wire, HeaderSize + 1, end)
           /\ wire' = SubSeq(wire, end + 1, Len(wire))
    /\ phase' = "pop"
    /\ UNCHANGED <<message, layout, content, at, todo, sent, taken>>

Pops(kind) == phase = "pop" /\ todo # << >> /\ Head(todo).kind = kind

Left == Len(buffer) - at

(* Reading past the end of a span is undefined: no step.                   *)
PopBytes(size, items) ==
    /\ size <= Left
    /\ taken' = Append(taken, [name |-> Head(todo).name,
                               bytes |-> SubSeq(buffer, at + 1, at + size)])
    /\ at' = at + size
    /\ todo' = Continue(items, size = Left)
    /\ UNCHANGED <<phase, message, layout, content, wire, buffer, sent>>

PopNumber == Pops("number") /\ PopBytes(Head(todo).width, Tail(todo))

PopString ==
    /\ Pops("string") /\ 2 <= Left
    /\ PopBytes(2 + buffer[at + 1].value, Tail(todo))

PopCount ==
    /\ Pops("count") /\ Head(todo).width <= Left
    /\ PopBytes(Head(todo).width, Counted(Tail(todo), buffer[at + 1].value))

PopOptional ==
    /\ Pops("optional") /\ Left = Head(todo).width
    /\ PopBytes(Head(todo).width, Tail(todo))

SkipOptional ==
    /\ Pops("optional") /\ Left # Head(todo).width
    /\ todo' = Tail(todo)
    /\ UNCHANGED <<phase, message, layout, content, wire, buffer, at, sent, taken>>

Done ==
    /\ phase = "pop" /\ todo = << >>
    /\ phase' = "idle"
    /\ UNCHANGED <<message, layout, content, wire, buffer, at, todo, sent, taken>>

Next == \/ \E m \in Message : Begin(m)
        \/ PushNumber \/ PushString \/ PushCount \/ Send
        \/ PopHeader \/ PopNumber \/ PopString \/ PopCount
        \/ PopOptional \/ SkipOptional \/ Done

Spec == Init /\ [][Next]_vars

----------------------------------------------------------------------------
(* Bytes that the next pop needs.                                          *)
Needed ==
    IF todo = << >> THEN 0
    ELSE IF Head(todo).kind \in {"number", "count"} THEN Head(todo).width
    ELSE IF Head(todo).kind # "string" THEN 0
    ELSE IF Left < 2 THEN 2 ELSE 2 + buffer[at + 1].value

(* Coder and comments agree: field by field the receiver finds what was    *)
(* pushed, under the name it was pushed for, never runs out of bytes, and  *)
(* leaves none, so that the next header is where it looks for it.          *)
Understood ==
    phase = "pop" =>
      /\ Len(taken) <= Len(sent)
      /\ \A i \in 1 .. Len(taken) :
            taken[i].name = sent[i].name /\ taken[i].bytes = sent[i].bytes
      /\ Needed <= Left
      /\ todo = << >> => Len(taken) = Len(sent) /\ Left = 0 /\ wire = << >>

(* The header sizes that the callbacks subtract from the message size are  *)
(* those of the messages that are sent: data apart, nothing is longer.     *)
SizesAgree ==
    phase = "sent" =>
      /\ message \in {"ReadResponse", "ReadInPlaceResponse"} =>
            Len(wire) = ReadResponseHeaderSize + DataCount
      /\ message \in {"WriteRequest", "WriteInPlaceRequest"} =>
            Len(wire) = WriteRequestHeaderSize + DataCount

============================================================================
