------------------------------ MODULE Layouts ------------------------------
(***************************************************************************)
(* The messages of 9P2000, 9P2000.L and 9P2000.W as the comments of        *)
(* Mile.Cirno.Protocol.h lay them out.  A layout is a sequence of items: a *)
(* number of so many bytes, a string, or the count of a list followed by   *)
(* its elements.                                                           *)
(***************************************************************************)
EXTENDS Integers, Sequences

(* Consecutive numbers of the same width.                                  *)
U(width, names) ==
    [i \in DOMAIN names |-> [kind |-> "number", width |-> width, name |-> names[i]]]

S(name) == <<[kind |-> "string", name |-> name]>>

(* As many elements as are left; how many says the count before them.      *)
Elements(element, left) == [kind |-> "elements", of |-> element, left |-> left]

(* A counted list; the count takes width bytes.                            *)
List(width, name, element) ==
    <<[kind |-> "count", width |-> width, name |-> name], Elements(element, 0)>>

Qid == U(1, <<"qid.type">>) \o U(4, <<"version">>) \o U(8, <<"path">>)
DirectoryEntry == Qid \o U(8, <<"offset">>) \o U(1, <<"type">>) \o S("name")

WindowsDirectoryEntry ==
    DirectoryEntry \o U(4, <<"mode", "uid", "gid">>)
      \o U(8, <<"nlink", "rdev", "size", "blksize", "blocks", "atime_sec", "atime_nsec",
                "mtime_sec", "mtime_nsec", "ctime_sec", "ctime_nsec">>)

Attributes ==
    U(4, <<"mode", "uid", "gid">>)
      \o U(8, <<"nlink", "rdev", "size", "blksize", "blocks", "atime_sec", "atime_nsec",
                "mtime_sec", "mtime_nsec", "ctime_sec", "ctime_nsec",
                "btime_sec", "btime_nsec", "gen", "data_version">>)

(* One byte of a data[count].                                              *)
Byte == U(1, <<"data">>)

LinuxMessages ==
  [LinuxErrorResponse        |-> U(4, <<"ecode">>),
   FileSystemStatusRequest   |-> U(4, <<"fid">>),
   FileSystemStatusResponse  |-> U(4, <<"type", "bsize">>)
        \o U(8, <<"blocks", "bfree", "bavail", "files", "ffree", "fsid">>) \o U(4, <<"namelen">>),
   LinuxOpenRequest          |-> U(4, <<"fid", "flags">>),
   LinuxOpenResponse         |-> Qid \o U(4, <<"iounit">>),
   LinuxCreateRequest        |-> U(4, <<"fid">>) \o S("name") \o U(4, <<"flags", "mode", "gid">>),
   LinuxCreateResponse       |-> Qid \o U(4, <<"iounit">>),
   MakeSymbolicLinkRequest   |-> U(4, <<"fid">>) \o S("name") \o S("symtgt") \o U(4, <<"gid">>),
   MakeSymbolicLinkResponse  |-> Qid,
   MakeDeviceNodeRequest     |-> U(4, <<"dfid">>) \o S("name")
        \o U(4, <<"mode", "major", "minor", "gid">>),
   MakeDeviceNodeResponse    |-> Qid,
   RenameRequest             |-> U(4, <<"fid", "dfid">>) \o S("name"),
   ReadLinkRequest           |-> U(4, <<"fid">>),
   ReadLinkResponse          |-> S("target"),
   GetAttributesRequest      |-> U(4, <<"fid">>) \o U(8, <<"request_mask">>),
   GetAttributesResponse     |-> U(8, <<"valid">>) \o Qid \o Attributes,
   SetAttributesRequest      |-> U(4, <<"fid", "valid", "mode", "uid", "gid">>)
        \o U(8, <<"size", "atime_sec", "atime_nsec", "mtime_sec", "mtime_nsec">>),
   WalkExtendedAttributesRequest   |-> U(4, <<"fid", "newfid">>) \o S("name"),
   WalkExtendedAttributesResponse  |-> U(8, <<"size">>),
   CreateExtendedAttributesRequest |-> U(4, <<"fid">>) \o S("name")
        \o U(8, <<"attr_size">>) \o U(4, <<"flags">>),
   ReadDirectoryRequest      |-> U(4, <<"fid">>) \o U(8, <<"offset">>) \o U(4, <<"count">>),
   ReadDirectoryResponse     |-> List(4, "count", DirectoryEntry),
   FlushFileRequest          |-> U(4, <<"fid">>),
   LockRequest               |-> U(4, <<"fid">>) \o U(1, <<"type">>) \o U(4, <<"flags">>)
        \o U(8, <<"start", "length">>) \o U(4, <<"proc_id">>) \o S("client_id"),
   LockResponse              |-> U(1, <<"status">>),
   GetLockRequest            |-> U(4, <<"fid">>) \o U(1, <<"type">>)
        \o U(8, <<"start", "length">>) \o U(4, <<"proc_id">>) \o S("client_id"),
   GetLockResponse           |-> U(1, <<"type">>)
        \o U(8, <<"start", "length">>) \o U(4, <<"proc_id">>) \o S("client_id"),
   LinkRequest               |-> U(4, <<"dfid", "fid">>) \o S("name"),
   MakeDirectoryRequest      |-> U(4, <<"dfid">>) \o S("name") \o U(4, <<"mode", "gid">>),
   MakeDirectoryResponse     |-> Qid,
   RenameAtRequest           |-> U(4, <<"olddirfid">>) \o S("oldname")
        \o U(4, <<"newdirfid">>) \o S("newname"),
   UnlinkAtRequest           |-> U(4, <<"dirfd">>) \o S("name") \o U(4, <<"flags">>)]

BaseMessages ==
  [VersionRequest            |-> U(4, <<"msize">>) \o S("version"),
   VersionResponse           |-> U(4, <<"msize">>) \o S("version"),
   AuthenticationRequest     |-> U(4, <<"afid">>) \o S("uname") \o S("aname") \o U(4, <<"n_uname">>),
   AuthenticationResponse    |-> Qid,
   AttachRequest             |-> U(4, <<"fid", "afid">>) \o S("uname") \o S("aname")
        \o U(4, <<"n_uname">>),
   AttachResponse            |-> Qid,
   ErrorResponse             |-> S("ename"),                       \* 9P2000
   UnixErrorResponse         |-> S("ename") \o U(4, <<"errno">>),  \* 9P2000.u
   FlushRequest              |-> U(2, <<"oldtag">>),
   WalkRequest               |-> U(4, <<"fid", "newfid">>) \o List(2, "nwname", S("wname")),
   WalkResponse              |-> List(2, "nwqid", Qid),
   OpenRequest               |-> U(4, <<"fid">>) \o U(1, <<"mode">>),
   OpenResponse              |-> Qid \o U(4, <<"iounit">>),
   CreateRequest             |-> U(4, <<"fid">>) \o S("name") \o U(4, <<"perm">>)
        \o U(1, <<"mode">>) \o S("extension"),                     \* 9P2000.u
   CreateResponse            |-> Qid \o U(4, <<"iounit">>),
   ReadRequest               |-> U(4, <<"fid">>) \o U(8, <<"offset">>) \o U(4, <<"count">>),
   ReadResponse              |-> List(4, "count", Byte),
   WriteRequest              |-> U(4, <<"fid">>) \o U(8, <<"offset">>) \o List(4, "count", Byte),
   WriteResponse             |-> U(4, <<"count">>),
   ClunkRequest              |-> U(4, <<"fid">>),
   RemoveRequest             |-> U(4, <<"fid">>),
   ReadStatusRequest         |-> U(4, <<"fid">>)]

WindowsMessages ==
  [AccessRequest             |-> U(4, <<"fid", "flags">>),
   WindowsReadDirectoryRequest  |-> U(4, <<"fid">>) \o U(8, <<"offset">>) \o U(4, <<"count">>),
   WindowsReadDirectoryResponse |-> List(4, "count", WindowsDirectoryEntry),
   WindowsOpenRequest        |-> U(4, <<"fid", "newfid", "flags", "wflags", "mode", "gid">>)
        \o U(8, <<"attr_mask">>) \o List(2, "nwname", S("wname")),
   WindowsOpenResponse       |-> U(1, <<"status">>) \o U(2, <<"walked">>) \o Qid
        \o S("symlink_target") \o U(4, <<"iounit">>) \o Attributes]

============================================================================
