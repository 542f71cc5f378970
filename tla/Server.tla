------------------------------- MODULE Server -------------------------------
(***************************************************************************)
(* The 9P2000.L server, which is not part of the repository: what each     *)
(* request of the client may do to it and answer.  A server is a record of *)
(* its fid table and its tree; an operator returns the set of its possible *)
(* outcomes, each an error code (0 is success) and the server after it.    *)
(* The rules are those of the 9P manual that Mile.Cirno.Protocol.h refers  *)
(* to: a walk that reaches only some of its names succeeds and leaves the  *)
(* new fid unused; clunk and remove give up the fid even when they fail.   *)
(***************************************************************************)
EXTENDS NtStatus, Integers, Sequences, FiniteSets, Functions

CONSTANTS NOFID,
          FileName,       \* names of files and directories
          PartialWalk,    \* a walk may stop half way, as the manual says
          ServerErrors,   \* codes with which any request may be refused
          MaxObjects      \* bound: objects the tree ever holds

ASSUME ServerAssumption ==
    /\ NOFID \in Nat \ {0} /\ PartialWalk \in BOOLEAN
    /\ ServerErrors \subseteq Nat \ {0} /\ MaxObjects \in Nat

Root == 0

(* The root has no name.                                                   *)
EntryName == FileName \cup {""}

(* Object o of a tree: tree[o + 1].  Unlinked objects keep their place.    *)
ObjectType == [kind : {"directory", "file"}, parent : Nat, name : EntryName, linked : BOOLEAN,
               empty : BOOLEAN, writable : BOOLEAN]

RootObject == [kind |-> "directory", parent |-> Root, name |-> "", linked |-> TRUE,
               empty |-> TRUE, writable |-> TRUE]

Object(kind, parent, name) ==
    [kind |-> kind, parent |-> parent, name |-> name, linked |-> TRUE,
     empty |-> TRUE, writable |-> TRUE]

Objects(s) == 0 .. (Len(s.tree) - 1)
At(s, o) == s.tree[o + 1]

(* A server's fid table and tree have the types that a server's have.      *)
ServerTyped(s) ==
    /\ s = [fids |-> s.fids, tree |-> s.tree]
    /\ s.tree \in Seq(ObjectType) /\ s.tree # << >>
    /\ DOMAIN s.fids \subseteq 0 .. (NOFID - 1)
    /\ s.fids \in [DOMAIN s.fids -> Objects(s)]

Children(s, dir) ==
    {o \in Objects(s) \ {Root} : At(s, o).linked /\ At(s, o).parent = dir}
Lookup(s, dir, name) == {o \in Children(s, dir) : At(s, o).name = name}

(* Ancestors-or-self of an object: a directory never moves below itself.   *)
Above(s, o) ==
    LET up[n \in 0 .. Len(s.tree)] ==
          IF n = 0 THEN {o} ELSE up[n - 1] \cup {At(s, p).parent : p \in up[n - 1]}
    IN  up[Len(s.tree)]

----------------------------------------------------------------------------

Outcome(error, s) == [error |-> error, server |-> s]
Refused(s) == {Outcome(e, s) : e \in ServerErrors}

WithFid(s, fid, o) ==
    [s EXCEPT !.fids = [f \in DOMAIN s.fids \cup {fid} |-> IF f = fid THEN o ELSE s.fids[f]]]
WithoutFid(s, fid) == [s EXCEPT !.fids = Restrict(s.fids, DOMAIN s.fids \ {fid})]
Known(s, fid) == fid \in DOMAIN s.fids
Live(s, fid) == Known(s, fid) /\ At(s, s.fids[fid]).linked
Free(s, fid) == fid # NOFID /\ ~Known(s, fid)

(* A request about a fid that is unknown, or whose object is gone.         *)
OnFid(s, fid, outcomes) ==
    IF ~Known(s, fid) THEN {Outcome(EBADF, s)}
    ELSE IF ~Live(s, fid) THEN {Outcome(ENOENT, s)}
    ELSE Refused(s) \cup outcomes

Attach(s, fid) ==
    IF Free(s, fid) THEN {Outcome(0, WithFid(s, fid, Root))} \cup Refused(s)
    ELSE {Outcome(EBADF, s)}

(* Where a list of names leads to, one object after the other.             *)
Reached(s, from, names) ==
    LET Leads(route) ==
          /\ route[0] = from
          /\ \A n \in 1 .. Len(names) : route[n] \in Lookup(s, route[n - 1], names[n])
    IN  {route[Len(names)] : route \in {r \in [0 .. Len(names) -> Objects(s)] : Leads(r)}}

Walk(s, fid, newFid, names) ==
    LET reached == Reached(s, s.fids[fid], names)
    IN  OnFid(s, fid,
          IF ~Free(s, newFid) THEN {Outcome(EBADF, s)}
          ELSE IF reached # {} THEN {Outcome(0, WithFid(s, newFid, o)) : o \in reached}
          ELSE IF Lookup(s, s.fids[fid], names[1]) # {} /\ PartialWalk THEN {Outcome(0, s)}
          ELSE {Outcome(ENOENT, s)})

Clunk(s, fid) ==
    IF Known(s, fid)
    THEN {Outcome(e, WithoutFid(s, fid)) : e \in {0} \cup ServerErrors}
    ELSE {Outcome(EBADF, s)}

Remove(s, fid) ==
    LET o == s.fids[fid]
        t == WithoutFid(s, fid)
    IN  IF ~Known(s, fid) THEN {Outcome(EBADF, s)}
        ELSE Refused(t) \cup
             (IF ~At(s, o).linked THEN {Outcome(ENOENT, t)}
              ELSE IF o = Root \/ Children(s, o) # {} THEN {Outcome(ENOTEMPTY, t)}
              ELSE {Outcome(0, [t EXCEPT !.tree[o + 1].linked = FALSE])})

GetAttributes(s, fid) == OnFid(s, fid, {Outcome(0, s)})

(* Opening truncates when asked to, which needs a file one may write.  The *)
(* file's permissions or its file system may forbid that.                  *)
Opened(s, fid, o, write, truncate) ==
    IF At(s, o).kind = "directory" THEN {Outcome(0, WithFid(s, fid, o))}
    ELSE IF (write \/ truncate) /\ ~At(s, o).writable
    THEN {Outcome(EACCES, s), Outcome(EROFS, s)}
    ELSE {Outcome(0, IF truncate
                     THEN [WithFid(s, fid, o) EXCEPT !.tree[o + 1].empty = TRUE]
                     ELSE WithFid(s, fid, o))}

LinuxOpen(s, fid, write, truncate) ==
    OnFid(s, fid, Opened(s, fid, s.fids[fid], write, truncate))

Added(s, object) == [s EXCEPT !.tree = Append(s.tree, object)]

(* Nothing is created without a name, which is what the root's path ends   *)
(* in.                                                                     *)
Nameless(s, name, outcomes) == IF name = "" THEN {Outcome(ENOENT, s)} ELSE outcomes

(* Without the exclusive flag an existing file is opened.  The fid of the  *)
(* directory becomes that of the file.                                     *)
LinuxCreate(s, fid, name, write) ==
    LET dir == s.fids[fid]
        found == Lookup(s, dir, name)
    IN  OnFid(s, fid, Nameless(s, name,
          IF found # {}
          THEN UNION {IF At(s, o).kind = "directory" THEN {Outcome(EISDIR, s)}
                      ELSE Opened(s, fid, o, write, FALSE) : o \in found}
          ELSE IF Len(s.tree) > MaxObjects THEN {Outcome(ENOSPC, s)}
          ELSE {Outcome(0, WithFid(Added(s, Object("file", dir, name)),
                                   fid, Len(s.tree)))}))

MakeDirectory(s, fid, name) ==
    LET dir == s.fids[fid]
    IN  OnFid(s, fid, Nameless(s, name,
          IF Lookup(s, dir, name) # {} THEN {Outcome(EEXIST, s)}
          ELSE IF Len(s.tree) > MaxObjects THEN {Outcome(ENOSPC, s)}
          ELSE {Outcome(0, Added(s, Object("directory", dir, name)))}))

(* The target, if there is one, is replaced: a file by a file, an empty    *)
(* directory by a directory.                                               *)
RenameAt(s, oldFid, oldName, newFid, newName) ==
    LET newDir == s.fids[newFid]
        target == Lookup(s, newDir, newName)
        Moved(o) ==
          IF o \in Above(s, newDir) THEN Outcome(EACCES, s)
          ELSE IF \E g \in target \ {o} : \/ At(s, g).kind # At(s, o).kind
                                          \/ Children(s, g) # {}
          THEN Outcome(ENOTEMPTY, s)
          ELSE Outcome(0, [s EXCEPT !.tree =
                 [i \in DOMAIN s.tree |->
                    IF i = o + 1 THEN [s.tree[i] EXCEPT !.parent = newDir, !.name = newName]
                    ELSE IF i - 1 \in target THEN [s.tree[i] EXCEPT !.linked = FALSE]
                    ELSE s.tree[i]]])
        moving == Lookup(s, s.fids[oldFid], oldName)
    IN  OnFid(s, oldFid, OnFid(s, newFid, Nameless(s, newName,
          IF moving = {} THEN {Outcome(ENOENT, s)} ELSE {Moved(o) : o \in moving})))

(* A directory is read in pieces: the two dot entries and then the         *)
(* children, each entry with the offset after which the next request goes  *)
(* on.  A reply holds as many of them as the server likes, and none only   *)
(* when there is none.                                                     *)
Dots == {1, 2}
Offset(o) == o + 2

Entries(s, fid, after) ==
    {n \in Dots \cup {Offset(o) : o \in Children(s, s.fids[fid])} : n > after}

Listed(s, fid, after, last) ==
    {o \in Children(s, s.fids[fid]) : Offset(o) \in after + 1 .. last}

(* last is the offset of the last entry of the reply, 0 if it is empty.    *)
ReadDirectory(s, fid, after) ==
    OnFid(s, fid,
          {[error |-> 0, server |-> s, last |-> n] :
              n \in IF Entries(s, fid, after) = {} THEN {0} ELSE Entries(s, fid, after)})

Write(s, fid) ==
    OnFid(s, fid, {Outcome(0, [s EXCEPT !.tree[s.fids[fid] + 1].empty = FALSE])})

============================================================================
