---------------------------- MODULE VolumeProofs ----------------------------
(***************************************************************************)
(* The safety of the callbacks, for every number of threads, handles, file *)
(* IDs and paths and whatever the server answers: who owns a file ID, and  *)
(* what the server knows of it.  The first part is about the server alone: *)
(* what a request may do to any tree and fid table, and which outcomes     *)
(* come with which change.                                                 *)
(***************************************************************************)
EXTENDS Volume, SequenceTheorems, TLAPS

IdsProofs == INSTANCE FileIdsProofs

----------------------------------------------------------------------------
(* The server: a request keeps the types and touches no fid but its own.   *)

(* No fid but one is changed, made known or forgotten.                     *)
TouchesOnly(s, t, fid) ==
    /\ DOMAIN t.fids \ {fid} = DOMAIN s.fids \ {fid}
    /\ \A id \in DOMAIN s.fids \ {fid} : t.fids[id] = s.fids[id]

(* The later server is one, and objects stay where they are.               *)
Follows(s, t) == ServerTyped(t) /\ Objects(s) \subseteq Objects(t)

Grows(s, t) == Len(t.tree) > Len(s.tree)
Empties(s, t) == \E i \in DOMAIN s.tree : ~s.tree[i].empty /\ t.tree[i].empty

(* Nothing is left of what the object held: a directory holds no bytes.    *)
Emptied(s, o) == At(s, o).kind = "file" => At(s, o).empty

USE ServerAssumption

----------------------------------------------------------------------------
(* The changes that requests are made of.                                  *)

(* Numbers of objects are positions in the tree, and the root is one.      *)
LEMMA TypedObjects ==
  ASSUME NEW s, ServerTyped(s)
  PROVE  /\ Len(s.tree) \in Nat \ {0} /\ DOMAIN s.tree = 1 .. Len(s.tree)
         /\ Root \in Objects(s) /\ Objects(s) \subseteq Nat
         /\ \A o \in Objects(s) : o + 1 \in DOMAIN s.tree /\ At(s, o) \in ObjectType
  BY EmptySeq DEF ServerTyped, Objects, Root, At

(* A server that changes nothing is a later server.                        *)
LEMMA SameFollows == ASSUME NEW s, ServerTyped(s) PROVE Follows(s, s)
  BY DEF Follows

(* A fid that is bound to an object is the only one touched.               *)
LEMMA WithFidFollows ==
  ASSUME NEW s, ServerTyped(s), NEW fid \in 0 .. (NOFID - 1), NEW o \in Objects(s)
  PROVE  /\ Follows(s, WithFid(s, fid, o)) /\ TouchesOnly(s, WithFid(s, fid, o), fid)
         /\ WithFid(s, fid, o).tree = s.tree
         /\ DOMAIN WithFid(s, fid, o).fids = DOMAIN s.fids \cup {fid}
         /\ WithFid(s, fid, o).fids[fid] = o
<1> DEFINE fids == [f \in DOMAIN s.fids \cup {fid} |-> IF f = fid THEN o ELSE s.fids[f]]
<1>1. WithFid(s, fid, o) = [fids |-> fids, tree |-> s.tree]
  BY DEF WithFid, ServerTyped
<1>2. fids \in [DOMAIN s.fids \cup {fid} -> Objects(s)]
  BY DEF ServerTyped
<1>3. WithFid(s, fid, o).fids = fids /\ WithFid(s, fid, o).tree = s.tree
  BY <1>1
<1>4. Objects(WithFid(s, fid, o)) = Objects(s)
  BY <1>3 DEF Objects
<1> QED
  BY <1>1, <1>2, <1>3, <1>4 DEF ServerTyped, Follows, TouchesOnly

(* A fid that is given up is the only one touched.                         *)
LEMMA WithoutFidFollows ==
  ASSUME NEW s, ServerTyped(s), NEW fid
  PROVE  /\ Follows(s, WithoutFid(s, fid)) /\ TouchesOnly(s, WithoutFid(s, fid), fid)
         /\ WithoutFid(s, fid).tree = s.tree
         /\ DOMAIN WithoutFid(s, fid).fids = DOMAIN s.fids \ {fid}
<1> DEFINE fids == [f \in DOMAIN s.fids \ {fid} |-> s.fids[f]]
<1>1. WithoutFid(s, fid) = [fids |-> fids, tree |-> s.tree]
  BY DEF WithoutFid, Restrict, ServerTyped
<1>2. fids \in [DOMAIN s.fids \ {fid} -> Objects(s)]
  BY DEF ServerTyped
<1>3. WithoutFid(s, fid).fids = fids /\ WithoutFid(s, fid).tree = s.tree
  BY <1>1
<1>4. Objects(WithoutFid(s, fid)) = Objects(s)
  BY <1>3 DEF Objects
<1> QED
  BY <1>1, <1>2, <1>3, <1>4 DEF ServerTyped, Follows, TouchesOnly

(* An object that is filled, emptied or unlinked is an object.             *)
LEMMA ChangedObject ==
  ASSUME NEW s, ServerTyped(s), NEW o \in Objects(s)
  PROVE  /\ [At(s, o) EXCEPT !.empty = TRUE] \in ObjectType
         /\ [At(s, o) EXCEPT !.empty = FALSE] \in ObjectType
         /\ [At(s, o) EXCEPT !.linked = FALSE] \in ObjectType
<1> DEFINE object == At(s, o)
<1>1. object \in ObjectType
  BY TypedObjects
<1> HIDE DEF object
<1>2. /\ [object EXCEPT !.empty = TRUE] \in ObjectType
      /\ [object EXCEPT !.empty = FALSE] \in ObjectType
      /\ [object EXCEPT !.linked = FALSE] \in ObjectType
  BY <1>1 DEF ObjectType
<1> QED
  BY <1>2 DEF object

(* A tree that is as long or longer.                                       *)
LEMMA TreeFollows ==
  ASSUME NEW s, ServerTyped(s), NEW tree \in Seq(ObjectType), Len(tree) >= Len(s.tree)
  PROVE  /\ Follows(s, [s EXCEPT !.tree = tree])
         /\ [s EXCEPT !.tree = tree].fids = s.fids
         /\ [s EXCEPT !.tree = tree].tree = tree
<1>1. [s EXCEPT !.tree = tree] = [fids |-> s.fids, tree |-> tree]
  BY DEF ServerTyped
<1>2. tree # << >> /\ Len(tree) \in Nat
  BY TypedObjects, EmptySeq
<1>3. Objects(s) \subseteq Objects([s EXCEPT !.tree = tree])
  BY <1>1, <1>2, TypedObjects DEF Objects
<1>4. s.fids \in [DOMAIN s.fids -> Objects([s EXCEPT !.tree = tree])]
  BY <1>3 DEF ServerTyped
<1> QED
  BY <1>1, <1>2, <1>3, <1>4 DEF ServerTyped, Follows

(* One object is changed in place.                                         *)
LEMMA ExceptFollows ==
  ASSUME NEW s, ServerTyped(s), NEW o \in Objects(s), NEW object \in ObjectType
  PROVE  LET t == [s EXCEPT !.tree[o + 1] = object]
         IN  /\ Follows(s, t) /\ t.fids = s.fids
             /\ Len(t.tree) = Len(s.tree)
             /\ \A i \in DOMAIN s.tree : t.tree[i] = IF i = o + 1 THEN object ELSE s.tree[i]
<1> DEFINE tree == [s.tree EXCEPT ![o + 1] = object]
<1>1. o + 1 \in 1 .. Len(s.tree)
  BY TypedObjects
<1>2. /\ tree \in Seq(ObjectType) /\ Len(tree) = Len(s.tree)
      /\ \A i \in 1 .. Len(s.tree) : tree[i] = IF i = o + 1 THEN object ELSE s.tree[i]
  BY <1>1, ExceptSeq DEF ServerTyped
<1>3. [s EXCEPT !.tree[o + 1] = object] = [s EXCEPT !.tree = tree]
  BY DEF ServerTyped
<1>4. Len(tree) >= Len(s.tree)
  BY <1>2, TypedObjects
<1> HIDE DEF tree
<1> QED
  BY <1>2, <1>3, <1>4, TreeFollows, TypedObjects

(* A new object comes after all others and moves none.                     *)
LEMMA AddedFollows ==
  ASSUME NEW s, ServerTyped(s), NEW object \in ObjectType
  PROVE  /\ Follows(s, Added(s, object)) /\ Added(s, object).fids = s.fids
         /\ Len(s.tree) \in Objects(Added(s, object))
         /\ \A i \in DOMAIN s.tree : Added(s, object).tree[i] = s.tree[i]
<1> DEFINE tree == Append(s.tree, object)
<1>1. /\ tree \in Seq(ObjectType) /\ Len(tree) = Len(s.tree) + 1
      /\ \A i \in 1 .. Len(s.tree) : tree[i] = s.tree[i]
  BY AppendProperties DEF ServerTyped
<1>2. Added(s, object) = [s EXCEPT !.tree = tree]
  BY DEF Added
<1>3. Len(tree) >= Len(s.tree)
  BY <1>1, TypedObjects
<1>4. Len(s.tree) \in 0 .. (Len(tree) - 1)
  BY <1>1, TypedObjects
<1> HIDE DEF tree
<1>5. Follows(s, Added(s, object)) /\ Added(s, object).fids = s.fids /\ Added(s, object).tree = tree
  BY <1>1, <1>2, <1>3, TreeFollows
<1> QED
  BY <1>1, <1>4, <1>5, TypedObjects DEF Objects

----------------------------------------------------------------------------
(* The requests.                                                           *)

LEMMA OutcomeFields ==
  ASSUME NEW e, NEW s PROVE Outcome(e, s).error = e /\ Outcome(e, s).server = s
  BY DEF Outcome

(* A request about a fid is refused and changes nothing, or the server     *)
(* knows the fid.                                                          *)
LEMMA OnFidOutcome ==
  ASSUME NEW s, NEW fid, NEW outcomes, NEW r \in OnFid(s, fid, outcomes)
  PROVE  \/ r.server = s /\ r.error \in Nat \ {0}
         \/ Known(s, fid) /\ r \in outcomes
  BY OutcomeFields DEF OnFid, Refused, EBADF, ENOENT

(* A request that changes nothing neither adds nor empties.                *)
LEMMA SameTouches ==
  ASSUME NEW s, ServerTyped(s), NEW fid
  PROVE  TouchesOnly(s, s, fid) /\ ~Grows(s, s) /\ ~Empties(s, s)
  BY TypedObjects DEF TouchesOnly, Grows, Empties

(* Every object that names lead to is one of the server's.                 *)
LEMMA ReachedObjects ==
  ASSUME NEW s, NEW from, NEW names \in Seq(EntryName) PROVE Reached(s, from, names) \subseteq Objects(s)
<1>1. Len(names) \in 0 .. Len(names)
  OBVIOUS
<1> QED
  BY <1>1 DEF Reached

(* Twalk binds the new fid, which nobody knew, or changes nothing; NOFID   *)
(* is never bound.                                                         *)
LEMMA WalkOutcome ==
  ASSUME NEW s, ServerTyped(s), NEW fid, NEW newFid \in 0 .. NOFID,
         NEW names \in Seq(EntryName), NEW r \in Walk(s, fid, newFid, names)
  PROVE  /\ Follows(s, r.server) /\ TouchesOnly(s, r.server, newFid)
         /\ r.server.tree = s.tree /\ r.error \in Nat
         /\ IF r.error = 0 THEN newFid # NOFID /\ ~Known(s, newFid) ELSE r.server = s
<1> DEFINE reached == Reached(s, s.fids[fid], names)
<1>1. CASE r.server = s /\ r.error \in Nat \ {0}
  BY <1>1, SameFollows, SameTouches
<1>2. CASE Free(s, newFid) /\ \E o \in reached : r = Outcome(0, WithFid(s, newFid, o))
  <2>1. PICK o \in Objects(s) : r = Outcome(0, WithFid(s, newFid, o))
    BY <1>2, ReachedObjects
  <2>2. newFid \in 0 .. (NOFID - 1) /\ ~Known(s, newFid)
    BY <1>2 DEF Free
  <2>3. r.server = WithFid(s, newFid, o) /\ r.error = 0
    BY <2>1, OutcomeFields
  <2> QED
    BY <2>2, <2>3, WithFidFollows
<1>3. CASE Free(s, newFid) /\ r = Outcome(0, s)
  <2>1. r.server = s /\ r.error = 0
    BY <1>3, OutcomeFields
  <2> QED
    BY <1>3, <2>1, SameFollows, SameTouches DEF Free
<1>4. CASE r \in {Outcome(EBADF, s), Outcome(ENOENT, s)}
  BY <1>4, <1>1, OutcomeFields DEF EBADF, ENOENT
<1> HIDE DEF reached
<1>5. r \in OnFid(s, fid,
          IF ~Free(s, newFid) THEN {Outcome(EBADF, s)}
          ELSE IF reached # {} THEN {Outcome(0, WithFid(s, newFid, o)) : o \in reached}
          ELSE IF Lookup(s, s.fids[fid], names[1]) # {} /\ PartialWalk THEN {Outcome(0, s)}
          ELSE {Outcome(ENOENT, s)})
  BY DEF Walk, reached
<1> QED
  BY <1>1, <1>2, <1>3, <1>4, <1>5, OnFidOutcome

(* Tattach binds its fid, which nobody knew, or changes nothing.           *)
LEMMA AttachOutcome ==
  ASSUME NEW s, ServerTyped(s), NEW fid \in 0 .. NOFID, NEW r \in Attach(s, fid)
  PROVE  /\ Follows(s, r.server) /\ TouchesOnly(s, r.server, fid)
         /\ r.server.tree = s.tree /\ r.error \in Nat
         /\ IF r.error = 0 THEN fid # NOFID /\ ~Known(s, fid) ELSE r.server = s
<1>1. CASE Free(s, fid) /\ r = Outcome(0, WithFid(s, fid, Root))
  <2>1. fid \in 0 .. (NOFID - 1) /\ ~Known(s, fid)
    BY <1>1 DEF Free
  <2>2. r.server = WithFid(s, fid, Root) /\ r.error = 0
    BY <1>1, OutcomeFields
  <2> QED
    BY <2>1, <2>2, WithFidFollows, TypedObjects
<1>2. CASE r.server = s /\ r.error \in Nat \ {0}
  BY <1>2, SameFollows, SameTouches
<1>3. \/ r.server = s /\ r.error \in Nat \ {0}
      \/ Free(s, fid) /\ r = Outcome(0, WithFid(s, fid, Root))
  BY OutcomeFields DEF Attach, Refused, EBADF
<1> QED
  BY <1>1, <1>2, <1>3

(* After Tclunk the fid is unknown, whatever the answer: so it may be      *)
(* given back.                                                             *)
LEMMA ClunkOutcome ==
  ASSUME NEW s, ServerTyped(s), NEW fid, NEW r \in Clunk(s, fid)
  PROVE  /\ Follows(s, r.server) /\ TouchesOnly(s, r.server, fid)
         /\ r.server.tree = s.tree /\ r.error \in Nat
         /\ ~Known(r.server, fid)
<1>1. CASE ~Known(s, fid) /\ r.server = s /\ r.error \in Nat
  BY <1>1, SameFollows, SameTouches
<1>2. CASE r.server = WithoutFid(s, fid) /\ r.error \in Nat
  BY <1>2, WithoutFidFollows DEF Known
<1>3. CASE Known(s, fid)
  <2>1. PICK e \in {0} \cup ServerErrors : r = Outcome(e, WithoutFid(s, fid))
    BY <1>3 DEF Clunk
  <2>2. r.server = WithoutFid(s, fid) /\ r.error \in Nat
    BY <2>1, OutcomeFields
  <2> QED
    BY <1>2, <2>2
<1>4. CASE ~Known(s, fid)
  BY <1>1, <1>4, OutcomeFields DEF Clunk, EBADF
<1> QED
  BY <1>3, <1>4

(* Tgetattr changes nothing.                                               *)
LEMMA GetAttributesOutcome ==
  ASSUME NEW s, NEW fid, NEW r \in GetAttributes(s, fid)
  PROVE  r.server = s /\ r.error \in Nat
  BY OnFidOutcome, OutcomeFields DEF GetAttributes

(* Treaddir changes nothing; an answer that succeeds has an offset.        *)
LEMMA ReadDirectoryOutcome ==
  ASSUME NEW s, ServerTyped(s), NEW fid, NEW after \in Nat, NEW r \in ReadDirectory(s, fid, after)
  PROVE  r.error \in Nat /\ (r.error = 0 => r.last \in Nat)
<1>1. Entries(s, fid, after) \subseteq Nat
  BY TypedObjects DEF Entries, Dots, Offset, Children
<1> QED
  BY <1>1, OnFidOutcome DEF ReadDirectory

(* Opening leaves the fid with an object that it denotes from then on.     *)
LEMMA OpenedOutcome ==
  ASSUME NEW s, ServerTyped(s), NEW fid, Known(s, fid), NEW o \in Objects(s),
         NEW write \in BOOLEAN, NEW truncate \in BOOLEAN,
         NEW r \in Opened(s, fid, o, write, truncate)
  PROVE  /\ Follows(s, r.server) /\ TouchesOnly(s, r.server, fid)
         /\ DOMAIN r.server.fids = DOMAIN s.fids /\ r.error \in Nat
         /\ r.server.fids[fid] \in {o, s.fids[fid]}
         /\ ~Grows(s, r.server) /\ (Empties(s, r.server) => truncate)
         /\ r.error = 0 /\ truncate => Emptied(r.server, o)
<1> DEFINE t == WithFid(s, fid, o)
<1>1. fid \in 0 .. (NOFID - 1) /\ fid \in DOMAIN s.fids
  BY DEF Known, ServerTyped
<1>2. /\ Follows(s, t) /\ TouchesOnly(s, t, fid) /\ t.tree = s.tree
      /\ DOMAIN t.fids = DOMAIN s.fids /\ t.fids[fid] = o
  <2>1. /\ Follows(s, t) /\ TouchesOnly(s, t, fid) /\ t.tree = s.tree
        /\ DOMAIN t.fids = DOMAIN s.fids \cup {fid} /\ t.fids[fid] = o
    BY <1>1, WithFidFollows
  <2>2. DOMAIN s.fids \cup {fid} = DOMAIN s.fids
    BY <1>1
  <2> QED
    BY <2>1, <2>2
<1> HIDE DEF t
<1>3. CASE r.server = s /\ r.error \in Nat \ {0}
  BY <1>3, SameFollows, SameTouches
<1>4. CASE r = Outcome(0, t) /\ (truncate => At(s, o).kind = "directory")
  <2>1. r.server = t /\ r.error = 0
    BY <1>4, OutcomeFields
  <2>3. truncate => Emptied(t, o)
    BY <1>2, <1>4 DEF Emptied, At
  <2>2. ~Grows(s, t) /\ ~Empties(s, t)
    BY <1>2, TypedObjects DEF Grows, Empties
  <2> QED
    BY <1>2, <2>1, <2>2, <2>3
<1>5. CASE truncate /\ r = Outcome(0, [t EXCEPT !.tree[o + 1].empty = TRUE])
  <2> DEFINE emptied == [At(t, o) EXCEPT !.empty = TRUE]
             u == [t EXCEPT !.tree[o + 1] = emptied]
  <2>1. ServerTyped(t) /\ o \in Objects(t)
    BY <1>2 DEF Follows
  <2>2. emptied \in ObjectType
    BY <2>1, ChangedObject
  <2>3. [t EXCEPT !.tree[o + 1].empty = TRUE] = u
    BY DEF At
  <2>4. /\ Follows(t, u) /\ u.fids = t.fids /\ Len(u.tree) = Len(t.tree)
        /\ u.tree[o + 1] = emptied
    <3> HIDE DEF emptied
    <3>1. o + 1 \in DOMAIN t.tree
      BY <2>1, TypedObjects
    <3> QED
      BY <2>1, <2>2, <3>1, ExceptFollows
  <2>5. r.server = u /\ r.error = 0
    BY <1>5, <2>3, OutcomeFields
  <2>9. Emptied(u, o)
    <3>1. At(t, o) \in ObjectType
      BY <2>1, TypedObjects
    <3>2. emptied.empty
      BY <3>1 DEF ObjectType
    <3> QED
      BY <2>4, <3>2 DEF Emptied, At
  <2> HIDE DEF u
  <2>6. Follows(s, u) /\ TouchesOnly(s, u, fid)
    BY <1>2, <2>4 DEF Follows, TouchesOnly
  <2>7. ~Grows(s, u)
    BY <1>2, <2>4, TypedObjects DEF Grows
  <2> QED
    BY <1>2, <1>5, <2>4, <2>5, <2>6, <2>7, <2>9
<1>6. \/ r = Outcome(0, t) /\ (truncate => At(s, o).kind = "directory")
      \/ r = Outcome(EACCES, s) \/ r = Outcome(EROFS, s)
      \/ truncate /\ r = Outcome(0, [t EXCEPT !.tree[o + 1].empty = TRUE])
  BY DEF Opened, t
<1>7. r \in {Outcome(EACCES, s), Outcome(EROFS, s)} => r.server = s /\ r.error \in Nat \ {0}
  BY OutcomeFields DEF EACCES, EROFS
<1> QED
  BY <1>3, <1>4, <1>5, <1>6, <1>7

(* Tlopen empties a file only when it truncates, then it does unless it is *)
(* refused, and the fid keeps its object.                                  *)
LEMMA LinuxOpenOutcome ==
  ASSUME NEW s, ServerTyped(s), NEW fid, NEW write \in BOOLEAN, NEW truncate \in BOOLEAN,
         NEW r \in LinuxOpen(s, fid, write, truncate)
  PROVE  /\ Follows(s, r.server) /\ TouchesOnly(s, r.server, fid)
         /\ DOMAIN r.server.fids = DOMAIN s.fids /\ r.error \in Nat
         /\ r.error = 0 => Known(s, fid) /\ Known(r.server, fid)
         /\ Known(s, fid) => r.server.fids[fid] = s.fids[fid]
         /\ ~Grows(s, r.server) /\ (Empties(s, r.server) => truncate)
         /\ r.error = 0 /\ truncate => Emptied(r.server, s.fids[fid])
<1>1. CASE r.server = s /\ r.error \in Nat \ {0}
  BY <1>1, SameFollows, SameTouches
<1>2. CASE Known(s, fid) /\ r \in Opened(s, fid, s.fids[fid], write, truncate)
  <2>1. s.fids[fid] \in Objects(s)
    BY <1>2 DEF Known, ServerTyped
  <2> QED
    BY <1>2, <2>1, OpenedOutcome DEF Known
<1> QED
  BY <1>1, <1>2, OnFidOutcome DEF LinuxOpen

(* A request for a name that cannot be is refused and changes nothing.     *)
LEMMA NamelessOutcome ==
  ASSUME NEW s, NEW name, NEW outcomes, NEW r \in Nameless(s, name, outcomes)
  PROVE  (r.server = s /\ r.error \in Nat \ {0}) \/ r \in outcomes
<1>1. CASE name = ""
  <2>1. r = Outcome(ENOENT, s)
    BY <1>1 DEF Nameless
  <2> QED
    BY <2>1, OutcomeFields DEF ENOENT
<1>2. CASE name # ""
  BY <1>2 DEF Nameless
<1> QED
  BY <1>1, <1>2

(* Creating makes the directory's fid that of the file.                    *)
LEMMA LinuxCreateOutcome ==
  ASSUME NEW s, ServerTyped(s), NEW fid, NEW name \in EntryName, NEW write \in BOOLEAN,
         NEW r \in LinuxCreate(s, fid, name, write)
  PROVE  /\ Follows(s, r.server) /\ TouchesOnly(s, r.server, fid)
         /\ DOMAIN r.server.fids = DOMAIN s.fids /\ r.error \in Nat
         /\ ~Empties(s, r.server)
<1> DEFINE dir == s.fids[fid]
           found == Lookup(s, dir, name)
           added == Added(s, Object("file", dir, name))
           t == WithFid(added, fid, Len(s.tree))
<1>1. CASE r.server = s /\ r.error \in Nat
  BY <1>1, SameFollows, SameTouches
<1>2. CASE Known(s, fid) /\ \E o \in found : r \in Opened(s, fid, o, write, FALSE)
  <2>1. found \subseteq Objects(s)
    BY DEF Lookup, Children
  <2>2. PICK o \in Objects(s) : r \in Opened(s, fid, o, write, FALSE)
    BY <1>2, <2>1
  <2>3. \A truncate \in BOOLEAN : r \in Opened(s, fid, o, write, truncate) =>
           /\ Follows(s, r.server) /\ TouchesOnly(s, r.server, fid)
           /\ DOMAIN r.server.fids = DOMAIN s.fids /\ r.error \in Nat
           /\ Empties(s, r.server) => truncate
    BY <1>2, OpenedOutcome
  <2> QED
    BY <2>2, <2>3
<1>3. CASE Known(s, fid) /\ r = Outcome(0, t)
  <2>1. fid \in 0 .. (NOFID - 1) /\ fid \in DOMAIN s.fids /\ dir \in Nat
    BY <1>3, TypedObjects DEF Known, ServerTyped
  <2>2. Object("file", dir, name) \in ObjectType
    BY <2>1 DEF Object, ObjectType
  <2>3. /\ Follows(s, added) /\ added.fids = s.fids /\ Len(s.tree) \in Objects(added)
        /\ \A i \in DOMAIN s.tree : added.tree[i] = s.tree[i]
    BY <2>2, AddedFollows
  <2>4. ServerTyped(added) /\ Objects(s) \subseteq Objects(added)
    BY <2>3 DEF Follows
  <2> HIDE DEF added
  <2>5. /\ Follows(added, t) /\ TouchesOnly(added, t, fid) /\ t.tree = added.tree
        /\ DOMAIN t.fids = DOMAIN added.fids \cup {fid}
    BY <2>1, <2>3, <2>4, WithFidFollows
  <2>6. r.server = t /\ r.error = 0
    BY <1>3, OutcomeFields
  <2> HIDE DEF t
  <2>7. Follows(s, t) /\ TouchesOnly(s, t, fid) /\ DOMAIN t.fids = DOMAIN s.fids
    BY <2>1, <2>3, <2>4, <2>5 DEF Follows, TouchesOnly
  <2>8. ~Empties(s, t)
    BY <2>3, <2>5 DEF Empties
  <2> QED
    BY <2>6, <2>7, <2>8
<1>4. r \in {Outcome(EISDIR, s), Outcome(ENOSPC, s)} => r.server = s /\ r.error \in Nat
  BY OutcomeFields DEF EISDIR, ENOSPC
<1>5. \/ r.server = s /\ r.error \in Nat \ {0}
      \/ /\ Known(s, fid)
         /\ r \in Nameless(s, name,
                   IF found # {}
                   THEN UNION {IF At(s, o).kind = "directory" THEN {Outcome(EISDIR, s)}
                               ELSE Opened(s, fid, o, write, FALSE) : o \in found}
                   ELSE IF Len(s.tree) > MaxObjects THEN {Outcome(ENOSPC, s)}
                   ELSE {Outcome(0, t)})
  BY OnFidOutcome DEF LinuxCreate
<1> HIDE DEF found, t
<1> DEFINE outcomes == IF found # {}
                       THEN UNION {IF At(s, o).kind = "directory" THEN {Outcome(EISDIR, s)}
                                   ELSE Opened(s, fid, o, write, FALSE) : o \in found}
                       ELSE IF Len(s.tree) > MaxObjects THEN {Outcome(ENOSPC, s)}
                       ELSE {Outcome(0, t)}
<1>6. r \in outcomes => \/ r \in {Outcome(EISDIR, s), Outcome(ENOSPC, s), Outcome(0, t)}
                        \/ \E o \in found : r \in Opened(s, fid, o, write, FALSE)
  OBVIOUS
<1> HIDE DEF outcomes
<1>7. \/ r.server = s /\ r.error \in Nat \ {0}
      \/ Known(s, fid) /\ r \in outcomes
  BY <1>5, NamelessOutcome DEF outcomes
<1> QED
  BY <1>1, <1>2, <1>3, <1>4, <1>6, <1>7

(* Tmkdir binds no fid and empties no file.                                *)
LEMMA MakeDirectoryOutcome ==
  ASSUME NEW s, ServerTyped(s), NEW fid, NEW name \in EntryName, NEW r \in MakeDirectory(s, fid, name)
  PROVE  /\ Follows(s, r.server) /\ r.server.fids = s.fids /\ r.error \in Nat
         /\ ~Empties(s, r.server)
<1> DEFINE dir == s.fids[fid]
           added == Added(s, Object("directory", dir, name))
<1>1. CASE r.server = s /\ r.error \in Nat
  BY <1>1, SameFollows, SameTouches
<1>2. CASE Known(s, fid) /\ r = Outcome(0, added)
  <2>1. dir \in Nat
    BY <1>2, TypedObjects DEF Known, ServerTyped
  <2>2. Object("directory", dir, name) \in ObjectType
    BY <2>1 DEF Object, ObjectType
  <2>3. r.server = added /\ r.error = 0
    BY <1>2, OutcomeFields
  <2> QED
    BY <2>2, <2>3, AddedFollows DEF Empties
<1>3. r \in {Outcome(EEXIST, s), Outcome(ENOSPC, s)} => r.server = s /\ r.error \in Nat
  BY OutcomeFields DEF EEXIST, ENOSPC
<1>4. \/ r.server = s /\ r.error \in Nat \ {0}
      \/ /\ Known(s, fid)
         /\ r \in Nameless(s, name,
                   IF Lookup(s, dir, name) # {} THEN {Outcome(EEXIST, s)}
                   ELSE IF Len(s.tree) > MaxObjects THEN {Outcome(ENOSPC, s)}
                   ELSE {Outcome(0, added)})
  BY OnFidOutcome DEF MakeDirectory
<1> HIDE DEF added
<1> QED
  BY <1>1, <1>2, <1>3, <1>4, NamelessOutcome

(* A rename moves objects, and unlinks one, in place.                      *)
LEMMA RenameAtOutcome ==
  ASSUME NEW s, ServerTyped(s), NEW oldFid, NEW oldName, NEW newFid, NEW newName \in EntryName,
         NEW r \in RenameAt(s, oldFid, oldName, newFid, newName)
  PROVE  /\ Follows(s, r.server) /\ r.server.fids = s.fids /\ r.error \in Nat
         /\ ~Grows(s, r.server) /\ ~Empties(s, r.server)
<1> DEFINE newDir == s.fids[newFid]
           target == Lookup(s, newDir, newName)
           tree(o) == [i \in DOMAIN s.tree |->
                         IF i = o + 1 THEN [s.tree[i] EXCEPT !.parent = newDir, !.name = newName]
                         ELSE IF i - 1 \in target THEN [s.tree[i] EXCEPT !.linked = FALSE]
                         ELSE s.tree[i]]
<1>1. CASE r.server = s /\ r.error \in Nat
  BY <1>1, SameFollows, SameTouches
<1>2. CASE Known(s, newFid) /\ \E o : r = Outcome(0, [s EXCEPT !.tree = tree(o)])
  <2>1. PICK o : r = Outcome(0, [s EXCEPT !.tree = tree(o)])
    BY <1>2
  <2>2. newDir \in Nat
    BY <1>2, TypedObjects DEF Known, ServerTyped
  <2>3. \A i \in DOMAIN s.tree : s.tree[i] \in ObjectType
    BY DEF ServerTyped
  <2>4. \A i \in DOMAIN s.tree :
           tree(o)[i] \in ObjectType /\ tree(o)[i].empty = s.tree[i].empty
    <3> HIDE DEF target, newDir
    <3> QED
      BY <2>2, <2>3 DEF ObjectType
  <2>5. DOMAIN tree(o) = 1 .. Len(s.tree)
    BY TypedObjects
  <2> HIDE DEF tree
  <2>6. tree(o) \in Seq(ObjectType) /\ Len(tree(o)) = Len(s.tree)
    <3>1. tree(o) \in [1 .. Len(s.tree) -> ObjectType]
      BY <2>4, <2>5, TypedObjects DEF tree
    <3> QED
      BY <3>1, TypedObjects
  <2>7. r.server = [s EXCEPT !.tree = tree(o)] /\ r.error = 0
    BY <2>1, OutcomeFields
  <2>8. Len(tree(o)) >= Len(s.tree)
    BY <2>6, TypedObjects
  <2>9. Follows(s, r.server) /\ r.server.fids = s.fids /\ r.server.tree = tree(o)
    BY <2>6, <2>7, <2>8, TreeFollows
  <2> QED
    BY <2>4, <2>6, <2>7, <2>9, TypedObjects DEF Grows, Empties
<1>3. r \in {Outcome(e, s) : e \in {EACCES, ENOTEMPTY, ENOENT}} => r.server = s /\ r.error \in Nat
  BY OutcomeFields DEF EACCES, ENOTEMPTY, ENOENT
<1> HIDE DEF tree
<1>4. \/ r.server = s /\ r.error \in Nat \ {0}
      \/ /\ Known(s, newFid)
         /\ \/ r \in {Outcome(e, s) : e \in {EACCES, ENOTEMPTY, ENOENT}}
            \/ \E o : r = Outcome(0, [s EXCEPT !.tree = tree(o)])
  <2> DEFINE moving == Lookup(s, s.fids[oldFid], oldName)
             Moved(o) ==
               IF o \in Above(s, newDir) THEN Outcome(EACCES, s)
               ELSE IF \E g \in target \ {o} : \/ At(s, g).kind # At(s, o).kind
                                               \/ Children(s, g) # {}
               THEN Outcome(ENOTEMPTY, s)
               ELSE Outcome(0, [s EXCEPT !.tree = tree(o)])
             outcomes == IF moving = {} THEN {Outcome(ENOENT, s)} ELSE {Moved(o) : o \in moving}
  <2>1. r \in OnFid(s, oldFid, OnFid(s, newFid, Nameless(s, newName, outcomes)))
    BY DEF RenameAt, tree
  <2>2. \A o : \/ Moved(o) \in {Outcome(e, s) : e \in {EACCES, ENOTEMPTY, ENOENT}}
               \/ Moved(o) = Outcome(0, [s EXCEPT !.tree = tree(o)])
    OBVIOUS
  <2> HIDE DEF Moved, moving
  <2>3. r \in outcomes =>
           \/ r \in {Outcome(e, s) : e \in {EACCES, ENOTEMPTY, ENOENT}}
           \/ \E o : r = Outcome(0, [s EXCEPT !.tree = tree(o)])
    BY <2>2
  <2> HIDE DEF outcomes
  <2>4. \/ r.server = s /\ r.error \in Nat \ {0}
        \/ Known(s, newFid) /\ r \in Nameless(s, newName, outcomes)
    BY <2>1, OnFidOutcome
  <2> QED
    BY <2>3, <2>4, NamelessOutcome
<1> QED
  BY <1>1, <1>2, <1>3, <1>4

(* After Tremove the fid is unknown, whatever the answer.                  *)
LEMMA RemoveOutcome ==
  ASSUME NEW s, ServerTyped(s), NEW fid, NEW r \in Remove(s, fid)
  PROVE  Follows(s, r.server) /\ TouchesOnly(s, r.server, fid) /\ ~Known(r.server, fid)
<1> DEFINE o == s.fids[fid]
           t == WithoutFid(s, fid)
           unlinked == [At(t, o) EXCEPT !.linked = FALSE]
           u == [t EXCEPT !.tree[o + 1] = unlinked]
<1>1. CASE ~Known(s, fid)
  <2>1. r.server = s
    BY <1>1, OutcomeFields DEF Remove
  <2> QED
    BY <1>1, <2>1, SameFollows, SameTouches
<1>2. CASE Known(s, fid)
  <2>1. /\ Follows(s, t) /\ TouchesOnly(s, t, fid) /\ ~Known(t, fid) /\ t.tree = s.tree
        /\ ServerTyped(t) /\ o \in Objects(t)
    BY <1>2, WithoutFidFollows DEF Follows, Known, ServerTyped
  <2>2. unlinked \in ObjectType
    BY <2>1, ChangedObject
  <2>3. [t EXCEPT !.tree[o + 1].linked = FALSE] = u
    BY DEF At
  <2>4. r.server \in {t, u}
    <3>1. \/ \E e : r = Outcome(e, t)
          \/ r = Outcome(0, [t EXCEPT !.tree[o + 1].linked = FALSE])
      BY <1>2 DEF Remove, Refused
    <3>2. r = Outcome(0, [t EXCEPT !.tree[o + 1].linked = FALSE]) => r = Outcome(0, u)
      BY <2>3
    <3> HIDE DEF t, u
    <3> QED
      BY <3>1, <3>2, OutcomeFields
  <2> HIDE DEF t, unlinked
  <2>5. Follows(t, u) /\ u.fids = t.fids
    BY <2>1, <2>2, ExceptFollows
  <2>6. Follows(s, u) /\ TouchesOnly(s, u, fid) /\ ~Known(u, fid)
    BY <2>1, <2>5 DEF Follows, TouchesOnly, Known
  <2> QED
    BY <2>1, <2>4, <2>6
<1> QED
  BY <1>1, <1>2

(* Twrite binds no fid.                                                    *)
LEMMA WriteOutcome ==
  ASSUME NEW s, ServerTyped(s), NEW fid, NEW r \in Write(s, fid)
  PROVE  Follows(s, r.server) /\ r.server.fids = s.fids
<1> DEFINE o == s.fids[fid]
           filled == [At(s, o) EXCEPT !.empty = FALSE]
           u == [s EXCEPT !.tree[o + 1] = filled]
<1>1. CASE r.server = s
  BY <1>1, SameFollows
<1>2. CASE Known(s, fid) /\ r = Outcome(0, u)
  <2>1. o \in Objects(s)
    BY <1>2 DEF Known, ServerTyped
  <2>2. filled \in ObjectType
    BY <2>1, ChangedObject
  <2>3. r.server = u
    BY <1>2, OutcomeFields
  <2> HIDE DEF filled
  <2> QED
    BY <2>1, <2>2, <2>3, ExceptFollows
<1>3. [s EXCEPT !.tree[o + 1].empty = FALSE] = u
  BY DEF At
<1>4. r \in OnFid(s, fid, {Outcome(0, u)})
  BY <1>3 DEF Write
<1> HIDE DEF u
<1> QED
  BY <1>1, <1>2, <1>4, OnFidOutcome

----------------------------------------------------------------------------
(* The invariant.                                                          *)

(* What a callback does next, once the walk, clunk or free under way is    *)
(* over.                                                                   *)
Toward(f) == IF f.pc \in {"walk", "clunk", "free"} THEN f.next ELSE f.pc

AfterWalk == {"mkdirAttributes", "createAttributes", "walked", "rewalked",
              "oldWalked", "newWalked", "found"}
AfterClunk == {"made", "created", "return", "clunkOld", "findNext"}
WithoutId == AfterClunk \cup {"idle", "exit", "readDirectory"}

(* When a frame has a file ID in work, and when it keeps a second one.     *)
IdOfPlace(f) ==
    /\ f.pc \in WithoutId => f.id = NOFID
    /\ f.pc \in AfterWalk /\ f.error # 0 => f.id = NOFID
    /\ f.pc = "walk" => f.next \in AfterWalk
    /\ f.pc = "clunk" => f.next \in AfterClunk
    /\ f.pc = "free" => \/ f.next \in AfterClunk \cup {"exit"}
                        \/ f.next \in AfterWalk /\ f.error # 0
    /\ f.saved # NOFID => Toward(f) \in {"newWalked", "clunkOld"}

(* Nobody but the thread that attaches does anything before it is done.    *)
Starting(f) == f.pc = "attach" \/ Toward(f) = "exit"

AttachAlone ==
    /\ begun = 0 => \A t \in Thread : frame[t].pc = "idle"
    /\ \A t \in Thread : Starting(frame[t]) =>
          rootId = NOFID /\ \A u \in Thread \ {t} : frame[u].pc = "idle"

(* The handle of a file that is being opened is no other callback's and    *)
(* holds nothing yet.                                                      *)
Opening(f) ==
    Toward(f) \in {"mkdirAttributes", "mkdir", "made", "createAttributes", "create", "created",
                   "walked", "rewalked", "reopen"}

Finding(f) == Toward(f) \in {"readDirectory", "findNext", "found"}

HandleOfPlace ==
    \A t \in Thread :
        /\ frame[t].pc = "idle" => frame[t].h = "none"
        /\ Finding(frame[t]) => frame[t].h \in Handle
        /\ Opening(frame[t]) =>
              /\ frame[t].h \in Handle \ {"none"} /\ ~handle[frame[t].h].open
              /\ \A u \in Thread \ {t} : frame[u].h # frame[t].h

(* The server does not know an ID that is about to be walked to or freed.  *)
Unknown ==
    \A t \in Thread : frame[t].pc \in {"attach", "walk", "free"} => ~Known(server, frame[t].id)

(* What the disposition that Dokan asked for allows at each place.         *)
AskedOfPlace(f) ==
    /\ Toward(f) \in {"mkdirAttributes", "mkdir", "made", "createAttributes", "create", "created"}
          => f.asked \in Creating
    /\ Toward(f) \in {"walked", "rewalked", "reopen"}
          => f.asked \in AnyDisposition /\ f.disposition \in {f.asked, "OPEN"}

Allocator == Ids!TypeOK /\ Ids!Partition /\ Ids!Compact

Owners == OneOwner /\ rootId \in held \cup {NOFID}

Places ==
    /\ \A t \in Thread : IdOfPlace(frame[t]) /\ AskedOfPlace(frame[t])
    /\ AttachAlone
    /\ HandleOfPlace

IInv == TypeOK /\ Allocator /\ Places /\ Owners /\ NoServerLeak /\ Unknown /\ HandleIntact

USE VolumeAssumption

----------------------------------------------------------------------------
(* The allocator.                                                          *)

(* An ID that is handed out is new, or there is none.                      *)
LEMMA Allocation ==
  ASSUME Allocator, NEW id \in 0 .. NOFID, Ids!AllocateFileId(id)
  PROVE  Allocator' /\ id \notin held /\ held' = held \cup ({id} \ {NOFID})
<1>0. id \in IdsProofs!FileId \cup {NOFID}
  BY ServerAssumption DEF IdsProofs!FileId
<1>1. IdsProofs!IInv /\ IdsProofs!AllocateFileId(id)
  BY DEF Allocator, IdsProofs!IInv, Ids!TypeOK, IdsProofs!TypeOK, Ids!Partition, IdsProofs!Partition,
         Ids!Compact, IdsProofs!Compact, Ids!FileId, IdsProofs!FileId, Ids!AllocateFileId,
         IdsProofs!AllocateFileId, Ids!Returns, IdsProofs!Returns
<1>2. IdsProofs!IInv'
  BY <1>0, <1>1, ServerAssumption, IdsProofs!AllocatePreserves DEF IdsProofs!NOFIDAssumption
<1>3. Allocator'
  BY <1>2 DEF Allocator, IdsProofs!IInv, Ids!TypeOK, IdsProofs!TypeOK, Ids!Partition,
         IdsProofs!Partition, Ids!Compact, IdsProofs!Compact, Ids!FileId, IdsProofs!FileId
<1>4. id \notin held
  BY ServerAssumption DEF Allocator, Ids!TypeOK, Ids!Partition, Ids!FileId, Ids!AllocateFileId, Ids!Returns
<1> QED
  BY <1>3, <1>4 DEF Ids!AllocateFileId

(* An ID that is given back is no longer held; nothing else changes hands. *)
LEMMA Freeing ==
  ASSUME Allocator, NEW id \in held \cup {NOFID}, Ids!FreeFileId(id)
  PROVE  Allocator' /\ held' = held \ {id}
<1>1. IdsProofs!IInv /\ IdsProofs!FreeFileId(id)
  BY DEF Allocator, IdsProofs!IInv, Ids!TypeOK, IdsProofs!TypeOK, Ids!Partition, IdsProofs!Partition,
         Ids!Compact, IdsProofs!Compact, Ids!FileId, IdsProofs!FileId, Ids!FreeFileId,
         IdsProofs!FreeFileId, Ids!LastIsBelow, IdsProofs!LastIsBelow, Ids!Decrement,
         IdsProofs!Decrement
<1>2. IdsProofs!IInv'
  BY <1>1, ServerAssumption, IdsProofs!FreePreserves DEF IdsProofs!NOFIDAssumption
<1>3. Allocator'
  BY <1>2 DEF Allocator, IdsProofs!IInv, Ids!TypeOK, IdsProofs!TypeOK, Ids!Partition,
         IdsProofs!Partition, Ids!Compact, IdsProofs!Compact, Ids!FileId, IdsProofs!FileId
<1> QED
  BY <1>3 DEF Ids!FreeFileId

----------------------------------------------------------------------------
(* Frames.                                                                 *)

LEMMA Statuses == \A error : ToNtStatus(error) \in Status
  BY DEF ToNtStatus, Status

(* The parent of a path and the last of its names are a path and a name.   *)
LEMMA Paths ==
  ASSUME NEW path \in Seq(FileName)
  PROVE  /\ Parent(path) \in Seq(FileName) /\ Name(path) \in EntryName
         /\ path \in Seq(EntryName) /\ Parent(path) \in Seq(EntryName)
<1>1. FileName \subseteq EntryName /\ "" \in EntryName
  BY DEF EntryName
<1>2. CASE path = << >>
  <2>1. SubSeq(path, 1, Len(path) - 1) = << >>
    BY <1>2, SubSeqEmpty
  <2>2. Parent(path) = << >> /\ Name(path) = ""
    BY <1>2, <2>1 DEF Parent, Name
  <2>3. << >> \in Seq(FileName) /\ << >> \in Seq(EntryName)
    BY EmptySeq
  <2> QED
    BY <1>1, <1>2, <2>2, <2>3
<1>3. CASE path # << >>
  <2>1. Len(path) \in Nat \ {0} /\ Name(path) = path[Len(path)]
    BY <1>3, EmptySeq DEF Name
  <2>2. \A i \in 1 .. (Len(path) - 1) : path[i] \in FileName
    BY <2>1
  <2>3. SubSeq(path, 1, Len(path) - 1) \in Seq(FileName)
    BY <2>1, <2>2, SubSeqProperties
  <2>4. Parent(path) \in Seq(FileName)
    BY <2>3 DEF Parent
  <2>5. path \in Seq(EntryName) /\ Parent(path) \in Seq(EntryName)
    BY <1>1, <2>4, SeqMonotonic
  <2>6. path[Len(path)] \in FileName
    BY <2>1, ElementOfSeq
  <2> QED
    BY <1>1, <2>1, <2>4, <2>5, <2>6
<1> QED
  BY <1>2, <1>3

(* NOFID is an ID that is never handed out.                                *)
LEMMA NoId == NOFID \in 0 .. NOFID /\ NOFID \notin 0 .. (NOFID - 1)
  BY ServerAssumption

(* A thread that runs no callback has a frame.                             *)
LEMMA IdleFrame == Idle \in Frame
<1>1. "idle" \in Place /\ "return" \in Place
  BY DEF Place
<1>2. "any" \in AnyOption
  BY DEF AnyOption
<1>3. /\ << >> \in Seq(FileName) /\ << >> \in Seq(EntryName)
      /\ {} \in SUBSET EntryName /\ "SUCCESS" \in Status
  BY EmptySeq DEF Status
<1>4. "none" \in AnyDisposition \cup {"none"} /\ "none" \in Handle \cup {"none"} /\ 0 \in Nat
  OBVIOUS
<1> QED
  BY <1>1, <1>2, <1>3, <1>4, NoId DEF Idle, Frame

(* A callback that ends has no file ID and no handle in work.              *)
LEMMA ReturnsFrame ==
  ASSUME NEW f \in Frame, NEW status \in Status
  PROVE  LET g == Returns(f, status)
         IN  /\ g \in Frame /\ g.pc = "return" /\ g.id = NOFID /\ g.saved = NOFID
             /\ g.h = "none" /\ g.asked = f.asked
<1>1. "return" \in Place
  BY DEF Place
<1>2. /\ Idle.id = NOFID /\ Idle.saved = NOFID /\ Idle.h = "none"
  BY DEF Idle
<1>3. f.path \in Seq(FileName) /\ f.asked \in AnyDisposition \cup {"none"}
  BY DEF Frame
<1> QED
  BY <1>1, <1>2, <1>3, IdleFrame DEF Returns, Frame

(* Going on elsewhere changes nothing but the place.                       *)
LEMMA GotoFrame ==
  ASSUME NEW f \in Frame, NEW pc \in Place
  PROVE  LET g == Goto(f, pc)
         IN  /\ g \in Frame /\ g.pc = pc /\ g.next = f.next
             /\ g.h = f.h /\ g.id = f.id /\ g.saved = f.saved /\ g.error = f.error
             /\ g.asked = f.asked /\ g.disposition = f.disposition
  BY DEF Goto, Frame

(* Beginning to clunk changes nothing but the places.                      *)
LEMMA ClunksFrame ==
  ASSUME NEW f \in Frame, NEW next \in Place
  PROVE  LET g == Clunks(f, next)
         IN  /\ g \in Frame /\ g.pc = "clunk" /\ g.next = next
             /\ g.h = f.h /\ g.id = f.id /\ g.saved = f.saved /\ g.error = f.error
             /\ g.asked = f.asked /\ g.disposition = f.disposition
<1>1. "clunk" \in Place
  BY DEF Place
<1> QED
  BY <1>1 DEF Clunks, Frame

----------------------------------------------------------------------------
(* What a step may do, put so that the invariant follows from it whatever  *)
(* the step is.                                                            *)

OwnedBy(f) == {f.id, f.saved} \ {NOFID}

(* One callback goes on from f to g.                                       *)
Continues(f, g) ==
    /\ g \in Frame /\ IdOfPlace(g) /\ AskedOfPlace(g)
    /\ Starting(g) => Starting(f)
    /\ g.h \in {f.h, "none"}
    /\ g.pc = "idle" => g.h = "none"
    /\ Opening(g) => Opening(f) /\ g.h = f.h
    /\ Finding(g) => g.h \in Handle

(* What is known before a step of a thread.                                *)
LEMMA FrameBefore ==
  ASSUME IInv, NEW t \in Thread
  PROVE  /\ frame[t] \in Frame /\ IdOfPlace(frame[t]) /\ AskedOfPlace(frame[t])
         /\ frame[t].pc = "idle" => frame[t].h = "none"
         /\ Finding(frame[t]) => frame[t].h \in Handle
         /\ Opening(frame[t]) => frame[t].h \in Handle /\ ~handle[frame[t].h].open
  BY DEF IInv, TypeOK, Places, HandleOfPlace

(* The type invariant after a step, from the type of each variable.        *)
LEMMA TypesChange ==
  ASSUME Allocator', ServerTyped(server'), rootId' \in 0 .. NOFID, begun' \in Nat,
         frame' \in [Thread -> Frame], handle' \in [Handle -> HandleType(server')],
         \A h \in Handle : handle'[h].open => handle'[h].id # NOFID
  PROVE  TypeOK'
<1>1. Ids!TypeOK'
  BY DEF Allocator
<1> QED
  BY <1>1 DEF TypeOK, OpenHandles

(* Handles keep their types when the server goes on.                       *)
LEMMA HandlesFollow ==
  ASSUME NEW s, NEW s2, Follows(s, s2), NEW f \in [Handle -> HandleType(s)]
  PROVE  f \in [Handle -> HandleType(s2)]
<1>1. HandleType(s) \subseteq HandleType(s2)
  BY DEF Follows, HandleType
<1> QED
  BY <1>1

(* The type invariant after a step that leaves the handles alone.          *)
LEMMA TypesFollow ==
  ASSUME TypeOK, Allocator', Follows(server, server'), rootId' \in 0 .. NOFID, begun' \in Nat,
         frame' \in [Thread -> Frame], UNCHANGED handle
  PROVE  TypeOK'
<1>1. handle \in [Handle -> HandleType(server')] /\ ServerTyped(server')
  BY HandlesFollow DEF TypeOK, Follows
<1>2. \A h \in Handle : handle[h].open => handle[h].id # NOFID
  BY DEF TypeOK, OpenHandles
<1> QED
  BY <1>1, <1>2, TypesChange

(* A callback that goes on keeps Places, if its new frame fits its new     *)
(* place and it opens at most the handle that it was opening.              *)
LEMMA PlacesContinue ==
  ASSUME IInv, NEW t \in Thread, NEW g, Continues(frame[t], g), frame[t].pc # "idle",
         frame' = [frame EXCEPT ![t] = g], UNCHANGED <<rootId, begun>>,
         \A k \in Handle : handle'[k].open =>
            handle[k].open \/ (k = frame[t].h /\ ~Opening(g))
  PROVE  Places' /\ frame' \in [Thread -> Frame]
<1>1. /\ frame \in [Thread -> Frame] /\ frame' \in [Thread -> Frame]
      /\ frame'[t] = g /\ \A u \in Thread \ {t} : frame'[u] = frame[u]
  BY DEF IInv, TypeOK, Continues
<1>2. \A u \in Thread : IdOfPlace(frame[u])' /\ AskedOfPlace(frame[u])'
  BY <1>1 DEF IInv, Places, Continues, IdOfPlace, AskedOfPlace, Toward
<1>3. AttachAlone'
  BY <1>1 DEF IInv, Places, AttachAlone, Continues, Starting, Toward
<1>4. HandleOfPlace'
  BY <1>1 DEF IInv, Places, HandleOfPlace, Continues, Opening, Finding, Toward
<1> QED
  BY <1>1, <1>2, <1>3, <1>4 DEF Places

(* An idle thread begins a callback.                                       *)
LEMMA PlacesBegin ==
  ASSUME IInv, NEW t \in Thread, frame[t].pc = "idle", rootId # NOFID,
         NEW g \in Frame, IdOfPlace(g), AskedOfPlace(g), ~Starting(g), g.pc # "idle",
         frame' = [frame EXCEPT ![t] = g], UNCHANGED rootId, begun' = begun + 1,
         g.h = "none" \/ (g.h \in Handle /\ ~Busy(g.h)),
         Finding(g) => g.h \in Handle,
         Opening(g) => g.h \in Handle /\ ~Busy(g.h) /\ ~handle'[g.h].open,
         \A k \in Handle : handle'[k].open => handle[k].open
  PROVE  Places' /\ frame' \in [Thread -> Frame]
<1>1. /\ frame \in [Thread -> Frame] /\ frame' \in [Thread -> Frame]
      /\ frame'[t] = g /\ \A u \in Thread \ {t} : frame'[u] = frame[u]
  BY DEF IInv, TypeOK
<1>2. \A u \in Thread : IdOfPlace(frame[u])' /\ AskedOfPlace(frame[u])'
  BY <1>1 DEF IInv, Places, IdOfPlace, AskedOfPlace, Toward
<1>3. AttachAlone'
  <2>1. begun' # 0
    BY DEF IInv, TypeOK
  <2>2. \A u \in Thread \ {t} : ~Starting(frame[u])
    BY DEF IInv, Places, AttachAlone
  <2> QED
    BY <1>1, <2>1, <2>2 DEF AttachAlone, Starting, Toward
<1>4. HandleOfPlace'
  <2>1. frame[t].h = "none"
    BY DEF IInv, Places, HandleOfPlace
  <2>2. g.h = "none" \/ (g.h \in Handle \ {"none"} /\ \A u \in Thread : frame[u].h # g.h)
    BY <2>1 DEF Busy
  <2>3. \A u \in Thread \ {t} :
           /\ frame'[u].pc = "idle" => frame'[u].h = "none"
           /\ Finding(frame'[u]) => frame'[u].h \in Handle
           /\ Opening(frame'[u]) =>
                 /\ frame'[u].h \in Handle \ {"none"} /\ ~handle'[frame'[u].h].open
                 /\ \A v \in Thread \ {u} : frame'[v].h # frame'[u].h
    BY <1>1, <2>2 DEF IInv, Places, HandleOfPlace, Opening, Finding, Toward
  <2>4. /\ Finding(g) => g.h \in Handle
        /\ Opening(g) =>
              /\ g.h \in Handle \ {"none"} /\ ~handle'[g.h].open
              /\ \A v \in Thread \ {t} : frame'[v].h # g.h
    BY <1>1, <2>1, <2>2 DEF Busy
  <2> QED
    BY <1>1, <2>3, <2>4 DEF HandleOfPlace, Opening, Finding, Toward
<1> QED
  BY <1>1, <1>2, <1>3, <1>4 DEF Places

----------------------------------------------------------------------------
(* Who owns the file IDs after a step.                                     *)

Ownership == Owners /\ NoServerLeak /\ Unknown /\ HandleIntact

(* The handles say of their file IDs what they said before.                *)
SameHandles ==
    \A h \in Handle :
        /\ handle'[h].id = handle[h].id /\ handle'[h].open = handle[h].open
        /\ handle'[h].object = handle[h].object
        /\ handle'[h].cleaned = handle[h].cleaned
        /\ handle'[h].deletePending = handle[h].deletePending

(* The conjuncts of Ownership with their definitions, the way the proofs   *)
(* use them.                                                               *)
LEMMA OwnersMean ==
  ASSUME IInv
  PROVE  /\ \A t \in Thread : OwnedBy(frame[t]) \subseteq held \ {rootId}
         /\ \A t \in Thread : frame[t].id = frame[t].saved => frame[t].id = NOFID
         /\ \A t, u \in Thread : t # u => OwnedBy(frame[t]) \cap OwnedBy(frame[u]) = {}
         /\ \A t \in Thread, h \in OpenHandles : handle[h].id \notin OwnedBy(frame[t])
         /\ \A h \in OpenHandles : handle[h].id \in held \ {rootId}
         /\ \A g, h \in OpenHandles : handle[g].id = handle[h].id => g = h
         /\ held \subseteq 0 .. (NOFID - 1) /\ NOFID \notin held
         /\ DOMAIN server.fids \subseteq held
<1>1. held \subseteq 0 .. (NOFID - 1)
  BY DEF IInv, Allocator, Ids!TypeOK, Ids!FileId
<1>2. DOMAIN server.fids \subseteq 0 .. (NOFID - 1)
  BY DEF IInv, TypeOK, ServerTyped
<1>3. OneOwner /\ rootId \in held \cup {NOFID} /\ NoServerLeak
  BY DEF IInv, Owners
<1>4. DOMAIN server.fids \subseteq held
  BY <1>2, <1>3, NoId DEF OneOwner, NoServerLeak, Owned
<1> QED
  BY <1>1, <1>3, <1>4, NoId DEF OneOwner, Owned, OwnedBy

(* Owners, from what it says of the values of the variables after a step.  *)
LEMMA OwnersAre ==
  ASSUME rootId' \in held' \cup {NOFID},
         \A u \in Thread : OwnedBy(frame'[u]) \subseteq held' \ {rootId'},
         \A u \in Thread : frame'[u].id = frame'[u].saved => frame'[u].id = NOFID,
         \A u, v \in Thread : u # v => OwnedBy(frame'[u]) \cap OwnedBy(frame'[v]) = {},
         \A u \in Thread, h \in OpenHandles' : handle'[h].id \notin OwnedBy(frame'[u]),
         \A h \in OpenHandles' : handle'[h].id \in held' \ {rootId'},
         \A g, h \in OpenHandles' : handle'[g].id = handle'[h].id => g = h
  PROVE  Owners'
<1>1. \A u \in Thread : Owned(u)' = OwnedBy(frame'[u])
  BY DEF Owned, OwnedBy
<1>2. (\A u \in Thread : Owned(u) \subseteq held \ {rootId})'
  BY <1>1
<1>3. (\A u \in Thread : frame[u].id = frame[u].saved => frame[u].id = NOFID)'
  OBVIOUS
<1>4. (\A u \in Thread : \A v \in Thread \ {u} : Owned(u) \cap Owned(v) = {})'
  BY <1>1
<1>5. (\A u \in Thread : \A h \in OpenHandles : handle[h].id \notin Owned(u))'
  BY <1>1
<1>6. (\A g, h \in OpenHandles : handle[g].id \in held \ {rootId})'
  OBVIOUS
<1>7. (\A g, h \in OpenHandles : handle[g].id = handle[h].id => g = h)'
  OBVIOUS
<1>8. OneOwner'
  BY <1>2, <1>3, <1>4, <1>5, <1>6, <1>7 DEF OneOwner
<1> QED
  BY <1>8 DEF Owners

(* Owners after a step that leaves the root and the handles alone.         *)
LEMMA OwnersFollow ==
  ASSUME SameHandles, UNCHANGED rootId, rootId \in held' \cup {NOFID},
         \A u \in Thread : OwnedBy(frame'[u]) \subseteq held' \ {rootId},
         \A u \in Thread : frame'[u].id = frame'[u].saved => frame'[u].id = NOFID,
         \A u, v \in Thread : u # v => OwnedBy(frame'[u]) \cap OwnedBy(frame'[v]) = {},
         \A u \in Thread, h \in OpenHandles : handle[h].id \notin OwnedBy(frame'[u]),
         \A h \in OpenHandles : handle[h].id \in held' \ {rootId},
         \A g, h \in OpenHandles : handle[g].id = handle[h].id => g = h
  PROVE  Owners'
<1>1. \A h \in OpenHandles' : h \in OpenHandles /\ handle'[h].id = handle[h].id
  BY DEF SameHandles, OpenHandles
<1>2. \A u \in Thread, h \in OpenHandles' : handle'[h].id \notin OwnedBy(frame'[u])
  BY <1>1
<1>3. \A h \in OpenHandles' : handle'[h].id \in held' \ {rootId'}
  BY <1>1
<1>4. \A g, h \in OpenHandles' : handle'[g].id = handle'[h].id => g = h
  BY <1>1
<1> QED
  BY <1>2, <1>3, <1>4, OwnersAre

(* What the server does for one callback makes no other one's ID known.    *)
LEMMA OthersUnknown ==
  ASSUME IInv, NEW t \in Thread, TouchesOnly(server, server', frame[t].id), ServerTyped(server')
  PROVE  \A u \in Thread \ {t} :
            frame[u].pc \in {"attach", "walk", "free"} => ~Known(server', frame[u].id)
<1>1. ASSUME NEW u \in Thread \ {t}, frame[u].pc \in {"attach", "walk", "free"}
      PROVE  ~Known(server', frame[u].id)
  <2>1. ~Known(server, frame[u].id)
    BY <1>1 DEF IInv, Unknown
  <2>2. CASE frame[u].id = NOFID
    BY <2>2, NoId DEF Known, ServerTyped
  <2>3. CASE frame[u].id # NOFID
    <3>1. frame[u].id # frame[t].id
      BY <2>3, OwnersMean DEF OwnedBy
    <3> QED
      BY <2>1, <3>1 DEF Known, TouchesOnly
  <2> QED
    BY <2>2, <2>3
<1> QED
  BY <1>1

(* The file IDs of a callback stay with it, and the server is asked about  *)
(* the one in work.                                                        *)
LEMMA OwnershipKept ==
  ASSUME IInv, NEW t \in Thread, NEW g \in Frame, frame' = [frame EXCEPT ![t] = g],
         UNCHANGED <<held, rootId>>, SameHandles,
         ServerTyped(server'), TouchesOnly(server, server', frame[t].id),
         g.pc \in {"attach", "walk", "free"} => ~Known(server', g.id),
         {g.id, g.saved} = {frame[t].id, frame[t].saved}, g.id = g.saved => g.id = NOFID
  PROVE  Ownership'
<1>1. /\ frame'[t] = g /\ \A u \in Thread \ {t} : frame'[u] = frame[u]
      /\ OwnedBy(g) = OwnedBy(frame[t])
  BY DEF IInv, TypeOK, OwnedBy
<1>2. OpenHandles' = OpenHandles
  BY DEF SameHandles, OpenHandles
<1>3. Owners'
  <2>1. rootId \in held' \cup {NOFID}
    BY DEF IInv, Owners
  <2>2. \A u \in Thread : OwnedBy(frame'[u]) = OwnedBy(frame[u])
    BY <1>1
  <2>3. \A u \in Thread : frame'[u].id = frame'[u].saved => frame'[u].id = NOFID
    BY <1>1, OwnersMean
  <2>4. /\ \A u \in Thread : OwnedBy(frame'[u]) \subseteq held' \ {rootId}
        /\ \A u, v \in Thread : u # v => OwnedBy(frame'[u]) \cap OwnedBy(frame'[v]) = {}
        /\ \A u \in Thread, h \in OpenHandles : handle[h].id \notin OwnedBy(frame'[u])
    BY <2>2, OwnersMean
  <2>5. /\ \A h \in OpenHandles : handle[h].id \in held' \ {rootId}
        /\ \A g1, h \in OpenHandles : handle[g1].id = handle[h].id => g1 = h
    BY OwnersMean
  <2> QED
    BY <2>1, <2>3, <2>4, <2>5, OwnersFollow
<1>4. \A id \in DOMAIN server'.fids : id \in DOMAIN server.fids \/ id \in OwnedBy(frame[t])
  BY NoId DEF TouchesOnly, ServerTyped, OwnedBy
<1>5. NoServerLeak'
  <2>1. \A u \in Thread : Owned(u)' = Owned(u) /\ Owned(u) = OwnedBy(frame[u])
    BY <1>1 DEF Owned, OwnedBy
  <2> QED
    BY <1>2, <1>4, <2>1 DEF NoServerLeak, SameHandles, IInv, OpenHandles
<1>6. Unknown'
  BY <1>1, OthersUnknown DEF Unknown
<1>7. HandleIntact'
  <2>1. \A h \in OpenHandles : handle[h].id # frame[t].id
    BY OwnersMean, NoId DEF OwnedBy
  <2> QED
    BY <1>2, <2>1 DEF HandleIntact, IInv, SameHandles, Known, TouchesOnly, OpenHandles
<1> QED
  BY <1>3, <1>5, <1>6, <1>7 DEF Ownership

(* The callback takes a new file ID, or NOFID when there is none.          *)
LEMMA OwnershipTaken ==
  ASSUME IInv, NEW t \in Thread, NEW g \in Frame, frame' = [frame EXCEPT ![t] = g],
         UNCHANGED <<server, rootId>>, SameHandles,
         g.id \notin held, held' = held \cup ({g.id} \ {NOFID}),
         {g.saved} \ {NOFID} = OwnedBy(frame[t])
  PROVE  Ownership'
<1>1. /\ frame'[t] = g /\ \A u \in Thread \ {t} : frame'[u] = frame[u]
      /\ OwnedBy(g) = OwnedBy(frame[t]) \cup ({g.id} \ {NOFID})
  BY DEF IInv, TypeOK, OwnedBy
<1>2. OpenHandles' = OpenHandles
  BY DEF SameHandles, OpenHandles
<1>3. \A u \in Thread : Owned(u) = OwnedBy(frame[u]) /\ Owned(u)' = OwnedBy(frame'[u])
  BY DEF Owned, OwnedBy
<1>4. rootId \in held \cup {NOFID}
  BY DEF IInv, Owners
<1>5. Owners'
  <2>1. \A u \in Thread : OwnedBy(frame'[u]) \subseteq held' \ {rootId}
    BY <1>1, <1>4, OwnersMean, NoId
  <2>2. \A u \in Thread : frame'[u].id = frame'[u].saved => frame'[u].id = NOFID
    BY <1>1, OwnersMean
  <2>3. \A u, v \in Thread : u # v => OwnedBy(frame'[u]) \cap OwnedBy(frame'[v]) = {}
    BY <1>1, OwnersMean
  <2>4. \A u \in Thread, h \in OpenHandles : handle[h].id \notin OwnedBy(frame'[u])
    BY <1>1, OwnersMean
  <2> QED
    BY <1>4, <2>1, <2>2, <2>3, <2>4, OwnersMean, OwnersFollow
<1>6. NoServerLeak'
  BY <1>1, <1>2, <1>3 DEF NoServerLeak, SameHandles, IInv, OpenHandles
<1>7. Unknown'
  BY <1>1, OwnersMean DEF Unknown, IInv, Known
<1>8. HandleIntact'
  BY <1>2 DEF HandleIntact, IInv, SameHandles, Known, OpenHandles
<1> QED
  BY <1>5, <1>6, <1>7, <1>8 DEF Ownership

(* The callback forgets the file ID in work, which the server does not     *)
(* know or no longer knows; the allocator may get it back.                 *)
LEMMA OwnershipDropped ==
  ASSUME IInv, NEW t \in Thread, NEW g \in Frame, frame' = [frame EXCEPT ![t] = g],
         UNCHANGED rootId, SameHandles, held' \in {held, held \ {frame[t].id}},
         ServerTyped(server'), TouchesOnly(server, server', frame[t].id),
         ~Known(server', frame[t].id), g.id = NOFID, g.saved = frame[t].saved
  PROVE  Ownership'
<1>1. /\ frame'[t] = g /\ \A u \in Thread \ {t} : frame'[u] = frame[u]
      /\ OwnedBy(g) = OwnedBy(frame[t]) \ {frame[t].id}
  <2>1. frame[t].id = frame[t].saved => frame[t].id = NOFID
    BY OwnersMean
  <2> QED
    BY <2>1 DEF IInv, TypeOK, OwnedBy
<1>2. OpenHandles' = OpenHandles
  BY DEF SameHandles, OpenHandles
<1>3. \A u \in Thread : Owned(u) = OwnedBy(frame[u]) /\ Owned(u)' = OwnedBy(frame'[u])
  BY DEF Owned, OwnedBy
<1>4. rootId \in held' \cup {NOFID}
  <2>1. rootId \in held \cup {NOFID}
    BY DEF IInv, Owners
  <2>2. frame[t].id # NOFID => frame[t].id # rootId
    BY OwnersMean DEF OwnedBy
  <2> QED
    BY <2>1, <2>2
<1>5. \A h \in OpenHandles : handle[h].id # frame[t].id
  BY OwnersMean, NoId DEF OwnedBy
<1>6. Owners'
  <2>1. \A u \in Thread : OwnedBy(frame'[u]) \subseteq held' \ {rootId}
    <3>1. OwnedBy(g) \subseteq held' \ {rootId}
      BY <1>1, OwnersMean
    <3>2. ASSUME NEW u \in Thread \ {t} PROVE OwnedBy(frame[u]) \subseteq held' \ {rootId}
      <4>1. frame[t].id \notin OwnedBy(frame[u])
        BY OwnersMean DEF OwnedBy
      <4> QED
        BY <4>1, OwnersMean
    <3> QED
      BY <1>1, <3>1, <3>2
  <2>2. \A u \in Thread : frame'[u].id = frame'[u].saved => frame'[u].id = NOFID
    BY <1>1, OwnersMean
  <2>3. ASSUME NEW u \in Thread, NEW v \in Thread, u # v
        PROVE  OwnedBy(frame'[u]) \cap OwnedBy(frame'[v]) = {}
    <3>1. /\ OwnedBy(frame'[u]) \subseteq OwnedBy(frame[u])
          /\ OwnedBy(frame'[v]) \subseteq OwnedBy(frame[v])
      BY <1>1
    <3>2. OwnedBy(frame[u]) \cap OwnedBy(frame[v]) = {}
      BY <2>3, OwnersMean
    <3> QED
      BY <3>1, <3>2
  <2>4. \A u \in Thread, h \in OpenHandles : handle[h].id \notin OwnedBy(frame'[u])
    BY <1>1, OwnersMean
  <2>5. \A h \in OpenHandles : handle[h].id \in held' \ {rootId}
    BY <1>5, OwnersMean
  <2> QED
    BY <1>4, <2>1, <2>2, <2>3, <2>4, <2>5, OwnersMean, OwnersFollow
<1>7. DOMAIN server'.fids \subseteq DOMAIN server.fids \ {frame[t].id}
  BY DEF TouchesOnly, Known
<1>8. NoServerLeak'
  BY <1>1, <1>2, <1>3, <1>7 DEF NoServerLeak, SameHandles, IInv, OpenHandles
<1>9. Unknown'
  BY <1>1, <1>7, NoId DEF Unknown, IInv, Known, ServerTyped
<1>10. HandleIntact'
  BY <1>2, <1>5 DEF HandleIntact, IInv, SameHandles, Known, TouchesOnly, OpenHandles
<1> QED
  BY <1>6, <1>8, <1>9, <1>10 DEF Ownership

----------------------------------------------------------------------------
(* Steps of a callback that leave the handles alone.                       *)

LEMMA InvariantIs == TypeOK /\ Allocator /\ Places /\ Ownership => IInv
  BY DEF IInv, Ownership

(* Handles that are not changed are the same.                              *)
LEMMA HandlesUnchanged == UNCHANGED handle => SameHandles
  BY DEF SameHandles

(* One request, or none, about the file ID in work.                        *)
LEMMA RequestStep ==
  ASSUME IInv, NEW t \in Thread, frame[t].pc # "idle", NEW g, Continues(frame[t], g),
         frame' = [frame EXCEPT ![t] = g], UNCHANGED <<ids, rootId, handle, begun>>,
         Follows(server, server'), TouchesOnly(server, server', frame[t].id),
         g.pc \in {"attach", "walk", "free"} => ~Known(server', g.id),
         {g.id, g.saved} = {frame[t].id, frame[t].saved}, g.id = g.saved => g.id = NOFID
  PROVE  IInv'
<1>1. Allocator'
  BY DEF IInv, Allocator, ids, Ids!TypeOK, Ids!Partition, Ids!Compact
<1>2. Places' /\ frame' \in [Thread -> Frame]
  BY PlacesContinue
<1>3. TypeOK'
  BY <1>1, <1>2, TypesFollow DEF IInv, TypeOK
<1>4. Ownership'
  BY OwnershipKept, HandlesUnchanged DEF Continues, Follows, ids
<1> QED
  BY <1>1, <1>2, <1>3, <1>4, InvariantIs, PTL

(* The server is as typed as the invariant says.                           *)
LEMMA TypedServer ==
  ASSUME IInv
  PROVE  /\ ServerTyped(server) /\ Follows(server, server)
         /\ \A fid : TouchesOnly(server, server, fid)
  BY SameFollows, SameTouches DEF IInv, TypeOK

(* SimpleWalk: a walk that fails leaves an ID that the server does not     *)
(* know, which is freed next.                                              *)
LEMMA SimpleWalkStep == ASSUME IInv, NEW t \in Thread, SimpleWalk(t) PROVE IInv'
<1> DEFINE f == frame[t]
           g(r) == [f EXCEPT !.pc = IF r.error = 0 THEN f.next ELSE "free",
                             !.error = r.error, !.dir = NOFID, !.names = << >>]
<1>1. PICK r \in Walk(server, f.dir, f.id, f.names) :
         server' = r.server /\ frame' = [frame EXCEPT ![t] = g(r)]
  BY DEF SimpleWalk, Set
<1>2. f \in Frame /\ f.pc = "walk" /\ f.next \in AfterWalk /\ IdOfPlace(f) /\ AskedOfPlace(f)
  BY FrameBefore DEF SimpleWalk, IdOfPlace
<1>3. /\ Follows(server, r.server) /\ TouchesOnly(server, r.server, f.id) /\ r.error \in Nat
      /\ r.error # 0 => r.server = server
  <2>1. f.id \in 0 .. NOFID /\ f.names \in Seq(EntryName)
    BY <1>2 DEF Frame
  <2> QED
    BY <2>1, TypedServer, WalkOutcome
<1>4. /\ g(r) \in Frame /\ g(r).pc = IF r.error = 0 THEN f.next ELSE "free"
      /\ g(r).next = f.next /\ g(r).id = f.id /\ g(r).saved = f.saved /\ g(r).error = r.error
      /\ g(r).h = f.h /\ g(r).asked = f.asked /\ g(r).disposition = f.disposition
  <2>1. "free" \in Place /\ << >> \in Seq(EntryName)
    BY EmptySeq DEF Place
  <2> QED
    BY <1>2, <1>3, <2>1, NoId DEF Frame
<1> HIDE DEF g
<1>5. Continues(f, g(r))
  BY <1>2, <1>4, FrameBefore
     DEF Continues, IdOfPlace, AskedOfPlace, Toward, Starting, Opening, Finding,
         AfterWalk, AfterClunk, WithoutId
<1>6. g(r).pc \in {"attach", "walk", "free"} => ~Known(server', g(r).id)
  BY <1>1, <1>2, <1>3, <1>4 DEF IInv, Unknown, AfterWalk
<1>7. f.id = f.saved => f.id = NOFID
  BY OwnersMean
<1> QED
  BY <1>1, <1>2, <1>3, <1>4, <1>5, <1>6, <1>7, RequestStep DEF SimpleWalk

(* A place at which no walk, clunk or free is under way.                   *)
Settled(f) == f.pc \notin {"idle", "attach", "walk", "clunk", "free"}

(* A request, or none, after which the file ID in work is clunked.         *)
LEMMA ClunkStep ==
  ASSUME IInv, NEW t \in Thread, Settled(frame[t]), NEW f \in Frame, NEW next \in AfterClunk,
         frame' = [frame EXCEPT ![t] = Clunks(f, next)], UNCHANGED <<ids, rootId, handle, begun>>,
         f.h = frame[t].h, f.asked = frame[t].asked,
         {f.id, f.saved} = {frame[t].id, frame[t].saved}, f.id = f.saved => f.id = NOFID,
         f.saved # NOFID => next = "clunkOld",
         next \in {"made", "created"} => Opening(frame[t]) /\ f.asked \in Creating,
         next = "findNext" => Finding(frame[t]),
         Follows(server, server'), TouchesOnly(server, server', frame[t].id)
  PROVE  IInv'
<1> DEFINE g == Clunks(f, next)
<1>1. next \in Place
  BY DEF AfterClunk, Place
<1>2. /\ g \in Frame /\ g.pc = "clunk" /\ g.next = next
      /\ g.h = f.h /\ g.id = f.id /\ g.saved = f.saved /\ g.asked = f.asked
  BY <1>1, ClunksFrame
<1> HIDE DEF g
<1>3. Continues(frame[t], g)
  BY <1>2, FrameBefore
     DEF Continues, IdOfPlace, AskedOfPlace, Toward, Starting, Opening, Finding,
         AfterWalk, AfterClunk, WithoutId
<1>4. frame[t].pc # "idle" /\ frame' = [frame EXCEPT ![t] = g]
  BY DEF Settled, g
<1> QED
  BY <1>2, <1>3, <1>4, RequestStep

(* A callback without a file ID returns.                                   *)
LEMMA ReturnStep ==
  ASSUME IInv, NEW t \in Thread, frame[t].pc # "idle", frame[t].id = NOFID, frame[t].saved = NOFID,
         NEW status \in Status, frame' = [frame EXCEPT ![t] = Returns(frame[t], status)],
         UNCHANGED <<ids, server, rootId, handle, begun>>
  PROVE  IInv'
<1> DEFINE g == Returns(frame[t], status)
<1>1. frame[t] \in Frame
  BY FrameBefore
<1>2. /\ g \in Frame /\ g.pc = "return" /\ g.id = NOFID /\ g.saved = NOFID
      /\ g.h = "none" /\ g.asked = frame[t].asked
  BY <1>1, ReturnsFrame
<1> HIDE DEF g
<1>3. Continues(frame[t], g)
  BY <1>2 DEF Continues, IdOfPlace, AskedOfPlace, Toward, Starting, Opening, Finding,
              AfterWalk, AfterClunk, WithoutId
<1>4. frame' = [frame EXCEPT ![t] = g]
  BY DEF g
<1> QED
  BY <1>2, <1>3, <1>4, TypedServer, RequestStep

(* The callback goes on at another place.                                  *)
LEMMA GotoStep ==
  ASSUME IInv, NEW t \in Thread, Settled(frame[t]), NEW f \in Frame, NEW pc \in Place,
         frame' = [frame EXCEPT ![t] = Goto(f, pc)], UNCHANGED <<ids, rootId, handle, begun>>,
         f.h = frame[t].h, f.asked = frame[t].asked, f.disposition = frame[t].disposition,
         f.id = frame[t].id, f.saved = frame[t].saved,
         pc \notin AfterWalk \cup {"idle", "exit", "attach", "walk", "clunk", "free",
                                  "made", "created"},
         pc \in WithoutId => f.id = NOFID,
         f.saved # NOFID => pc = "clunkOld",
         pc \in {"mkdir", "create", "reopen"} => Opening(frame[t]),
         pc \in {"mkdir", "create"} => frame[t].asked \in Creating,
         pc = "reopen" => Toward(frame[t]) \in {"walked", "rewalked", "reopen"},
         pc \in {"readDirectory", "findNext"} => Finding(frame[t]),
         Follows(server, server'), TouchesOnly(server, server', frame[t].id)
  PROVE  IInv'
<1> DEFINE g == Goto(f, pc)
<1>1. /\ g \in Frame /\ g.pc = pc
      /\ g.h = f.h /\ g.id = f.id /\ g.saved = f.saved /\ g.asked = f.asked
      /\ g.disposition = f.disposition
  BY GotoFrame
<1> HIDE DEF g
<1>2. Continues(frame[t], g)
  BY <1>1, FrameBefore
     DEF Continues, IdOfPlace, AskedOfPlace, Toward, Starting, Opening, Finding,
         AfterWalk, AfterClunk, WithoutId
<1>3. frame[t].pc # "idle" /\ frame' = [frame EXCEPT ![t] = g]
  BY DEF Settled, g
<1>4. f.id = f.saved => f.id = NOFID
  BY OwnersMean
<1> QED
  BY <1>1, <1>2, <1>3, <1>4, RequestStep

(* A walk that starts takes a new file ID.                                 *)
LEMMA StartWalkFrame ==
  ASSUME IInv, NEW t \in Thread, NEW f \in Frame, NEW dir \in 0 .. NOFID,
         NEW names \in Seq(EntryName), NEW next \in AfterWalk, StartWalk(t, f, dir, names, next)
  PROVE  /\ Allocator' /\ UNCHANGED <<server, rootId>>
         /\ \E g \in Frame :
               /\ frame' = [frame EXCEPT ![t] = g]
               /\ g.pc = "walk" /\ g.next = next /\ g.saved = f.saved /\ g.h = f.h
               /\ g.asked = f.asked /\ g.disposition = f.disposition
               /\ g.id \notin held /\ held' = held \cup ({g.id} \ {NOFID})
<1>1. PICK id \in 0 .. NOFID :
         /\ Ids!AllocateFileId(id)
         /\ frame' = [frame EXCEPT ![t] = [f EXCEPT !.pc = "walk", !.next = next, !.id = id,
                                                    !.dir = dir, !.names = names]]
  BY DEF StartWalk, Set
<1>2. Allocator' /\ id \notin held /\ held' = held \cup ({id} \ {NOFID})
  <2>1. Allocator
    BY DEF IInv
  <2> QED
    BY <1>1, <2>1, Allocation
<1> DEFINE g == [f EXCEPT !.pc = "walk", !.next = next, !.id = id, !.dir = dir, !.names = names]
<1>3. "walk" \in Place /\ next \in Place
  BY DEF Place, AfterWalk
<1>4. /\ g \in Frame /\ g.pc = "walk" /\ g.next = next /\ g.id = id /\ g.saved = f.saved
      /\ g.h = f.h /\ g.asked = f.asked /\ g.disposition = f.disposition
  BY <1>3 DEF Frame
<1>5. UNCHANGED <<server, rootId>>
  BY DEF StartWalk
<1>6. frame' = [frame EXCEPT ![t] = g]
  BY <1>1
<1> HIDE DEF g
<1> QED
  BY <1>2, <1>4, <1>5, <1>6

(* A callback goes on with a walk.                                         *)
LEMMA WalkStep ==
  ASSUME IInv, NEW t \in Thread, Settled(frame[t]), NEW f \in Frame, NEW dir \in 0 .. NOFID,
         NEW names \in Seq(EntryName), NEW next \in AfterWalk, StartWalk(t, f, dir, names, next),
         UNCHANGED <<handle, begun>>, f.h = frame[t].h, f.asked = frame[t].asked,
         {f.saved} \ {NOFID} = OwnedBy(frame[t]), f.saved # NOFID => next = "newWalked",
         next \in {"mkdirAttributes", "createAttributes", "walked", "rewalked"}
            => Opening(frame[t]),
         next \in {"mkdirAttributes", "createAttributes"} => f.asked \in Creating,
         next \in {"walked", "rewalked"}
            => f.asked \in AnyDisposition /\ f.disposition \in {f.asked, "OPEN"},
         next = "found" => Finding(frame[t])
  PROVE  IInv'
<1>1. Allocator' /\ UNCHANGED <<server, rootId>>
  BY StartWalkFrame
<1>2. PICK g \in Frame :
         /\ frame' = [frame EXCEPT ![t] = g]
         /\ g.pc = "walk" /\ g.next = next /\ g.saved = f.saved /\ g.h = f.h
         /\ g.asked = f.asked /\ g.disposition = f.disposition
         /\ g.id \notin held /\ held' = held \cup ({g.id} \ {NOFID})
  BY StartWalkFrame
<1>3. Continues(frame[t], g)
  BY <1>2, FrameBefore
     DEF Continues, IdOfPlace, AskedOfPlace, Toward, Starting, Opening, Finding,
         AfterWalk, AfterClunk, WithoutId
<1>4. Places' /\ frame' \in [Thread -> Frame]
  <2>1. frame[t].pc # "idle"
    BY DEF Settled
  <2> QED
    BY <1>1, <1>2, <1>3, <2>1, PlacesContinue
<1>5. TypeOK'
  BY <1>1, <1>4, TypedServer, TypesFollow DEF IInv, TypeOK
<1>6. Ownership'
  BY <1>1, <1>2, OwnershipTaken, HandlesUnchanged
<1> QED
  BY <1>1, <1>4, <1>5, <1>6, InvariantIs, PTL

(* A callback begins with a walk.                                          *)
LEMMA WalkBegins ==
  ASSUME IInv, NEW t \in Thread, Begin(t), NEW f \in Frame, NEW dir \in 0 .. NOFID,
         NEW names \in Seq(EntryName), NEW next \in AfterWalk \ {"found"},
         StartWalk(t, f, dir, names, next), UNCHANGED handle,
         f.h \in Handle, ~Busy(f.h), f.saved = NOFID,
         next \in {"mkdirAttributes", "createAttributes", "walked", "rewalked"}
            => ~handle[f.h].open,
         next \in {"mkdirAttributes", "createAttributes"} => f.asked \in Creating,
         next \in {"walked", "rewalked"}
            => f.asked \in AnyDisposition /\ f.disposition \in {f.asked, "OPEN"}
  PROVE  IInv'
<1>1. Allocator' /\ UNCHANGED <<server, rootId>>
  BY StartWalkFrame
<1>2. PICK g \in Frame :
         /\ frame' = [frame EXCEPT ![t] = g]
         /\ g.pc = "walk" /\ g.next = next /\ g.saved = f.saved /\ g.h = f.h
         /\ g.asked = f.asked /\ g.disposition = f.disposition
         /\ g.id \notin held /\ held' = held \cup ({g.id} \ {NOFID})
  BY StartWalkFrame
<1>3. IdOfPlace(g) /\ AskedOfPlace(g) /\ ~Starting(g) /\ ~Finding(g)
  <2>1. Toward(g) = next
    BY <1>2 DEF Toward
  <2>2. IdOfPlace(g)
    BY <1>2 DEF IdOfPlace, AfterWalk, AfterClunk, WithoutId
  <2>3. AskedOfPlace(g)
    BY <1>2, <2>1 DEF AskedOfPlace, AfterWalk
  <2>4. ~Starting(g) /\ ~Finding(g)
    BY <1>2, <2>1 DEF Starting, Finding, AfterWalk
  <2> QED
    BY <2>2, <2>3, <2>4
<1>4. Opening(g) => ~handle[f.h].open
  <2>1. Toward(g) = next
    BY <1>2 DEF Toward
  <2> QED
    BY <2>1 DEF Opening, AfterWalk
<1>5. Places' /\ frame' \in [Thread -> Frame]
  <2>1. frame[t].pc = "idle" /\ rootId # NOFID /\ begun' = begun + 1
    BY DEF Begin
  <2>2. /\ g.h = "none" \/ (g.h \in Handle /\ ~Busy(g.h))
        /\ Opening(g) => g.h \in Handle /\ ~Busy(g.h) /\ ~handle'[g.h].open
        /\ g.pc # "idle"
    BY <1>2, <1>4
  <2> QED
    BY <1>1, <1>2, <1>3, <2>1, <2>2, PlacesBegin
<1>6. begun' \in Nat
  BY DEF Begin, IInv, TypeOK
<1>7. TypeOK'
  BY <1>1, <1>5, <1>6, TypedServer, TypesFollow DEF IInv, TypeOK
<1>8. OwnedBy(frame[t]) = {}
  BY FrameBefore DEF Begin, IdOfPlace, OwnedBy, WithoutId, Toward
<1>9. Ownership'
  BY <1>1, <1>2, <1>8, OwnershipTaken, HandlesUnchanged
<1> QED
  BY <1>1, <1>5, <1>7, <1>9, InvariantIs, PTL

----------------------------------------------------------------------------
(* The actions.                                                            *)

(* The ID in work is forgotten.                                            *)
LEMMA DropStep ==
  ASSUME IInv, NEW t \in Thread, frame[t].pc \in {"clunk", "free"},
         frame' = [frame EXCEPT ![t] = [frame[t] EXCEPT !.pc = frame[t].next, !.id = NOFID]],
         Allocator', held' \in {held, held \ {frame[t].id}}, UNCHANGED <<rootId, handle, begun>>,
         Follows(server, server'), TouchesOnly(server, server', frame[t].id),
         ~Known(server', frame[t].id)
  PROVE  IInv'
<1> DEFINE f == frame[t]
           g == [f EXCEPT !.pc = f.next, !.id = NOFID]
<1>1. /\ f \in Frame /\ IdOfPlace(f) /\ AskedOfPlace(f)
      /\ f.next \in AfterWalk \cup AfterClunk \cup {"exit"}
      /\ f.next \in AfterWalk => f.error # 0
  <2>1. f \in Frame /\ IdOfPlace(f) /\ AskedOfPlace(f)
    BY FrameBefore
  <2> QED
    BY <2>1 DEF IdOfPlace, AfterWalk, AfterClunk
<1>2. /\ g \in Frame /\ g.pc = f.next /\ g.id = NOFID /\ g.saved = f.saved /\ g.h = f.h
      /\ g.asked = f.asked /\ g.disposition = f.disposition /\ g.error = f.error
  BY <1>1, NoId DEF Frame
<1>3. frame' = [frame EXCEPT ![t] = g]
  OBVIOUS
<1> HIDE DEF g
<1>4. Continues(f, g)
  <2>1. Toward(f) = f.next /\ Toward(g) = f.next
    BY <1>1, <1>2 DEF Toward, AfterWalk, AfterClunk
  <2>2. IdOfPlace(g) /\ AskedOfPlace(g)
    BY <1>1, <1>2, <2>1 DEF IdOfPlace, AskedOfPlace, AfterWalk, AfterClunk, WithoutId
  <2>3. /\ Starting(g) => Starting(f)
        /\ Opening(g) => Opening(f)
        /\ Finding(g) => Finding(f)
        /\ g.pc # "idle"
    BY <1>1, <1>2, <2>1 DEF Starting, Opening, Finding, AfterWalk, AfterClunk
  <2> QED
    BY <1>2, <2>2, <2>3, FrameBefore DEF Continues
<1>5. Places' /\ frame' \in [Thread -> Frame]
  BY <1>3, <1>4, PlacesContinue
<1>6. TypeOK'
  BY <1>5, TypesFollow DEF IInv, TypeOK
<1>7. Ownership'
  BY <1>2, <1>3, OwnershipDropped, HandlesUnchanged DEF Follows
<1> QED
  BY <1>5, <1>6, <1>7, InvariantIs, PTL

(* The ID of a walk that failed is given back; the server does not know    *)
(* it.                                                                     *)
LEMMA FreeIdStep == ASSUME IInv, NEW t \in Thread, FreeId(t) PROVE IInv'
<1>1. frame[t].id \in held \cup {NOFID}
  BY OwnersMean DEF OwnedBy
<1>2. Allocator' /\ held' = held \ {frame[t].id}
  BY <1>1, Freeing DEF IInv, FreeId
<1>3. ~Known(server', frame[t].id)
  BY DEF FreeId, IInv, Unknown
<1> QED
  BY <1>2, <1>3, TypedServer, DropStep DEF FreeId, Set

(* SimpleClunk: the server no longer knows the ID, which is given back if  *)
(* the answer was a success and owned by nobody otherwise.                 *)
LEMMA SimpleClunkStep == ASSUME IInv, NEW t \in Thread, SimpleClunk(t) PROVE IInv'
<1> DEFINE f == frame[t]
<1>1. PICK r \in Clunk(server, f.id) :
         /\ server' = r.server
         /\ Set(t, IF r.error = 0 THEN Goto(f, "free")
                   ELSE [f EXCEPT !.pc = f.next, !.id = NOFID])
  BY DEF SimpleClunk
<1>2. /\ Follows(server, server') /\ TouchesOnly(server, server', f.id)
      /\ ~Known(server', f.id)
  BY <1>1, TypedServer, ClunkOutcome
<1>3. f \in Frame /\ f.pc = "clunk" /\ UNCHANGED <<ids, rootId, handle, begun>>
  BY FrameBefore DEF SimpleClunk
<1>4. CASE r.error = 0
  <2> DEFINE g == Goto(f, "free")
  <2>1. "free" \in Place
    BY DEF Place
  <2>2. /\ g \in Frame /\ g.pc = "free" /\ g.next = f.next
        /\ g.h = f.h /\ g.id = f.id /\ g.saved = f.saved /\ g.error = f.error
        /\ g.asked = f.asked /\ g.disposition = f.disposition
    BY <1>3, <2>1, GotoFrame
  <2>3. frame' = [frame EXCEPT ![t] = g]
    BY <1>1, <1>4 DEF Set
  <2> HIDE DEF g
  <2>4. Continues(f, g)
    BY <1>3, <2>2, FrameBefore
       DEF Continues, IdOfPlace, AskedOfPlace, Toward, Starting, Opening, Finding,
           AfterWalk, AfterClunk, WithoutId
  <2>5. f.id = f.saved => f.id = NOFID
    BY OwnersMean
  <2> QED
    BY <1>2, <1>3, <2>2, <2>3, <2>4, <2>5, RequestStep
<1>5. CASE r.error # 0
  <2>1. Allocator'
    BY <1>3 DEF IInv, Allocator, ids, Ids!TypeOK, Ids!Partition, Ids!Compact
  <2> QED
    BY <1>1, <1>2, <1>3, <1>5, <2>1, DropStep DEF Set, ids
<1> QED
  BY <1>4, <1>5

(* An error is noted and nothing else changes.                             *)
LEMMA ErrorFrame ==
  ASSUME NEW f \in Frame, NEW error \in Nat
  PROVE  LET g == [f EXCEPT !.error = error]
         IN  g \in Frame /\ g.h = f.h /\ g.id = f.id /\ g.saved = f.saved /\ g.asked = f.asked
  BY DEF Frame

(* A status is noted and nothing else changes.                             *)
LEMMA StatusFrame ==
  ASSUME NEW f \in Frame, NEW status \in Status
  PROVE  LET g == [f EXCEPT !.status = status]
         IN  /\ g \in Frame /\ g.h = f.h /\ g.id = f.id /\ g.saved = f.saved /\ g.asked = f.asked
             /\ g.disposition = f.disposition
  BY DEF Frame

(* A walk to the parent that failed ends the callback; a request for its   *)
(* group that fails clunks it first.                                       *)
LEMMA ParentAttributesStep == ASSUME IInv, NEW t \in Thread, ParentAttributes(t) PROVE IInv'
<1> DEFINE f == frame[t]
           does == IF f.pc = "mkdirAttributes" THEN "mkdir" ELSE "create"
           done == IF f.pc = "mkdirAttributes" THEN "made" ELSE "created"
<1>1. /\ f \in Frame /\ f.pc \in {"mkdirAttributes", "createAttributes"}
      /\ UNCHANGED <<ids, rootId, handle, begun>>
  BY FrameBefore DEF ParentAttributes
<1>2. f.saved = NOFID /\ (f.error # 0 => f.id = NOFID) /\ Settled(f) /\ Opening(f)
      /\ f.asked \in Creating
  BY <1>1, FrameBefore DEF IdOfPlace, AskedOfPlace, Toward, AfterWalk, Settled, Opening
<1>3. CASE f.error # 0
  <2>1. Set(t, Returns(f, ToNtStatus(f.error))) /\ UNCHANGED server
    BY <1>3 DEF ParentAttributes
  <2> QED
    BY <1>1, <1>2, <1>3, <2>1, Statuses, ReturnStep DEF Set, Settled
<1>4. CASE f.error = 0
  <2>1. PICK r \in GetAttributes(server, f.id) :
           /\ server' = r.server
           /\ Set(t, IF r.error = 0 THEN Goto(f, does)
                     ELSE Clunks([f EXCEPT !.error = r.error], done))
    BY <1>4 DEF ParentAttributes
  <2>2. server' = server /\ r.error \in Nat
    BY <2>1, GetAttributesOutcome
  <2>3. Follows(server, server') /\ TouchesOnly(server, server', f.id)
    BY <2>2, TypedServer
  <2>4. CASE r.error = 0
    <3>1. does \in Place /\ does \in {"mkdir", "create"}
      BY DEF Place
    <3>2. frame' = [frame EXCEPT ![t] = Goto(f, does)]
      BY <2>1, <2>4 DEF Set
    <3> HIDE DEF does
    <3>3. /\ does \notin AfterWalk \cup {"idle", "exit", "attach", "walk", "clunk", "free",
                                      "made", "created"}
          /\ does \notin WithoutId
      BY <3>1 DEF AfterWalk, WithoutId, AfterClunk
    <3> QED
      BY <1>1, <1>2, <2>3, <3>1, <3>2, <3>3, GotoStep
  <2>5. CASE r.error # 0
    <3> DEFINE g == [f EXCEPT !.error = r.error]
    <3>1. g \in Frame /\ g.h = f.h /\ g.id = f.id /\ g.saved = f.saved /\ g.asked = f.asked
      BY <1>1, <2>2, ErrorFrame
    <3>2. frame' = [frame EXCEPT ![t] = Clunks(g, done)]
      BY <2>1, <2>5 DEF Set
    <3>3. done \in AfterClunk /\ done # "findNext"
      BY DEF AfterClunk
    <3> HIDE DEF g, done
    <3> QED
      BY <1>1, <1>2, <2>3, <3>1, <3>2, <3>3, ClunkStep
  <2> QED
    BY <2>4, <2>5
<1> QED
  BY <1>3, <1>4

(* SimpleMakeDirectory: the ID of the parent is still in work.             *)
LEMMA SimpleMakeDirectoryStep ==
  ASSUME IInv, NEW t \in Thread, SimpleMakeDirectory(t) PROVE IInv'
<1> DEFINE f == frame[t]
<1>1. PICK r \in MakeDirectory(server, f.id, Name(f.path)) :
         server' = r.server /\ Set(t, Clunks([f EXCEPT !.error = r.error], "made"))
  BY DEF SimpleMakeDirectory
<1>2. Name(f.path) \in EntryName
  <2>1. f.path \in Seq(FileName)
    BY FrameBefore DEF Frame
  <2> QED
    BY <2>1, Paths
<1>3. Follows(server, server') /\ server'.fids = server.fids /\ r.error \in Nat
  BY <1>1, <1>2, TypedServer, MakeDirectoryOutcome
<1>4. TouchesOnly(server, server', f.id)
  BY <1>3 DEF TouchesOnly
<1> DEFINE g == [f EXCEPT !.error = r.error]
<1>5. f \in Frame /\ IdOfPlace(f) /\ AskedOfPlace(f) /\ f.pc = "mkdir"
  BY FrameBefore DEF SimpleMakeDirectory
<1>6. f.saved = NOFID /\ Settled(f) /\ Opening(f) /\ f.asked \in Creating
  BY <1>5 DEF IdOfPlace, AskedOfPlace, Toward, Settled, Opening
<1>7. g \in Frame /\ g.h = f.h /\ g.id = f.id /\ g.saved = f.saved /\ g.asked = f.asked
  BY <1>3, <1>5, ErrorFrame
<1>8. frame' = [frame EXCEPT ![t] = Clunks(g, "made")]
  BY <1>1 DEF Set
<1>9. "made" \in AfterClunk /\ UNCHANGED <<ids, rootId, handle, begun>>
  BY DEF AfterClunk, SimpleMakeDirectory
<1> HIDE DEF g
<1> QED
  BY <1>3, <1>4, <1>6, <1>7, <1>8, <1>9, ClunkStep

(* SimpleLinuxCreate: the ID denotes the new file after a success, and is  *)
(* clunked in either case.                                                 *)
LEMMA SimpleLinuxCreateStep == ASSUME IInv, NEW t \in Thread, SimpleLinuxCreate(t) PROVE IInv'
<1> DEFINE f == frame[t]
<1>1. PICK r \in LinuxCreate(server, f.id, Name(f.path), f.write) :
         server' = r.server /\ Set(t, Clunks([f EXCEPT !.error = r.error], "created"))
  BY DEF SimpleLinuxCreate
<1>2. f.path \in Seq(FileName) /\ f.write \in BOOLEAN
  BY FrameBefore DEF Frame
<1>3. Name(f.path) \in EntryName
  BY <1>2, Paths
<1>4. Follows(server, server') /\ TouchesOnly(server, server', f.id) /\ r.error \in Nat
  BY <1>1, <1>2, <1>3, TypedServer, LinuxCreateOutcome
<1> DEFINE g == [f EXCEPT !.error = r.error]
<1>5. f \in Frame /\ IdOfPlace(f) /\ AskedOfPlace(f) /\ f.pc = "create"
  BY FrameBefore DEF SimpleLinuxCreate
<1>6. f.saved = NOFID /\ Settled(f) /\ Opening(f) /\ f.asked \in Creating
  BY <1>5 DEF IdOfPlace, AskedOfPlace, Toward, Settled, Opening
<1>7. g \in Frame /\ g.h = f.h /\ g.id = f.id /\ g.saved = f.saved /\ g.asked = f.asked
  BY <1>4, <1>5, ErrorFrame
<1>8. frame' = [frame EXCEPT ![t] = Clunks(g, "created")]
  BY <1>1 DEF Set
<1>9. "created" \in AfterClunk /\ UNCHANGED <<ids, rootId, handle, begun>>
  BY DEF AfterClunk, SimpleLinuxCreate
<1> HIDE DEF g
<1> QED
  BY <1>4, <1>6, <1>7, <1>8, <1>9, ClunkStep

(* The ID of the root is an ID.                                            *)
LEMMA RootIdType == ASSUME IInv PROVE rootId \in 0 .. NOFID
  BY DEF IInv, TypeOK

(* What was made is walked to with a new ID, unless the making failed.     *)
LEMMA MadeOrCreatedStep == ASSUME IInv, NEW t \in Thread, MadeOrCreated(t) PROVE IInv'
<1> DEFINE f == frame[t]
           g == [f EXCEPT !.disposition = "OPEN"]
           next == IF f.pc = "made" THEN "walked" ELSE "rewalked"
<1>1. /\ f \in Frame /\ IdOfPlace(f) /\ AskedOfPlace(f) /\ f.pc \in {"made", "created"}
      /\ UNCHANGED <<handle, begun>>
  BY FrameBefore DEF MadeOrCreated
<1>2. f.id = NOFID /\ f.saved = NOFID /\ Settled(f) /\ Opening(f)
  BY <1>1 DEF IdOfPlace, Toward, Settled, Opening, WithoutId, AfterClunk
<1>3. CASE f.error # 0
  <2>1. Set(t, Returns(f, ToNtStatus(f.error))) /\ UNCHANGED <<ids, server, rootId>>
    BY <1>3 DEF MadeOrCreated
  <2> QED
    BY <1>1, <1>2, <2>1, Statuses, ReturnStep DEF Set
<1>4. CASE f.error = 0
  <2>1. StartWalk(t, g, rootId, f.path, next)
    BY <1>4 DEF MadeOrCreated
  <2>2. f.path \in Seq(EntryName)
    BY <1>1, Paths DEF Frame
  <2>3. next \in {"walked", "rewalked"} /\ next \in AfterWalk
    BY DEF AfterWalk
  <2>4. /\ g \in Frame /\ g.h = f.h /\ g.asked = f.asked /\ g.saved = f.saved
        /\ g.disposition = "OPEN"
    <3>1. "OPEN" \in AnyDisposition
      BY DEF AnyDisposition
    <3> QED
      BY <1>1, <3>1 DEF Frame
  <2>5. g.asked \in AnyDisposition
    BY <1>1, <2>4 DEF AskedOfPlace, Toward, Creating, AnyDisposition
  <2>6. {g.saved} \ {NOFID} = OwnedBy(f)
    BY <1>2, <2>4 DEF OwnedBy
  <2> HIDE DEF g, next
  <2> QED
    BY <1>1, <1>2, <2>1, <2>2, <2>3, <2>4, <2>5, <2>6, RootIdType, WalkStep
<1> QED
  BY <1>3, <1>4

(* A walk that failed leaves nothing in work: the callback returns, or     *)
(* walks to the parent.                                                    *)
LEMMA NotWalkedStep == ASSUME IInv, NEW t \in Thread, NotWalked(t) PROVE IInv'
<1> DEFINE f == frame[t]
           creates == f.pc = "walked" /\ f.option # "directory"
                                      /\ f.disposition \notin {"OPEN", "OVERWRITE"}
           status == IF f.pc = "rewalked" THEN ToNtStatus(f.error)
                     ELSE IF f.option = "directory" THEN "INVALID_PARAMETER"
                     ELSE "OBJECT_NAME_NOT_FOUND"
<1>1. /\ f \in Frame /\ IdOfPlace(f) /\ AskedOfPlace(f) /\ f.pc \in {"walked", "rewalked"}
      /\ f.error # 0 /\ UNCHANGED <<handle, begun>>
  BY FrameBefore DEF NotWalked
<1>2. f.id = NOFID /\ f.saved = NOFID /\ Settled(f) /\ Opening(f)
  BY <1>1 DEF IdOfPlace, Toward, Settled, Opening, WithoutId, AfterWalk
<1>3. f.asked \in AnyDisposition /\ f.disposition \in {f.asked, "OPEN"}
  BY <1>1 DEF AskedOfPlace, Toward
<1>4. CASE creates
  <2>1. StartWalk(t, f, rootId, Parent(f.path), "createAttributes")
    BY <1>4 DEF NotWalked
  <2>2. Parent(f.path) \in Seq(EntryName)
    BY <1>1, Paths DEF Frame
  <2>3. "createAttributes" \in AfterWalk
    BY DEF AfterWalk
  <2>4. f.asked \in Creating
    BY <1>3, <1>4 DEF AnyDisposition, Creating
  <2>5. {f.saved} \ {NOFID} = OwnedBy(f)
    BY <1>2 DEF OwnedBy
  <2> QED
    BY <1>1, <1>2, <1>3, <2>1, <2>2, <2>3, <2>4, <2>5, RootIdType, WalkStep
<1>5. CASE ~creates
  <2>1. Set(t, Returns(f, status)) /\ UNCHANGED <<ids, server, rootId>>
    BY <1>5 DEF NotWalked
  <2>2. status \in Status
    BY Statuses DEF Status
  <2> HIDE DEF status
  <2> QED
    BY <1>1, <1>2, <2>1, <2>2, ReturnStep DEF Set
<1> QED
  BY <1>4, <1>5

(* MoveFile keeps the ID of the old parent while it walks to the new one.  *)
LEMMA OldWalkedStep == ASSUME IInv, NEW t \in Thread, OldWalked(t) PROVE IInv'
<1> DEFINE f == frame[t]
           g == [f EXCEPT !.saved = f.id]
<1>1. f \in Frame /\ IdOfPlace(f) /\ f.pc = "oldWalked" /\ UNCHANGED <<handle, begun>>
  BY FrameBefore DEF OldWalked
<1>2. f.saved = NOFID /\ Settled(f) /\ (f.error # 0 => f.id = NOFID)
  BY <1>1 DEF IdOfPlace, Toward, Settled, AfterWalk
<1>3. CASE f.error # 0
  <2>1. Set(t, Returns(f, ToNtStatus(f.error))) /\ UNCHANGED <<ids, server, rootId>>
    BY <1>3 DEF OldWalked
  <2> QED
    BY <1>1, <1>2, <1>3, <2>1, Statuses, ReturnStep DEF Set
<1>4. CASE f.error = 0
  <2>1. StartWalk(t, g, rootId, Parent(f.newPath), "newWalked")
    BY <1>4 DEF OldWalked
  <2>2. Parent(f.newPath) \in Seq(EntryName)
    BY <1>1, Paths DEF Frame
  <2>3. "newWalked" \in AfterWalk
    BY DEF AfterWalk
  <2>4. g \in Frame /\ g.h = f.h /\ g.asked = f.asked /\ g.saved = f.id
    BY <1>1 DEF Frame
  <2>5. {g.saved} \ {NOFID} = OwnedBy(f)
    BY <1>2, <2>4 DEF OwnedBy
  <2> HIDE DEF g
  <2> QED
    BY <1>1, <1>2, <2>1, <2>2, <2>3, <2>4, <2>5, RootIdType, WalkStep
<1> QED
  BY <1>3, <1>4

(* ZwCreateFile takes a handle that is not open and that no other callback *)
(* has.                                                                    *)
LEMMA ZwCreateFileStep == ASSUME IInv, NEW t \in Thread, ZwCreateFile(t) PROVE IInv'
<1>1. PICK h \in Handle, path \in Path, disposition \in Disposition,
           option \in Option, write \in Access :
         LET f == [Idle EXCEPT !.h = h, !.path = path, !.asked = disposition,
                               !.disposition = disposition, !.option = option, !.write = write]
         IN  /\ ~handle[h].open /\ ~Busy(h)
             /\ IF option = "directory" /\ disposition \in {"CREATE", "OPEN_IF"}
                THEN StartWalk(t, f, rootId, Parent(path), "mkdirAttributes")
                ELSE StartWalk(t, f, rootId, path, "walked")
  BY DEF ZwCreateFile
<1> DEFINE f == [Idle EXCEPT !.h = h, !.path = path, !.asked = disposition,
                             !.disposition = disposition, !.option = option, !.write = write]
<1>2. /\ f \in Frame /\ f.h = h /\ f.asked = disposition /\ f.disposition = disposition
      /\ f.saved = NOFID
  <2>1. /\ path \in Seq(FileName) /\ disposition \in AnyDisposition /\ option \in AnyOption
        /\ write \in BOOLEAN
    OBVIOUS
  <2>2. Idle.saved = NOFID
    BY DEF Idle
  <2>3. f \in Frame
    BY <2>1, IdleFrame DEF Frame
  <2>4. f.h = h /\ f.asked = disposition /\ f.disposition = disposition /\ f.saved = Idle.saved
    BY DEF Idle
  <2> QED
    BY <2>2, <2>3, <2>4
<1>3. path \in Seq(EntryName) /\ Parent(path) \in Seq(EntryName) /\ disposition \in AnyDisposition
  <2>1. path \in Seq(FileName)
    OBVIOUS
  <2> QED
    BY <2>1, Paths
<1>4. "mkdirAttributes" \in AfterWalk \ {"found"} /\ "walked" \in AfterWalk \ {"found"}
  BY DEF AfterWalk
<1>5. Begin(t) /\ UNCHANGED handle /\ ~handle[h].open /\ ~Busy(h)
  BY <1>1 DEF ZwCreateFile
<1>6. \/ /\ disposition \in {"CREATE", "OPEN_IF"}
         /\ StartWalk(t, f, rootId, Parent(path), "mkdirAttributes")
      \/ StartWalk(t, f, rootId, path, "walked")
  BY <1>1
<1> HIDE DEF f
<1>7. CASE /\ disposition \in {"CREATE", "OPEN_IF"}
           /\ StartWalk(t, f, rootId, Parent(path), "mkdirAttributes")
  <2>1. f.asked \in Creating
    BY <1>2, <1>7 DEF Creating
  <2> QED
    BY <1>2, <1>3, <1>4, <1>5, <1>7, <2>1, RootIdType, WalkBegins
<1>8. CASE StartWalk(t, f, rootId, path, "walked")
  BY <1>2, <1>3, <1>4, <1>5, <1>8, RootIdType, WalkBegins
<1> QED
  BY <1>6, <1>7, <1>8

(* MoveFile begins with a walk to the parent of the old name.              *)
LEMMA MoveFileStep == ASSUME IInv, NEW t \in Thread, NEW h \in Handle, MoveFile(t, h) PROVE IInv'
<1>1. PICK newPath \in Path :
         StartWalk(t, [Idle EXCEPT !.h = h, !.path = handle[h].path, !.newPath = newPath],
                   rootId, Parent(handle[h].path), "oldWalked")
  BY DEF MoveFile
<1> DEFINE f == [Idle EXCEPT !.h = h, !.path = handle[h].path, !.newPath = newPath]
<1>2. handle[h].path \in Seq(FileName) /\ newPath \in Seq(FileName)
  BY DEF IInv, TypeOK, HandleType
<1>3. f \in Frame /\ f.h = h /\ f.saved = NOFID
  <2>1. Idle.saved = NOFID
    BY DEF Idle
  <2> QED
    BY <1>2, <2>1, IdleFrame DEF Frame
<1>4. Parent(handle[h].path) \in Seq(EntryName)
  BY <1>2, Paths
<1>5. "oldWalked" \in AfterWalk \ {"found"}
  BY DEF AfterWalk
<1>6. Begin(t) /\ UNCHANGED handle /\ ~Busy(h)
  BY DEF MoveFile
<1>7. StartWalk(t, f, rootId, Parent(handle[h].path), "oldWalked")
  BY <1>1
<1> HIDE DEF f
<1> QED
  BY <1>3, <1>4, <1>5, <1>6, <1>7, RootIdType, WalkBegins

(* MoveFile goes on to clunk the ID that it kept.                          *)
LEMMA ClunkOldStep == ASSUME IInv, NEW t \in Thread, ClunkOld(t) PROVE IInv'
<1> DEFINE f == frame[t]
           g == [f EXCEPT !.id = f.saved, !.saved = NOFID]
<1>1. /\ f \in Frame /\ IdOfPlace(f) /\ f.pc = "clunkOld"
      /\ UNCHANGED <<ids, server, rootId, handle, begun>>
  BY FrameBefore DEF ClunkOld
<1>2. f.id = NOFID /\ Settled(f)
  BY <1>1 DEF IdOfPlace, Settled, WithoutId, AfterClunk
<1>3. g \in Frame /\ g.id = f.saved /\ g.saved = NOFID /\ g.h = f.h /\ g.asked = f.asked
  BY <1>1, NoId DEF Frame
<1>4. frame' = [frame EXCEPT ![t] = Clunks(g, "return")] /\ "return" \in AfterClunk
  BY DEF ClunkOld, Set, AfterClunk
<1>5. {g.id, g.saved} = {f.id, f.saved}
  BY <1>2, <1>3
<1> HIDE DEF g
<1> QED
  BY <1>1, <1>2, <1>3, <1>4, <1>5, TypedServer, ClunkStep

(* FindFiles reads on under the ID of its handle, which is not in work.    *)
LEMMA ReadEntriesStep == ASSUME IInv, NEW t \in Thread, ReadEntries(t) PROVE IInv'
<1> DEFINE f == frame[t]
           id == handle[f.h].id
           todo(r) == {At(server, o).name : o \in Listed(server, id, f.lastOffset, r.last)}
<1>1. /\ f \in Frame /\ IdOfPlace(f) /\ f.pc = "readDirectory" /\ f.lastOffset \in Nat
      /\ UNCHANGED <<ids, server, rootId, handle, begun>>
  BY FrameBefore DEF ReadEntries, Frame
<1>2. f.id = NOFID /\ f.saved = NOFID /\ Settled(f) /\ Finding(f)
  BY <1>1 DEF IdOfPlace, Toward, Settled, Finding, WithoutId
<1>3. PICK r \in ReadDirectory(server, id, f.lastOffset) :
         Set(t, IF r.error # 0 THEN Returns(f, ToNtStatus(r.error))
                ELSE [f EXCEPT !.pc = "findNext", !.lastOffset = r.last, !.todo = todo(r)])
  BY DEF ReadEntries
<1>4. CASE r.error # 0
  <2>1. frame' = [frame EXCEPT ![t] = Returns(f, ToNtStatus(r.error))]
    BY <1>3, <1>4 DEF Set
  <2> QED
    BY <1>1, <1>2, <2>1, Statuses, ReturnStep
<1>5. CASE r.error = 0
  <2> DEFINE g == [f EXCEPT !.lastOffset = r.last, !.todo = todo(r)]
  <2>1. r.last \in Nat
    BY <1>1, <1>3, <1>5, TypedServer, ReadDirectoryOutcome
  <2>2. todo(r) \subseteq EntryName
    BY TypedServer, TypedObjects DEF Listed, Children, ObjectType
  <2> HIDE DEF todo
  <2>3. /\ g \in Frame /\ g.h = f.h /\ g.id = f.id /\ g.saved = f.saved /\ g.asked = f.asked
        /\ g.disposition = f.disposition
    BY <1>1, <2>1, <2>2 DEF Frame
  <2>4. Goto(g, "findNext") = [f EXCEPT !.pc = "findNext", !.lastOffset = r.last, !.todo = todo(r)]
    BY <1>1 DEF Goto, Frame
  <2>5. frame' = [frame EXCEPT ![t] = Goto(g, "findNext")]
    BY <1>3, <1>5, <2>4 DEF Set
  <2>6. "findNext" \in Place
    BY DEF Place
  <2>7. "findNext" \notin AfterWalk \cup {"idle", "exit", "attach", "walk", "clunk", "free",
                                          "made", "created"}
    BY DEF AfterWalk
  <2> HIDE DEF g
  <2> QED
    BY <1>1, <1>2, <2>3, <2>5, <2>6, <2>7, TypedServer, GotoStep
<1> QED
  BY <1>4, <1>5

(* FindFiles walks to the next entry, or goes on with the next reply.      *)
LEMMA FindNextStep == ASSUME IInv, NEW t \in Thread, FindNext(t) PROVE IInv'
<1> DEFINE f == frame[t]
<1>1. f \in Frame /\ IdOfPlace(f) /\ f.pc = "findNext" /\ UNCHANGED <<handle, begun>>
  BY FrameBefore DEF FindNext
<1>2. f.id = NOFID /\ f.saved = NOFID /\ Settled(f) /\ Finding(f) /\ f.h \in Handle
  BY <1>1, FrameBefore DEF IdOfPlace, Toward, Settled, Finding, WithoutId, AfterClunk
<1>3. CASE f.todo = {}
  <2>1. Set(t, AfterEntries(f)) /\ UNCHANGED <<ids, server, rootId>>
    BY <1>3 DEF FindNext
  <2>2. CASE f.lastOffset = 0
    <3>1. frame' = [frame EXCEPT ![t] = Returns(f, "SUCCESS")]
      BY <2>1, <2>2 DEF AfterEntries, Set
    <3>2. "SUCCESS" \in Status
      BY DEF Status
    <3> QED
      BY <1>1, <1>2, <2>1, <3>1, <3>2, ReturnStep
  <2>3. CASE f.lastOffset # 0
    <3>1. frame' = [frame EXCEPT ![t] = Goto(f, "readDirectory")]
      BY <2>1, <2>3 DEF AfterEntries, Set
    <3>2. "readDirectory" \in Place
      BY DEF Place
    <3>3. "readDirectory" \notin AfterWalk \cup {"idle", "exit", "attach", "walk", "clunk", "free",
                                                 "made", "created"}
      BY DEF AfterWalk
    <3> QED
      BY <1>1, <1>2, <2>1, <3>1, <3>2, <3>3, TypedServer, GotoStep
  <2> QED
    BY <2>2, <2>3
<1>4. CASE f.todo # {}
  <2>1. PICK name \in f.todo :
           StartWalk(t, [f EXCEPT !.todo = f.todo \ {name}], handle[f.h].id, <<name>>, "found")
    BY <1>4 DEF FindNext
  <2> DEFINE g == [f EXCEPT !.todo = f.todo \ {name}]
  <2>2. f.todo \subseteq EntryName
    BY <1>1 DEF Frame
  <2>3. g \in Frame /\ g.h = f.h /\ g.saved = f.saved /\ g.asked = f.asked
    BY <1>1, <2>2 DEF Frame
  <2>4. <<name>> \in Seq(EntryName)
    BY <2>2
  <2>5. handle[f.h].id \in 0 .. NOFID
    BY <1>2 DEF IInv, TypeOK, HandleType
  <2>6. {g.saved} \ {NOFID} = OwnedBy(f)
    BY <1>2, <2>3 DEF OwnedBy
  <2>7. "found" \in AfterWalk
    BY DEF AfterWalk
  <2>8. StartWalk(t, g, handle[f.h].id, <<name>>, "found")
    BY <2>1
  <2> HIDE DEF g
  <2> QED
    BY <1>1, <1>2, <2>3, <2>4, <2>5, <2>6, <2>7, <2>8, WalkStep
<1> QED
  BY <1>3, <1>4

(* FindFiles asks about an entry and clunks its ID, whatever the answer.   *)
LEMMA FoundStep == ASSUME IInv, NEW t \in Thread, Found(t) PROVE IInv'
<1> DEFINE f == frame[t]
<1>1. /\ f \in Frame /\ IdOfPlace(f) /\ f.pc = "found"
      /\ UNCHANGED <<ids, rootId, handle, begun>>
  BY FrameBefore DEF Found
<1>2. f.saved = NOFID /\ Settled(f) /\ Finding(f) /\ (f.error # 0 => f.id = NOFID)
  BY <1>1 DEF IdOfPlace, Toward, Settled, Finding, AfterWalk
<1>3. CASE f.error # 0
  <2>1. frame' = [frame EXCEPT ![t] = Goto(f, "findNext")] /\ UNCHANGED server
    BY <1>3 DEF Found, Set
  <2>2. "findNext" \in Place
    BY DEF Place
  <2>3. "findNext" \notin AfterWalk \cup {"idle", "exit", "attach", "walk", "clunk", "free",
                                          "made", "created"}
    BY DEF AfterWalk
  <2> QED
    BY <1>1, <1>2, <1>3, <2>1, <2>2, <2>3, TypedServer, GotoStep
<1>4. CASE f.error = 0
  <2>1. frame' = [frame EXCEPT ![t] = Clunks(f, "findNext")] /\ UNCHANGED server
    BY <1>4, GetAttributesOutcome DEF Found, Set
  <2>2. "findNext" \in AfterClunk
    BY DEF AfterClunk
  <2> QED
    BY <1>1, <1>2, <2>1, <2>2, TypedServer, ClunkStep
<1> QED
  BY <1>3, <1>4

(* A callback that ended leaves its thread idle.                           *)
LEMMA ReturnedStep == ASSUME IInv, NEW t \in Thread, Return(t) PROVE IInv'
<1> DEFINE f == frame[t]
<1>1. /\ IdOfPlace(f) /\ f.pc = "return"
      /\ UNCHANGED <<ids, server, rootId, handle, begun>>
  BY FrameBefore DEF Return
<1>2. f.id = NOFID /\ f.saved = NOFID
  BY <1>1 DEF IdOfPlace, Toward, WithoutId, AfterClunk
<1>3. /\ Idle \in Frame /\ Idle.pc = "idle" /\ Idle.id = NOFID /\ Idle.saved = NOFID
      /\ Idle.h = "none"
  BY IdleFrame DEF Idle
<1>4. Continues(f, Idle)
  BY <1>3 DEF Continues, IdOfPlace, AskedOfPlace, Toward, Starting, Opening, Finding,
              AfterWalk, AfterClunk, WithoutId
<1>5. frame' = [frame EXCEPT ![t] = Idle]
  BY DEF Return, Set
<1> QED
  BY <1>1, <1>2, <1>3, <1>4, <1>5, TypedServer, RequestStep

(* FindFiles begins on a handle that is open.                              *)
LEMMA FindFilesStep == ASSUME IInv, NEW t \in Thread, NEW h \in Handle, FindFiles(t, h) PROVE IInv'
<1> DEFINE g == [Idle EXCEPT !.pc = "readDirectory", !.h = h]
<1>1. /\ frame' = [frame EXCEPT ![t] = g] /\ UNCHANGED <<ids, server, rootId, handle>>
      /\ frame[t].pc = "idle" /\ rootId # NOFID /\ begun' = begun + 1 /\ ~Busy(h)
  BY DEF FindFiles, Begin, Set
<1>2. /\ g \in Frame /\ g.pc = "readDirectory" /\ g.h = h /\ g.id = NOFID /\ g.saved = NOFID
  <2>1. "readDirectory" \in Place /\ Idle.id = NOFID /\ Idle.saved = NOFID
    BY DEF Place, Idle
  <2> QED
    BY <2>1, IdleFrame DEF Frame
<1> HIDE DEF g
<1>3. Toward(g) = "readDirectory"
  BY <1>2 DEF Toward
<1>4. IdOfPlace(g) /\ AskedOfPlace(g) /\ ~Starting(g) /\ ~Opening(g) /\ g.pc # "idle"
  BY <1>2, <1>3 DEF IdOfPlace, AskedOfPlace, Starting, Opening, AfterWalk, AfterClunk, WithoutId
<1>5. Places' /\ frame' \in [Thread -> Frame]
  BY <1>1, <1>2, <1>4, PlacesBegin
<1>6. Allocator' /\ begun' \in Nat
  BY <1>1 DEF IInv, TypeOK, Allocator, ids, Ids!TypeOK, Ids!Partition, Ids!Compact
<1>7. TypeOK'
  BY <1>1, <1>5, <1>6, TypedServer, TypesFollow DEF IInv, TypeOK
<1>8. frame[t].id = NOFID /\ frame[t].saved = NOFID
  BY <1>1, FrameBefore DEF IdOfPlace, Toward, WithoutId
<1>9. Ownership'
  BY <1>1, <1>2, <1>8, TypedServer, OwnershipKept, HandlesUnchanged DEF ids
<1> QED
  BY <1>5, <1>6, <1>7, <1>9, InvariantIs, PTL

(* A file that was opened: its ID goes from the callback to the handle.    *)
LEMMA OpenedStep ==
  ASSUME IInv, NEW t \in Thread, Opening(frame[t]), Settled(frame[t]), frame[t].saved = NOFID,
         NEW o, Known(server', frame[t].id), o = server'.fids[frame[t].id],
         Follows(server, server'), TouchesOnly(server, server', frame[t].id),
         NEW c, c = Context(frame[t], o), handle' = [handle EXCEPT ![frame[t].h] = c],
         NEW g, g = Returns(frame[t], "SUCCESS"), frame' = [frame EXCEPT ![t] = g],
         UNCHANGED <<ids, rootId, begun>>
  PROVE  IInv'
<1> DEFINE f == frame[t]
           h == f.h
<1>1. /\ f \in Frame /\ f.pc # "idle" /\ h \in Handle /\ ~handle[h].open
      /\ f.id \in 0 .. NOFID /\ f.path \in Seq(FileName)
  BY FrameBefore DEF Settled, Frame
<1>2. /\ g \in Frame /\ g.pc = "return" /\ g.id = NOFID /\ g.saved = NOFID /\ g.h = "none"
  <2>1. "SUCCESS" \in Status
    BY DEF Status
  <2> QED
    BY <1>1, <2>1, ReturnsFrame
<1>3. o \in Objects(server') /\ f.id # NOFID
  BY NoId DEF Follows, ServerTyped, Known
<1>4. /\ c \in HandleType(server') /\ c.id = f.id /\ c.open /\ c.object = o /\ ~c.cleaned
  <2>1. NoHandle = [id |-> NOFID, open |-> FALSE, object |-> Root, path |-> << >>,
                    deletePending |-> FALSE, cleaned |-> FALSE]
    BY DEF NoHandle
  <2> QED
    BY <1>1, <1>3, <2>1 DEF Context, HandleType
<1>5. f.id \in held \ {rootId}
  BY <1>3, OwnersMean DEF OwnedBy
<1>6. /\ handle \in [Handle -> HandleType(server)] /\ frame \in [Thread -> Frame]
      /\ \A k \in OpenHandles : handle[k].id # NOFID
  BY DEF IInv, TypeOK
<1>7. /\ handle' \in [Handle -> HandleType(server')] /\ handle'[h] = c
      /\ \A k \in Handle \ {h} : handle'[k] = handle[k]
      /\ OpenHandles' = OpenHandles \cup {h} /\ h \notin OpenHandles
  <2>1. handle \in [Handle -> HandleType(server')]
    BY <1>6, HandlesFollow
  <2> QED
    BY <1>1, <1>4, <2>1 DEF OpenHandles
<1>8. Places' /\ frame' \in [Thread -> Frame]
  <2>1. Continues(f, g)
    BY <1>2 DEF Continues, IdOfPlace, AskedOfPlace, Toward, Starting, Opening, Finding,
                AfterWalk, AfterClunk, WithoutId
  <2>2. ~Opening(g)
    BY <1>2 DEF Opening, Toward
  <2>3. \A k \in Handle : handle'[k].open => handle[k].open \/ (k = h /\ ~Opening(g))
    BY <1>7, <2>2
  <2> QED
    BY <1>1, <2>1, <2>3, PlacesContinue
<1>9. Allocator'
  BY DEF IInv, Allocator, ids, Ids!TypeOK, Ids!Partition, Ids!Compact
<1>10. TypeOK'
  <2>1. \A k \in Handle : handle'[k].open => handle'[k].id # NOFID
    BY <1>3, <1>4, <1>6, <1>7 DEF OpenHandles
  <2> QED
    BY <1>7, <1>8, <1>9, <2>1, TypesChange DEF IInv, TypeOK, Follows
<1>11. /\ frame'[t] = g /\ \A u \in Thread \ {t} : frame'[u] = frame[u]
       /\ OwnedBy(g) = {} /\ OwnedBy(f) = {f.id}
  BY <1>2, <1>3, <1>6 DEF OwnedBy
<1>12. Owners'
  <2>1. \A u \in Thread : OwnedBy(frame'[u]) \subseteq held \ {rootId}
    BY <1>11, OwnersMean
  <2>2. \A u \in Thread : frame'[u].id = frame'[u].saved => frame'[u].id = NOFID
    BY <1>2, <1>11, OwnersMean
  <2>3. ASSUME NEW u \in Thread, NEW v \in Thread, u # v
        PROVE  OwnedBy(frame'[u]) \cap OwnedBy(frame'[v]) = {}
    <3>1. /\ OwnedBy(frame'[u]) \subseteq OwnedBy(frame[u])
          /\ OwnedBy(frame'[v]) \subseteq OwnedBy(frame[v])
      BY <1>11
    <3>2. OwnedBy(frame[u]) \cap OwnedBy(frame[v]) = {}
      BY <2>3, OwnersMean
    <3> QED
      BY <3>1, <3>2
  <2>4. \A u \in Thread : f.id \notin OwnedBy(frame'[u])
    BY <1>11, OwnersMean
  <2>5. ASSUME NEW u \in Thread, NEW k \in OpenHandles'
        PROVE  handle'[k].id \notin OwnedBy(frame'[u])
    <3>1. CASE k = h
      BY <1>4, <1>7, <2>4, <3>1
    <3>2. CASE k # h
      <4>1. k \in OpenHandles /\ handle'[k] = handle[k]
        BY <1>7, <3>2 DEF OpenHandles
      <4>2. handle[k].id \notin OwnedBy(frame[u]) /\ OwnedBy(frame'[u]) \subseteq OwnedBy(frame[u])
        BY <1>11, <4>1, OwnersMean
      <4> QED
        BY <4>1, <4>2
    <3> QED
      BY <3>1, <3>2
  <2>6. ASSUME NEW k \in OpenHandles'
        PROVE  handle'[k].id \in held \ {rootId}
    <3>1. CASE k = h
      BY <1>4, <1>5, <1>7, <3>1
    <3>2. CASE k # h
      <4>1. k \in OpenHandles /\ handle'[k] = handle[k]
        BY <1>7, <3>2 DEF OpenHandles
      <4> QED
        BY <4>1, OwnersMean
    <3> QED
      BY <3>1, <3>2
  <2>7. \A j, k \in OpenHandles' : handle'[j].id = handle'[k].id => j = k
    <3>1. \A k \in OpenHandles : handle[k].id # f.id /\ handle'[k] = handle[k]
      BY <1>7, <1>11, OwnersMean DEF OpenHandles
    <3>2. handle'[h].id = f.id
      BY <1>4, <1>7
    <3>3. \A j, k \in OpenHandles : handle[j].id = handle[k].id => j = k
      BY OwnersMean
    <3> QED
      BY <1>7, <3>1, <3>2, <3>3
  <2> QED
    BY <2>1, <2>2, <2>3, <2>5, <2>6, <2>7, OwnersAre DEF IInv, Owners, ids
<1>13. NoServerLeak'
  <2>1. \A id \in DOMAIN server'.fids : id \in DOMAIN server.fids \/ id = f.id
    BY DEF TouchesOnly
  <2>2. f.id \in {handle'[k].id : k \in OpenHandles'}
    <3>1. h \in OpenHandles' /\ handle'[h].id = f.id
      BY <1>4, <1>7
    <3> QED
      BY <3>1
  <2>3. \A u \in Thread : Owned(u) = OwnedBy(frame[u]) /\ Owned(u)' = OwnedBy(frame'[u])
    BY DEF Owned, OwnedBy
  <2>4. \A k \in OpenHandles : k \in OpenHandles' /\ handle'[k].id = handle[k].id
    BY <1>7 DEF OpenHandles
  <2>5. ASSUME NEW id \in DOMAIN server'.fids, id # f.id
        PROVE  \/ id = rootId \/ id \in {handle'[k].id : k \in OpenHandles'}
               \/ \E u \in Thread : id \in Owned(u)'
    <3>1. id \in DOMAIN server.fids
      BY <2>1, <2>5
    <3>2. \/ id = rootId \/ (\E k \in OpenHandles : id = handle[k].id)
          \/ \E u \in Thread : id \in Owned(u)
      BY <3>1 DEF IInv, NoServerLeak
    <3> QED
      BY <1>11, <2>3, <2>4, <2>5, <3>2
  <2> QED
    BY <2>2, <2>5 DEF NoServerLeak
<1>14. Unknown'
  BY <1>2, <1>11, OthersUnknown DEF Unknown, Follows
<1>15. HandleIntact'
  <2>1. \A k \in OpenHandles : handle[k].id # f.id
    BY <1>11, OwnersMean
  <2>2. \A k \in OpenHandles : handle'[k] = handle[k]
    BY <1>7 DEF OpenHandles
  <2> QED
    <3>1. ASSUME NEW k \in OpenHandles, ~(handle[k].cleaned /\ handle[k].deletePending)
          PROVE  Known(server', handle[k].id) /\ server'.fids[handle[k].id] = handle[k].object
      <4>1. Known(server, handle[k].id) /\ server.fids[handle[k].id] = handle[k].object
        BY <3>1 DEF HandleIntact, IInv
      <4> QED
        BY <2>1, <4>1 DEF Known, TouchesOnly
    <3>2. Known(server', handle'[h].id) /\ server'.fids[handle'[h].id] = handle'[h].object
      BY <1>4, <1>7
    <3> QED
      BY <1>7, <2>2, <3>1, <3>2 DEF HandleIntact
<1> QED
  BY <1>8, <1>9, <1>10, <1>12, <1>13, <1>14, <1>15, InvariantIs, PTL DEF Ownership

(* Opening a file that was walked to: its ID goes to the handle or is      *)
(* clunked, and never both.                                                *)
LEMMA OpensStep ==
  ASSUME IInv, NEW t \in Thread, frame[t].pc \in {"walked", "rewalked", "reopen"},
         NEW again \in BOOLEAN, Opens(t, again), UNCHANGED <<ids, rootId, begun>>
  PROVE  IInv'
<1> DEFINE f == frame[t]
           o(r) == r.server.fids[f.id]
           wrong(r) == f.option = "nonDirectory" /\ At(r.server, o(r)).kind = "directory"
           status(r) == IF r.error = 0 THEN "OBJECT_NAME_NOT_FOUND" ELSE ToNtStatus(r.error)
<1>1. PICK r \in Attempt(f, again) :
         /\ server' = r.server
         /\ IF r.error \in Denied /\ ~again
            THEN Set(t, Goto(f, "reopen")) /\ UNCHANGED handle
            ELSE IF r.error = 0 /\ ~wrong(r)
            THEN /\ handle' = [handle EXCEPT ![f.h] = Context(f, o(r))]
                 /\ Set(t, Returns(f, "SUCCESS"))
            ELSE /\ Set(t, Clunks([f EXCEPT !.status = status(r)], "return"))
                 /\ UNCHANGED handle
  BY DEF Opens
<1>2. f \in Frame /\ IdOfPlace(f)
  BY FrameBefore
<1>3. f.saved = NOFID /\ Settled(f) /\ Opening(f) /\ Toward(f) \in {"walked", "rewalked", "reopen"}
  BY <1>2 DEF IdOfPlace, Toward, Settled, Opening
<1>4. /\ Follows(server, server') /\ TouchesOnly(server, server', f.id)
      /\ r.error = 0 => Known(server', f.id)
  <2> DEFINE write == f.write /\ ~again
             truncate == Truncates(f.disposition)
  <2>1. write \in BOOLEAN /\ truncate \in BOOLEAN
    BY DEF Truncates
  <2>2. r \in LinuxOpen(server, f.id, write, truncate)
    BY <1>1 DEF Attempt
  <2> HIDE DEF write, truncate
  <2>3. ServerTyped(server)
    BY TypedServer
  <2>4. /\ Follows(server, r.server) /\ TouchesOnly(server, r.server, f.id)
        /\ r.error = 0 => Known(r.server, f.id)
    BY ONLY <2>1, <2>2, <2>3, LinuxOpenOutcome
  <2> QED
    BY <1>1, <2>4
<1>5. f.id = f.saved => f.id = NOFID
  BY OwnersMean
<1>6. CASE r.error \in Denied /\ ~again
  <2>1. frame' = [frame EXCEPT ![t] = Goto(f, "reopen")] /\ UNCHANGED handle
    BY <1>1, <1>6 DEF Set
  <2>2. "reopen" \in Place
    BY DEF Place
  <2>3. /\ "reopen" \notin AfterWalk \cup {"idle", "exit", "attach", "walk", "clunk", "free",
                                           "made", "created"}
        /\ "reopen" \notin WithoutId
    BY DEF AfterWalk, WithoutId, AfterClunk
  <2> QED
    BY <1>2, <1>3, <1>4, <2>1, <2>2, <2>3, GotoStep
<1>7. CASE r.error = 0 /\ ~wrong(r) /\ ~(r.error \in Denied /\ ~again)
  <2>1. /\ handle' = [handle EXCEPT ![f.h] = Context(f, o(r))]
        /\ frame' = [frame EXCEPT ![t] = Returns(f, "SUCCESS")]
    BY <1>1, <1>7 DEF Set
  <2>2. o(r) = server'.fids[f.id]
    BY <1>1
  <2> QED
    BY <1>3, <1>4, <1>7, <2>1, <2>2, OpenedStep
<1>8. CASE ~(r.error = 0 /\ ~wrong(r)) /\ ~(r.error \in Denied /\ ~again)
  <2> DEFINE g == [f EXCEPT !.status = status(r)]
  <2>1. frame' = [frame EXCEPT ![t] = Clunks(g, "return")] /\ UNCHANGED handle
    BY <1>1, <1>8 DEF Set
  <2>2. status(r) \in Status
    BY Statuses DEF Status
  <2> HIDE DEF status
  <2>3. g \in Frame /\ g.h = f.h /\ g.id = f.id /\ g.saved = f.saved /\ g.asked = f.asked
    BY <1>2, <2>2, StatusFrame
  <2>4. "return" \in AfterClunk
    BY DEF AfterClunk
  <2> HIDE DEF g
  <2> QED
    BY <1>3, <1>4, <1>5, <2>1, <2>3, <2>4, ClunkStep
<1> QED
  BY <1>6, <1>7, <1>8

(* The first attempt to open.                                              *)
LEMMA OpenWalkedStep == ASSUME IInv, NEW t \in Thread, OpenWalked(t) PROVE IInv'
<1> DEFINE f == frame[t]
           g == [f EXCEPT !.status = "OBJECT_NAME_COLLISION"]
<1>1. /\ f \in Frame /\ IdOfPlace(f) /\ f.pc \in {"walked", "rewalked"}
      /\ UNCHANGED <<ids, rootId, begun>>
  BY FrameBefore DEF OpenWalked
<1>2. CASE f.disposition = "CREATE"
  <2>1. frame' = [frame EXCEPT ![t] = Clunks(g, "return")] /\ UNCHANGED <<server, handle>>
    BY <1>2 DEF OpenWalked, Set
  <2>2. "OBJECT_NAME_COLLISION" \in Status /\ "return" \in AfterClunk
    BY DEF Status, AfterClunk
  <2>3. g \in Frame /\ g.h = f.h /\ g.id = f.id /\ g.saved = f.saved /\ g.asked = f.asked
    BY <1>1, <2>2, StatusFrame
  <2>4. f.saved = NOFID /\ Settled(f)
    BY <1>1 DEF IdOfPlace, Toward, Settled
  <2> HIDE DEF g
  <2> QED
    BY <1>1, <2>1, <2>2, <2>3, <2>4, TypedServer, ClunkStep
<1>3. CASE f.disposition # "CREATE"
  <2>1. Opens(t, FALSE)
    BY <1>3 DEF OpenWalked
  <2> QED
    BY <1>1, <2>1, OpensStep
<1> QED
  BY <1>2, <1>3

(* The second attempt, for reading only, has the same ID.                  *)
LEMMA ReopenStep == ASSUME IInv, NEW t \in Thread, Reopen(t) PROVE IInv'
<1>1. frame[t].pc = "reopen" /\ Opens(t, TRUE) /\ UNCHANGED <<ids, rootId, begun>>
  BY DEF Reopen
<1> QED
  BY <1>1, OpensStep

(* MoveFile renames under two IDs and clunks both.                         *)
LEMMA RenameStep == ASSUME IInv, NEW t \in Thread, Rename(t) PROVE IInv'
<1> DEFINE f == frame[t]
           g(status) == [f EXCEPT !.status = status]
<1>1. f \in Frame /\ IdOfPlace(f) /\ f.pc = "newWalked" /\ UNCHANGED <<ids, rootId, begun>>
  BY FrameBefore DEF Rename
<1>2. Settled(f) /\ (f.error # 0 => f.id = NOFID)
  BY <1>1 DEF IdOfPlace, Settled, AfterWalk
<1>3. f.id = f.saved => f.id = NOFID
  BY OwnersMean
<1>4. \A error : LET h == g(ToNtStatus(error))
                 IN  /\ h \in Frame /\ h.h = f.h /\ h.id = f.id /\ h.saved = f.saved
                     /\ h.asked = f.asked /\ h.disposition = f.disposition
  BY <1>1, Statuses, StatusFrame
<1>5. CASE f.error # 0
  <2>1. /\ frame' = [frame EXCEPT ![t] = Goto(g(ToNtStatus(f.error)), "clunkOld")]
        /\ UNCHANGED <<server, handle>>
    BY <1>5 DEF Rename, Set
  <2>2. "clunkOld" \in Place
    BY DEF Place
  <2>3. "clunkOld" \notin AfterWalk \cup {"idle", "exit", "attach", "walk", "clunk", "free",
                                          "made", "created"}
    BY DEF AfterWalk
  <2> DEFINE failed == g(ToNtStatus(f.error))
  <2>4. /\ failed \in Frame /\ failed.h = f.h /\ failed.id = f.id /\ failed.saved = f.saved
        /\ failed.asked = f.asked /\ failed.disposition = f.disposition
    BY <1>4
  <2> HIDE DEF failed
  <2>5. frame' = [frame EXCEPT ![t] = Goto(failed, "clunkOld")] /\ UNCHANGED handle
    BY <2>1 DEF failed
  <2>6. failed.id = NOFID
    BY <1>2, <1>5, <2>4
  <2>7. Follows(server, server') /\ TouchesOnly(server, server', f.id)
    BY <2>1, TypedServer
  <2>8. UNCHANGED <<ids, rootId, handle, begun>>
    BY <1>1, <2>1
  <2> QED
    BY <1>1, <1>2, <2>2, <2>3, <2>4, <2>5, <2>6, <2>7, <2>8, GotoStep
<1>6. CASE f.error = 0
  <2>1. PICK r \in RenameAt(server, f.saved, Name(f.path), f.id, Name(f.newPath)) :
           /\ server' = r.server
           /\ handle' = IF r.error # 0 THEN handle ELSE [handle EXCEPT ![f.h].path = f.newPath]
           /\ Set(t, Clunks(g(ToNtStatus(r.error)), "clunkOld"))
    BY <1>6 DEF Rename
  <2> DEFINE k == Clunks(g(ToNtStatus(r.error)), "clunkOld")
  <2>2. frame' = [frame EXCEPT ![t] = k]
    BY <2>1 DEF Set
  <2>3. f.newPath \in Seq(FileName)
    BY <1>1 DEF Frame
  <2>4. Follows(server, server') /\ server'.fids = server.fids
    <3>1. Name(f.newPath) \in EntryName
      BY <2>3, Paths
    <3> QED
      BY <2>1, <3>1, TypedServer, RenameAtOutcome
  <2>5. TouchesOnly(server, server', f.id)
    BY <2>4 DEF TouchesOnly
  <2>6. "clunkOld" \in Place /\ "clunkOld" \in AfterClunk
    BY DEF Place, AfterClunk
  <2> HIDE DEF g
  <2>7. /\ k \in Frame /\ k.pc = "clunk" /\ k.next = "clunkOld" /\ k.h = f.h /\ k.id = f.id
        /\ k.saved = f.saved /\ k.asked = f.asked
    BY <1>4, <2>6, ClunksFrame
  <2> HIDE DEF k
  <2>8. Continues(f, k)
    BY <2>7, FrameBefore
       DEF Continues, IdOfPlace, AskedOfPlace, Toward, Starting, Opening, Finding,
           AfterWalk, AfterClunk, WithoutId
  <2>9. SameHandles /\ handle' \in [Handle -> HandleType(server)]
    <3>1. handle \in [Handle -> HandleType(server)]
      BY DEF IInv, TypeOK
    <3>2. CASE r.error # 0
      BY <2>1, <3>1, <3>2 DEF SameHandles
    <3>3. CASE r.error = 0
      <4>1. handle' = [handle EXCEPT ![f.h].path = f.newPath]
        BY <2>1, <3>3
      <4>2. ASSUME NEW h \in Handle
            PROVE  /\ [handle[h] EXCEPT !.path = f.newPath] \in HandleType(server)
                   /\ handle'[h] \in {handle[h], [handle[h] EXCEPT !.path = f.newPath]}
        BY <2>3, <3>1, <4>1 DEF HandleType
      <4> QED
        BY <3>1, <4>1, <4>2 DEF SameHandles, HandleType
    <3> QED
      BY <3>2, <3>3
  <2>10. Places' /\ frame' \in [Thread -> Frame]
    <3>1. \A h \in Handle : handle'[h].open => handle[h].open
      BY <2>9 DEF SameHandles
    <3>2. f.pc # "idle"
      BY <1>1
    <3> QED
      BY <1>1, <2>2, <2>8, <3>1, <3>2, PlacesContinue
  <2>11. Allocator'
    BY <1>1 DEF IInv, Allocator, ids, Ids!TypeOK, Ids!Partition, Ids!Compact
  <2>12. TypeOK'
    <3>1. handle' \in [Handle -> HandleType(server')]
      BY <2>4, <2>9, HandlesFollow
    <3>2. \A h \in Handle : handle'[h].open => handle'[h].id # NOFID
      BY <2>9 DEF SameHandles, IInv, TypeOK, OpenHandles
    <3> QED
      BY <1>1, <2>4, <2>10, <2>11, <3>1, <3>2, TypesChange DEF IInv, TypeOK, Follows
  <2>13. Ownership'
    <3>1. k.pc \notin {"attach", "walk", "free"}
      BY <2>7
    <3>2. {k.id, k.saved} = {f.id, f.saved} /\ (k.id = k.saved => k.id = NOFID)
      BY <1>3, <2>7
    <3> QED
      BY <1>1, <2>2, <2>4, <2>5, <2>7, <2>9, <3>1, <3>2, OwnershipKept DEF Follows, ids
  <2> QED
    BY <2>10, <2>11, <2>12, <2>13, InvariantIs, PTL
<1> QED
  BY <1>5, <1>6

----------------------------------------------------------------------------
(* The root's file ID.                                                     *)

LEMMA StartAttachStep == ASSUME IInv, NEW t \in Thread, StartAttach(t) PROVE IInv'
<1>1. PICK id \in 0 .. NOFID :
         /\ Ids!AllocateFileId(id)
         /\ frame' = [frame EXCEPT ![t] = [Idle EXCEPT !.pc = "attach", !.id = id]]
  BY DEF StartAttach, Set
<1> DEFINE g == [Idle EXCEPT !.pc = "attach", !.id = id]
<1>2. g \in Frame /\ g.pc = "attach" /\ g.id = id /\ g.saved = NOFID /\ g.h = "none"
  <2>1. "attach" \in Place /\ Idle.saved = NOFID /\ Idle.h = "none"
    BY DEF Place, Idle
  <2> QED
    BY <2>1, IdleFrame DEF Frame
<1>3. frame' = [frame EXCEPT ![t] = g] /\ UNCHANGED <<server, rootId, handle>> /\ begun' = 1
  BY <1>1 DEF StartAttach
<1> HIDE DEF g
<1>4. Allocator' /\ id \notin held /\ held' = held \cup ({id} \ {NOFID})
  <2>1. Allocator
    BY DEF IInv
  <2> QED
    BY <1>1, <2>1, Allocation
<1>5. /\ rootId = NOFID /\ \A u \in Thread : frame[u].pc = "idle"
      /\ frame \in [Thread -> Frame]
  BY DEF StartAttach, IInv, TypeOK, Places, AttachAlone
<1>6. /\ frame' \in [Thread -> Frame] /\ frame'[t] = g
      /\ \A u \in Thread \ {t} : frame'[u] = frame[u]
  BY <1>2, <1>3, <1>5
<1>7. Places'
  <2>1. Toward(g) = "attach"
    BY <1>2 DEF Toward
  <2>2. IdOfPlace(g) /\ AskedOfPlace(g) /\ ~Opening(g) /\ ~Finding(g)
    BY <1>2, <2>1
       DEF IdOfPlace, AskedOfPlace, Opening, Finding, AfterWalk, AfterClunk, WithoutId
  <2>3. \A u \in Thread : IdOfPlace(frame[u])' /\ AskedOfPlace(frame[u])'
    BY <1>6, <2>2 DEF IInv, Places, IdOfPlace, AskedOfPlace, Toward
  <2>4. \A u \in Thread \ {t} : ~Starting(frame[u]) /\ ~Opening(frame[u])
    BY <1>5 DEF Starting, Opening, Toward
  <2>5. AttachAlone'
    BY <1>3, <1>5, <1>6, <2>4 DEF AttachAlone, Starting, Toward
  <2>6. HandleOfPlace'
    BY <1>2, <1>3, <1>6, <2>2, <2>4 DEF HandleOfPlace, IInv, Places, Opening, Finding, Toward
  <2> QED
    BY <2>3, <2>5, <2>6 DEF Places
<1>8. TypeOK'
  BY <1>3, <1>4, <1>6, TypedServer, TypesFollow DEF IInv, TypeOK
<1>9. Ownership'
  <2>1. frame[t].id = NOFID /\ frame[t].saved = NOFID
    BY <1>5, FrameBefore DEF IdOfPlace, Toward, WithoutId
  <2>2. {g.saved} \ {NOFID} = OwnedBy(frame[t])
    BY <1>2, <2>1 DEF OwnedBy
  <2> QED
    BY <1>2, <1>3, <1>4, <2>2, OwnershipTaken, HandlesUnchanged
<1> QED
  BY <1>4, <1>7, <1>8, <1>9, InvariantIs, PTL

(* The root's ID is bound and kept, or freed at once.                      *)
LEMMA SimpleAttachStep == ASSUME IInv, NEW t \in Thread, SimpleAttach(t) PROVE IInv'
<1> DEFINE f == frame[t]
           g == [f EXCEPT !.pc = "free", !.next = "exit"]
<1>1. PICK r \in Attach(server, f.id) :
         /\ server' = r.server
         /\ rootId' = IF r.error = 0 THEN f.id ELSE NOFID
         /\ frame' = [frame EXCEPT ![t] = IF r.error = 0 THEN Idle ELSE g]
  BY DEF SimpleAttach, Set
<1>2. f \in Frame /\ IdOfPlace(f) /\ f.pc = "attach" /\ UNCHANGED <<ids, handle, begun>>
  BY FrameBefore DEF SimpleAttach
<1>3. /\ f.saved = NOFID /\ Starting(f) /\ f.id \in 0 .. NOFID
      /\ rootId = NOFID /\ \A u \in Thread \ {t} : frame[u].pc = "idle"
  <2>1. f.saved = NOFID /\ Starting(f) /\ f.id \in 0 .. NOFID
    BY <1>2 DEF IdOfPlace, Toward, Starting, Frame
  <2> QED
    BY <2>1 DEF IInv, Places, AttachAlone
<1>4. /\ Follows(server, server') /\ TouchesOnly(server, server', f.id)
      /\ r.error = 0 => f.id # NOFID
      /\ r.error # 0 => server' = server
  BY <1>1, <1>3, TypedServer, AttachOutcome
<1>5. CASE r.error # 0
  <2>1. frame' = [frame EXCEPT ![t] = g] /\ UNCHANGED rootId
    BY <1>1, <1>3, <1>5
  <2>2. /\ g \in Frame /\ g.pc = "free" /\ g.next = "exit" /\ g.id = f.id /\ g.saved = NOFID
        /\ g.h = f.h
    <3>1. "free" \in Place /\ "exit" \in Place
      BY DEF Place
    <3> QED
      BY <1>2, <1>3, <3>1 DEF Frame
  <2> HIDE DEF g
  <2>3. Toward(g) = "exit"
    BY <2>2 DEF Toward
  <2>4. Continues(f, g)
    BY <1>3, <2>2, <2>3 DEF Continues, IdOfPlace, AskedOfPlace, Opening, Finding,
                            AfterWalk, AfterClunk, WithoutId
  <2>5. ~Known(server', g.id)
    BY <1>2, <1>4, <1>5, <2>2 DEF IInv, Unknown
  <2>6. {g.id, g.saved} = {f.id, f.saved} /\ (g.id = g.saved => g.id = NOFID)
    BY <1>3, <2>2
  <2> QED
    BY <1>2, <1>4, <2>1, <2>4, <2>5, <2>6, RequestStep
<1>6. CASE r.error = 0
  <2>1. frame' = [frame EXCEPT ![t] = Idle] /\ rootId' = f.id /\ f.id # NOFID
    BY <1>1, <1>4, <1>6
  <2>2. /\ Idle \in Frame /\ Idle.pc = "idle" /\ Idle.id = NOFID /\ Idle.saved = NOFID
        /\ Idle.h = "none"
    BY IdleFrame DEF Idle
  <2>3. /\ frame' \in [Thread -> Frame] /\ frame'[t] = Idle
        /\ \A u \in Thread \ {t} : frame'[u] = frame[u]
    BY <2>1, <2>2 DEF IInv, TypeOK
  <2>4. \A u \in Thread : frame'[u].pc = "idle"
    BY <1>3, <2>2, <2>3
  <2>5. \A u \in Thread : frame'[u].id = NOFID /\ frame'[u].saved = NOFID /\ frame'[u].h = "none"
    <3>1. ASSUME NEW u \in Thread \ {t}
          PROVE  frame[u].id = NOFID /\ frame[u].saved = NOFID /\ frame[u].h = "none"
      BY <1>3, FrameBefore DEF IdOfPlace, Toward, WithoutId
    <3> QED
      BY <2>2, <2>3, <3>1
  <2>6. Places'
    <3>1. \A u \in Thread : Toward(frame'[u]) = "idle"
      BY <2>4 DEF Toward
    <3>2. \A u \in Thread : IdOfPlace(frame[u])' /\ AskedOfPlace(frame[u])'
      BY <2>4, <2>5, <3>1
         DEF IdOfPlace, AskedOfPlace, Toward, AfterWalk, AfterClunk, WithoutId
    <3>3. AttachAlone'
      BY <2>4, <3>1 DEF AttachAlone, Starting, Toward
    <3>4. HandleOfPlace'
      BY <2>4, <2>5, <3>1 DEF HandleOfPlace, Opening, Finding, Toward
    <3> QED
      BY <3>2, <3>3, <3>4 DEF Places
  <2>7. Allocator'
    BY <1>2 DEF IInv, Allocator, ids, Ids!TypeOK, Ids!Partition, Ids!Compact
  <2>8. TypeOK'
    BY <1>2, <1>3, <1>4, <2>1, <2>3, <2>7, TypesFollow DEF IInv, TypeOK
  <2>9. OpenHandles' = OpenHandles /\ held' = held /\ handle' = handle
    BY <1>2 DEF OpenHandles, ids
  <2>10. \A u \in Thread : OwnedBy(frame'[u]) = {}
    BY <2>5 DEF OwnedBy
  <2>11. f.id \in OwnedBy(f)
    BY <2>1 DEF OwnedBy
  <2>12. Owners'
    <3>1. \A h \in OpenHandles : handle[h].id \in held \ {rootId'}
      BY <2>1, <2>11, OwnersMean
    <3>2. rootId' \in held
      BY <2>1, <2>11, OwnersMean
    <3> QED
      BY <2>5, <2>9, <2>10, <3>1, <3>2, OwnersMean, OwnersAre
  <2>13. NoServerLeak'
    <3>1. \A u \in Thread : Owned(u) \subseteq {f.id}
      <4>1. \A u \in Thread \ {t} : frame[u].id = NOFID /\ frame[u].saved = NOFID
        BY <2>3, <2>5
      <4> QED
        BY <1>3, <4>1 DEF Owned
    <3>2. \A id \in DOMAIN server'.fids : id \in DOMAIN server.fids \/ id = f.id
      BY <1>4 DEF TouchesOnly
    <3>3. NOFID \notin DOMAIN server.fids
      BY OwnersMean
    <3>4. \A id \in DOMAIN server'.fids : id = f.id \/ id \in {handle[h].id : h \in OpenHandles}
      BY <1>3, <3>1, <3>2, <3>3 DEF IInv, NoServerLeak
    <3> QED
      BY <2>1, <2>9, <3>4 DEF NoServerLeak
  <2>14. Unknown'
    BY <2>4 DEF Unknown
  <2>15. HandleIntact'
    <3>1. \A h \in OpenHandles : handle[h].id # f.id
      BY <2>11, OwnersMean
    <3> QED
      BY <1>4, <2>9, <3>1 DEF HandleIntact, IInv, Known, TouchesOnly
  <2> QED
    BY <2>6, <2>7, <2>8, <2>12, <2>13, <2>14, <2>15, InvariantIs, PTL DEF Ownership
<1> QED
  BY <1>5, <1>6

----------------------------------------------------------------------------
(* Open handles.                                                           *)

(* The file ID of a handle that is closed goes to the callback.            *)
LEMMA CloseFileStep == ASSUME IInv, NEW t \in Thread, NEW h \in Handle, CloseFile(t, h) PROVE IInv'
<1> DEFINE i == [Idle EXCEPT !.id = handle[h].id]
           g == Clunks(i, "return")
<1>1. /\ frame' = [frame EXCEPT ![t] = g] /\ handle' = [handle EXCEPT ![h] = NoHandle]
      /\ UNCHANGED <<ids, server, rootId>> /\ handle[h].open
      /\ frame[t].pc = "idle" /\ rootId # NOFID /\ begun' = begun + 1
  BY DEF CloseFile, Begin, Set
<1>2. /\ handle \in [Handle -> HandleType(server)] /\ frame \in [Thread -> Frame]
      /\ \A k \in OpenHandles : handle[k].id # NOFID
  BY DEF IInv, TypeOK
<1>3. /\ g \in Frame /\ g.pc = "clunk" /\ g.next = "return" /\ g.id = handle[h].id
      /\ g.saved = NOFID /\ g.h = "none"
  <2>1. Idle.saved = NOFID /\ Idle.h = "none" /\ "return" \in Place
    BY DEF Idle, Place
  <2>2. handle[h].id \in 0 .. NOFID
    BY <1>2 DEF HandleType
  <2>3. i \in Frame /\ i.id = handle[h].id /\ i.saved = NOFID /\ i.h = "none"
    BY <2>1, <2>2, IdleFrame DEF Frame
  <2> HIDE DEF i
  <2> QED
    BY <2>1, <2>3, ClunksFrame
<1> HIDE DEF g
<1>4. /\ NoHandle \in HandleType(server) /\ ~NoHandle.open
  <2>1. << >> \in Seq(FileName)
    BY EmptySeq
  <2> QED
    BY <2>1, NoId, TypedServer, TypedObjects DEF NoHandle, HandleType
<1>5. /\ handle' \in [Handle -> HandleType(server)] /\ handle'[h] = NoHandle
      /\ \A k \in Handle \ {h} : handle'[k] = handle[k]
      /\ OpenHandles' = OpenHandles \ {h} /\ h \in OpenHandles
  BY <1>1, <1>2, <1>4 DEF OpenHandles
<1>6. Places' /\ frame' \in [Thread -> Frame]
  <2>1. Toward(g) = "return"
    BY <1>3 DEF Toward
  <2>2. IdOfPlace(g) /\ AskedOfPlace(g) /\ ~Starting(g) /\ ~Opening(g) /\ ~Finding(g)
    BY <1>3, <2>1 DEF IdOfPlace, AskedOfPlace, Starting, Opening, Finding,
                      AfterWalk, AfterClunk, WithoutId
  <2>3. \A k \in Handle : handle'[k].open => handle[k].open
    BY <1>4, <1>5
  <2> QED
    BY <1>1, <1>3, <2>2, <2>3, PlacesBegin
<1>7. Allocator' /\ begun' \in Nat
  BY <1>1 DEF IInv, TypeOK, Allocator, ids, Ids!TypeOK, Ids!Partition, Ids!Compact
<1>8. TypeOK'
  <2>1. \A k \in Handle : handle'[k].open => handle'[k].id # NOFID
    BY <1>2, <1>4, <1>5 DEF OpenHandles
  <2> QED
    BY <1>1, <1>5, <1>6, <1>7, <2>1, TypesChange DEF IInv, TypeOK
<1>9. /\ frame'[t] = g /\ \A u \in Thread \ {t} : frame'[u] = frame[u]
      /\ OwnedBy(g) = {handle[h].id} /\ OwnedBy(frame[t]) = {} /\ handle[h].id # NOFID
  <2>1. handle[h].id # NOFID
    BY <1>2, <1>5
  <2>2. OwnedBy(frame[t]) = {}
    BY <1>1, FrameBefore DEF IdOfPlace, Toward, WithoutId, OwnedBy
  <2> QED
    BY <1>1, <1>2, <1>3, <2>1, <2>2 DEF OwnedBy
<1>10. Owners'
  <2>1. \A u \in Thread : OwnedBy(frame'[u]) \subseteq held \ {rootId}
    BY <1>5, <1>9, OwnersMean
  <2>2. \A u \in Thread : frame'[u].id = frame'[u].saved => frame'[u].id = NOFID
    BY <1>3, <1>9, OwnersMean
  <2>3. \A u, v \in Thread : u # v => OwnedBy(frame'[u]) \cap OwnedBy(frame'[v]) = {}
    BY <1>5, <1>9, OwnersMean
  <2>4. \A k \in OpenHandles' : k \in OpenHandles /\ k # h /\ handle'[k].id = handle[k].id
    BY <1>5 DEF OpenHandles
  <2>5. \A u \in Thread, k \in OpenHandles' : handle'[k].id \notin OwnedBy(frame'[u])
    BY <1>5, <1>9, <2>4, OwnersMean
  <2>6. \A k \in OpenHandles' : handle'[k].id \in held \ {rootId}
    BY <2>4, OwnersMean
  <2>7. \A j, k \in OpenHandles' : handle'[j].id = handle'[k].id => j = k
    BY <2>4, OwnersMean
  <2> QED
    BY <1>1, <2>1, <2>2, <2>3, <2>5, <2>6, <2>7, OwnersAre DEF IInv, Owners, ids
<1>11. NoServerLeak'
  <2>1. \A u \in Thread : Owned(u) = OwnedBy(frame[u]) /\ Owned(u)' = OwnedBy(frame'[u])
    BY DEF Owned, OwnedBy
  <2>2. \A u \in Thread : Owned(u) \subseteq Owned(u)'
    BY <1>9, <2>1
  <2>3. handle[h].id \in Owned(t)'
    BY <1>9, <2>1
  <2>4. \A k \in OpenHandles \ {h} : k \in OpenHandles' /\ handle'[k].id = handle[k].id
    BY <1>5 DEF OpenHandles
  <2>5. ASSUME NEW id \in DOMAIN server.fids
        PROVE  \/ id = rootId \/ id \in {handle'[k].id : k \in OpenHandles'}
               \/ \E u \in Thread : id \in Owned(u)'
    <3>1. \/ id = rootId \/ (\E k \in OpenHandles : id = handle[k].id)
          \/ \E u \in Thread : id \in Owned(u)
      BY <2>5 DEF IInv, NoServerLeak
    <3> QED
      BY <2>2, <2>3, <2>4, <3>1
  <2> QED
    BY <1>1, <2>5 DEF NoServerLeak
<1>12. Unknown'
  BY <1>1, <1>3, <1>9, TypedServer, OthersUnknown DEF Unknown, Follows
<1>13. HandleIntact'
  <2>1. \A k \in OpenHandles' : k \in OpenHandles /\ handle'[k] = handle[k]
    BY <1>5 DEF OpenHandles
  <2> QED
    BY <1>1, <2>1 DEF HandleIntact, IInv, Known
<1> QED
  BY <1>6, <1>7, <1>8, <1>10, <1>11, <1>12, <1>13, InvariantIs, PTL DEF Ownership

(* A step about one open handle, which no callback's frame takes part in.  *)
LEMMA HandleStep ==
  ASSUME IInv, NEW h \in OpenHandles, UNCHANGED <<ids, rootId, frame, begun>>,
         handle' \in [Handle -> HandleType(server)],
         \A k \in Handle : /\ handle'[k].id = handle[k].id /\ handle'[k].open = handle[k].open
                           /\ handle'[k].object = handle[k].object,
         \A k \in Handle \ {h} : handle'[k] = handle[k],
         Follows(server, server'), TouchesOnly(server, server', handle[h].id),
         DOMAIN server'.fids \subseteq DOMAIN server.fids,
         ~(handle'[h].cleaned /\ handle'[h].deletePending) =>
            server'.fids = server.fids /\ ~(handle[h].cleaned /\ handle[h].deletePending)
  PROVE  IInv'
<1>1. OpenHandles' = OpenHandles
  BY DEF OpenHandles
<1>2. Allocator'
  BY DEF IInv, Allocator, ids, Ids!TypeOK, Ids!Partition, Ids!Compact
<1>3. Places'
  <2>1. \A t \in Thread : IdOfPlace(frame[t])' /\ AskedOfPlace(frame[t])'
    BY DEF IInv, Places, IdOfPlace, AskedOfPlace, Toward
  <2>2. AttachAlone'
    BY DEF IInv, Places, AttachAlone, Starting, Toward
  <2>3. HandleOfPlace'
    BY DEF IInv, Places, HandleOfPlace, Opening, Finding, Toward
  <2> QED
    BY <2>1, <2>2, <2>3 DEF Places
<1>4. TypeOK'
  <2>1. handle' \in [Handle -> HandleType(server')]
    BY HandlesFollow
  <2>2. \A k \in Handle : handle'[k].open => handle'[k].id # NOFID
    BY DEF IInv, TypeOK, OpenHandles
  <2>3. /\ rootId' \in 0 .. NOFID /\ begun' \in Nat /\ frame' \in [Thread -> Frame]
        /\ ServerTyped(server')
    BY DEF IInv, TypeOK, Follows
  <2> QED
    BY <1>2, <2>1, <2>2, <2>3, TypesChange
<1>5. /\ \A u \in Thread : OwnedBy(frame'[u]) = OwnedBy(frame[u]) /\ frame'[u] = frame[u]
      /\ held' = held /\ rootId' = rootId
  BY DEF ids
<1>6. \A k \in OpenHandles : k \in Handle /\ handle'[k].id = handle[k].id
  BY DEF OpenHandles
<1>7. Owners'
  <2>1. /\ rootId' \in held' \cup {NOFID}
        /\ \A u \in Thread : OwnedBy(frame'[u]) \subseteq held' \ {rootId'}
        /\ \A u \in Thread : frame'[u].id = frame'[u].saved => frame'[u].id = NOFID
        /\ \A u, v \in Thread : u # v => OwnedBy(frame'[u]) \cap OwnedBy(frame'[v]) = {}
    BY <1>5, OwnersMean DEF IInv, Owners
  <2>2. /\ \A u \in Thread, k \in OpenHandles' : handle'[k].id \notin OwnedBy(frame'[u])
        /\ \A k \in OpenHandles' : handle'[k].id \in held' \ {rootId'}
        /\ \A j, k \in OpenHandles' : handle'[j].id = handle'[k].id => j = k
    BY <1>1, <1>5, <1>6, OwnersMean
  <2> QED
    BY <2>1, <2>2, OwnersAre
<1>8. NoServerLeak'
  <2>1. \A u \in Thread : Owned(u)' = Owned(u)
    BY <1>5 DEF Owned
  <2>2. ASSUME NEW id \in DOMAIN server.fids
        PROVE  \/ id = rootId \/ id \in {handle'[k].id : k \in OpenHandles'}
               \/ \E u \in Thread : id \in Owned(u)'
    <3>1. \/ id = rootId \/ (\E k \in OpenHandles : id = handle[k].id)
          \/ \E u \in Thread : id \in Owned(u)
      BY DEF IInv, NoServerLeak
    <3> QED
      BY <1>1, <1>6, <2>1, <3>1
  <2> QED
    BY <1>5, <2>2 DEF NoServerLeak
<1>9. Unknown'
  BY <1>5 DEF Unknown, IInv, Known
<1>10. HandleIntact'
  <2>1. ASSUME NEW k \in OpenHandles \ {h}, ~(handle[k].cleaned /\ handle[k].deletePending)
        PROVE  Known(server', handle[k].id) /\ server'.fids[handle[k].id] = handle[k].object
    <3>1. handle[k].id # handle[h].id
      BY OwnersMean
    <3>2. Known(server, handle[k].id) /\ server.fids[handle[k].id] = handle[k].object
      BY <2>1 DEF IInv, HandleIntact
    <3> QED
      BY <3>1, <3>2 DEF Known, TouchesOnly
  <2>2. ~(handle'[h].cleaned /\ handle'[h].deletePending) =>
           Known(server', handle[h].id) /\ server'.fids[handle[h].id] = handle[h].object
    BY DEF IInv, HandleIntact, Known
  <2>3. \A k \in OpenHandles \ {h} : handle'[k] = handle[k]
    BY <1>6
  <2> QED
    BY <1>1, <1>6, <2>1, <2>2, <2>3 DEF HandleIntact
<1> QED
  BY <1>2, <1>3, <1>4, <1>7, <1>8, <1>9, <1>10, InvariantIs, PTL DEF Ownership

(* WriteFile changes neither an ID nor a handle.                           *)
LEMMA WriteFileStep == ASSUME IInv, NEW h \in Handle, WriteFile(h) PROVE IInv'
<1>1. PICK r \in Write(server, handle[h].id) : server' = r.server
  BY DEF WriteFile
<1>2. /\ h \in OpenHandles /\ ~handle[h].cleaned
      /\ UNCHANGED <<ids, rootId, frame, handle, begun>>
  BY DEF WriteFile, Usable, OpenHandles
<1>3. Follows(server, server') /\ server'.fids = server.fids
  BY <1>1, TypedServer, WriteOutcome
<1>4. TouchesOnly(server, server', handle[h].id)
  BY <1>3 DEF TouchesOnly
<1>5. handle \in [Handle -> HandleType(server)]
  BY DEF IInv, TypeOK
<1> QED
  BY <1>2, <1>3, <1>4, <1>5, HandleStep

(* Only the mark of a handle changes.                                      *)
LEMMA DeleteStep ==
  ASSUME IInv, NEW h \in Handle, Usable(h), NEW allowed \in BOOLEAN, Delete(h, allowed)
  PROVE  IInv'
<1>1. /\ h \in OpenHandles /\ ~handle[h].cleaned
      /\ handle' = [handle EXCEPT ![h].deletePending = allowed]
      /\ UNCHANGED <<ids, rootId, frame, begun, server>>
  BY DEF Delete, Usable, OpenHandles
<1>2. handle \in [Handle -> HandleType(server)]
  BY DEF IInv, TypeOK
<1>3. /\ [handle[h] EXCEPT !.deletePending = allowed] \in HandleType(server)
      /\ handle'[h] = [handle[h] EXCEPT !.deletePending = allowed]
      /\ \A k \in Handle \ {h} : handle'[k] = handle[k]
  BY <1>1, <1>2 DEF HandleType
<1>4. handle' \in [Handle -> HandleType(server)]
  BY <1>1, <1>2, <1>3
<1>5. /\ handle'[h].id = handle[h].id /\ handle'[h].open = handle[h].open
      /\ handle'[h].object = handle[h].object /\ ~handle'[h].cleaned
  BY <1>1, <1>2, <1>3 DEF HandleType
<1>6. \A k \in Handle : /\ handle'[k].id = handle[k].id /\ handle'[k].open = handle[k].open
                        /\ handle'[k].object = handle[k].object
  BY <1>3, <1>5
<1>7. server' = server /\ Follows(server, server') /\ TouchesOnly(server, server', handle[h].id)
  BY <1>1, TypedServer
<1>8. UNCHANGED <<ids, rootId, frame, begun>>
  BY <1>1
<1> QED
  BY <1>1, <1>3, <1>4, <1>5, <1>6, <1>7, <1>8, HandleStep

(* Cleanup may remove under the ID of the handle, which the handle then    *)
(* keeps although the server has given it up.                              *)
LEMMA CleanupStep == ASSUME IInv, NEW h \in Handle, Cleanup(h) PROVE IInv'
<1>1. /\ h \in OpenHandles /\ ~handle[h].cleaned
      /\ handle' = [handle EXCEPT ![h].cleaned = TRUE]
      /\ UNCHANGED <<ids, rootId, frame, begun>>
  BY DEF Cleanup, Usable, OpenHandles
<1>2. handle \in [Handle -> HandleType(server)]
  BY DEF IInv, TypeOK
<1>3. /\ [handle[h] EXCEPT !.cleaned = TRUE] \in HandleType(server)
      /\ handle'[h] = [handle[h] EXCEPT !.cleaned = TRUE]
      /\ \A k \in Handle \ {h} : handle'[k] = handle[k]
  BY <1>1, <1>2 DEF HandleType
<1>4. handle' \in [Handle -> HandleType(server)]
  BY <1>1, <1>2, <1>3
<1>5. /\ handle'[h].id = handle[h].id /\ handle'[h].open = handle[h].open
      /\ handle'[h].object = handle[h].object /\ handle'[h].cleaned
      /\ handle'[h].deletePending = handle[h].deletePending
  BY <1>1, <1>2, <1>3 DEF HandleType
<1>6. \A k \in Handle : /\ handle'[k].id = handle[k].id /\ handle'[k].open = handle[k].open
                        /\ handle'[k].object = handle[k].object
  BY <1>3, <1>5
<1>7. CASE handle[h].deletePending
  <2>1. PICK r \in Remove(server, handle[h].id) : server' = r.server
    BY <1>7 DEF Cleanup
  <2>2. /\ Follows(server, server') /\ TouchesOnly(server, server', handle[h].id)
        /\ ~Known(server', handle[h].id)
    BY <2>1, TypedServer, RemoveOutcome
  <2>3. DOMAIN server'.fids \subseteq DOMAIN server.fids
    BY <2>2 DEF TouchesOnly, Known
  <2> QED
    BY <1>1, <1>3, <1>4, <1>5, <1>6, <1>7, <2>2, <2>3, HandleStep
<1>8. CASE ~handle[h].deletePending
  <2>1. UNCHANGED server
    BY <1>8 DEF Cleanup
  <2>2. Follows(server, server') /\ TouchesOnly(server, server', handle[h].id)
    BY <2>1, TypedServer
  <2> QED
    BY <1>1, <1>3, <1>4, <1>5, <1>6, <1>8, <2>1, <2>2, HandleStep
<1> QED
  BY <1>7, <1>8

----------------------------------------------------------------------------
(* The invariant is inductive.                                             *)

LEMMA StutterStep == ASSUME IInv, UNCHANGED vars PROVE IInv'
<1>1. /\ UNCHANGED <<fileIdUnallocatedStart, reusableFileIds, held>> /\ UNCHANGED <<rootId, begun>>
      /\ server' = server /\ frame' = frame /\ handle' = handle
  BY DEF vars
<1>2. Allocator'
  BY <1>1 DEF IInv, Allocator, Ids!TypeOK, Ids!Partition, Ids!Compact
<1>3. Places'
  <2>1. \A t \in Thread : IdOfPlace(frame[t])' /\ AskedOfPlace(frame[t])'
    BY <1>1 DEF IInv, Places, IdOfPlace, AskedOfPlace, Toward
  <2>2. AttachAlone'
    BY <1>1 DEF IInv, Places, AttachAlone, Starting, Toward
  <2>3. HandleOfPlace'
    BY <1>1 DEF IInv, Places, HandleOfPlace, Opening, Finding, Toward
  <2> QED
    BY <2>1, <2>2, <2>3 DEF Places
<1>4. TypeOK'
  BY <1>1, <1>2, TypedServer, TypesFollow DEF IInv, TypeOK
<1>5. OpenHandles' = OpenHandles /\ \A t \in Thread : Owned(t)' = Owned(t)
  BY <1>1 DEF OpenHandles, Owned
<1>6. Owners' /\ NoServerLeak' /\ Unknown' /\ HandleIntact'
  BY <1>1, <1>5 DEF IInv, Owners, OneOwner, NoServerLeak, Unknown, HandleIntact, Known
<1> QED
  BY <1>2, <1>3, <1>4, <1>6 DEF IInv

(* The invariant holds at first.                                           *)
LEMMA Initially == ASSUME Init PROVE IInv
<1>1. /\ fileIdUnallocatedStart = 0 /\ reusableFileIds = {} /\ held = {}
      /\ rootId = NOFID /\ frame = [t \in Thread |-> Idle]
      /\ handle = [h \in Handle |-> NoHandle] /\ begun = 0
      /\ server \in [fids : {[id \in {} |-> Root]}, tree : InitialTrees]
  BY DEF Init
<1>2. Allocator
  BY <1>1, ServerAssumption DEF Allocator, Ids!TypeOK, Ids!Partition, Ids!Compact, Ids!FileId
<1>3. ServerTyped(server) /\ DOMAIN server.fids = {}
  <2>1. /\ server = [fids |-> server.fids, tree |-> server.tree]
        /\ server.fids = [id \in {} |-> Root] /\ server.tree \in InitialTrees
    BY <1>1
  <2>2. server.tree \in Seq(ObjectType) /\ server.tree # << >>
    BY <2>1
  <2> QED
    BY <2>1, <2>2 DEF ServerTyped
<1>4. NoHandle \in HandleType(server) /\ ~NoHandle.open
  <2>1. << >> \in Seq(FileName)
    BY EmptySeq
  <2> QED
    BY <1>3, <2>1, NoId, TypedObjects DEF NoHandle, HandleType
<1>5. OpenHandles = {}
  BY <1>1, <1>4 DEF OpenHandles
<1>6. TypeOK
  BY <1>1, <1>2, <1>3, <1>4, <1>5, IdleFrame, NoId DEF TypeOK, Allocator
<1>7. /\ Idle.pc = "idle" /\ Idle.id = NOFID /\ Idle.saved = NOFID /\ Idle.h = "none"
      /\ Toward(Idle) = "idle"
  BY DEF Idle, Toward
<1>8. Places
  BY <1>1, <1>7 DEF Places, IdOfPlace, AskedOfPlace, AttachAlone, HandleOfPlace, Starting,
                    Opening, Finding, AfterWalk, AfterClunk, WithoutId
<1>9. \A t \in Thread : Owned(t) = {}
  BY <1>1, <1>7 DEF Owned
<1>10. Owners /\ NoServerLeak /\ Unknown /\ HandleIntact
  BY <1>1, <1>3, <1>5, <1>7, <1>9 DEF Owners, OneOwner, NoServerLeak, Unknown, HandleIntact
<1> QED
  BY <1>2, <1>6, <1>8, <1>10 DEF IInv

(* Every step keeps the invariant.                                         *)
LEMMA StepPreserves == ASSUME IInv, Next PROVE IInv'
<1>1. ASSUME NEW t \in Thread, Step(t) PROVE IInv'
  BY <1>1, SimpleAttachStep, SimpleWalkStep, FreeIdStep, SimpleClunkStep, ParentAttributesStep,
     SimpleMakeDirectoryStep, SimpleLinuxCreateStep, MadeOrCreatedStep, NotWalkedStep,
     OpenWalkedStep, ReopenStep, OldWalkedStep, RenameStep, ClunkOldStep, ReadEntriesStep,
     FindNextStep, FoundStep, ReturnedStep DEF Step
<1>2. ASSUME NEW t \in Thread, StartAttach(t) \/ ZwCreateFile(t) PROVE IInv'
  BY <1>2, StartAttachStep, ZwCreateFileStep
<1>3. ASSUME NEW t \in Thread, NEW h \in Handle,
             CloseFile(t, h) \/ MoveFile(t, h) \/ FindFiles(t, h)
      PROVE  IInv'
  BY <1>3, CloseFileStep, MoveFileStep, FindFilesStep
<1>4. ASSUME NEW h \in Handle, WriteFile(h) \/ Cleanup(h) PROVE IInv'
  BY <1>4, WriteFileStep, CleanupStep
<1>5. ASSUME NEW h \in Handle, DeleteFile(h) PROVE IInv'
  <2>1. Usable(h) /\ Delete(h, TRUE)
    BY <1>5 DEF DeleteFile
  <2> QED
    BY <2>1, DeleteStep
<1>6. ASSUME NEW h \in Handle, DeleteDirectory(h) PROVE IInv'
  <2>1. Usable(h) /\ \E r : Delete(h, r.error = 0 /\ Listed(server, handle[h].id, 0, r.last) = {})
    BY <1>6 DEF DeleteDirectory
  <2>2. \E allowed \in BOOLEAN : Delete(h, allowed)
    BY <2>1, Zenon
  <2> QED
    BY <2>1, <2>2, DeleteStep
<1> QED
  BY <1>1, <1>2, <1>3, <1>4, <1>5, <1>6 DEF Next

(* Whatever the callbacks, the other client and the server do, in whatever *)
(* order: the invariant always holds.                                      *)
THEOREM Inductive == Spec => []IInv
<1>1. Init => IInv
  BY Initially
<1>2. IInv /\ [Next]_vars => IInv'
  BY StepPreserves, StutterStep
<1> QED
  BY <1>1, <1>2, PTL DEF Spec

----------------------------------------------------------------------------
(* The properties.                                                         *)

(* Every variable keeps its type; in particular no open handle is without  *)
(* a file ID, and no fid of the server is out of the range of file IDs.    *)
THEOREM TypeCorrect == Spec => []TypeOK
<1>1. IInv => TypeOK
  BY DEF IInv
<1> QED
  BY <1>1, Inductive, PTL

(* No two callbacks, handles or the root ever work with one file ID, and   *)
(* the allocator never hands out one that is in use.                       *)
THEOREM OneOwnerAlways == Spec => []OneOwner
<1>1. IInv => OneOwner
  BY DEF IInv, Owners
<1> QED
  BY <1>1, Inductive, PTL

(* The server knows no file ID that the client has forgotten, whatever     *)
(* fails half way through a callback.                                      *)
THEOREM NoServerLeakAlways == Spec => []NoServerLeak
<1>1. IInv => NoServerLeak
  BY DEF IInv
<1> QED
  BY <1>1, Inductive, PTL

(* A handle's file ID denotes what was opened until the handle is cleaned  *)
(* up, whatever is renamed, deleted or reused meanwhile.                   *)
THEOREM HandleIntactAlways == Spec => []HandleIntact
<1>1. IInv => HandleIntact
  BY DEF IInv
<1> QED
  BY <1>1, Inductive, PTL

(* What a callback gives back is an ID that it got and still had.          *)
LEMMA FreesOwn == ASSUME IInv, NEW t \in Thread PROVE frame[t].id \in held \cup {NOFID}
  BY OwnersMean DEF OwnedBy

(* A walk begins with the allocation of an ID.                             *)
LEMMA WalkAllocates ==
  ASSUME NEW t, NEW f, NEW dir, NEW names, NEW next, StartWalk(t, f, dir, names, next)
  PROVE  (\E id \in 0 .. NOFID : Ids!AllocateFileId(id)) /\ UNCHANGED server
  BY DEF StartWalk

(* Every step is one of the allocator or leaves it alone.                  *)
LEMMA IdsStep == ASSUME IInv, [Next]_vars PROVE [Ids!Next]_(Ids!vars)
<1> DEFINE Allocates == \E id \in 0 .. NOFID : Ids!AllocateFileId(id)
<1>1. Allocates => Ids!Next
  <2>1. 0 .. NOFID = Ids!FileId \cup {NOFID}
    BY ServerAssumption DEF Ids!FileId
  <2> QED
    BY <2>1 DEF Ids!Next
<1>2. UNCHANGED ids => UNCHANGED Ids!vars
  BY DEF ids, Ids!vars
<1> HIDE DEF Allocates
<1>3. ASSUME NEW t \in Thread, FreeId(t) PROVE Ids!Next
  BY <1>3, FreesOwn DEF FreeId, Ids!Next
<1>4. ASSUME NEW t \in Thread, StartAttach(t) PROVE Allocates
  BY <1>4 DEF StartAttach, Allocates
<1>5. ASSUME NEW t \in Thread, ZwCreateFile(t) PROVE Allocates
  BY <1>5, WalkAllocates DEF ZwCreateFile, Allocates
<1>6. ASSUME NEW t \in Thread, NEW h \in Handle, MoveFile(t, h) PROVE Allocates
  BY <1>6, WalkAllocates DEF MoveFile, Allocates
<1>7. ASSUME NEW t \in Thread, MadeOrCreated(t) \/ NotWalked(t) \/ OldWalked(t) \/ FindNext(t)
      PROVE  Allocates \/ UNCHANGED ids
  BY <1>7, WalkAllocates DEF MadeOrCreated, NotWalked, OldWalked, FindNext, Allocates
<1>8. ASSUME NEW t \in Thread,
             \/ SimpleAttach(t) \/ SimpleWalk(t) \/ SimpleClunk(t) \/ ParentAttributes(t)
             \/ SimpleMakeDirectory(t) \/ SimpleLinuxCreate(t) \/ OpenWalked(t) \/ Reopen(t)
             \/ Rename(t) \/ ClunkOld(t) \/ ReadEntries(t) \/ Found(t) \/ Return(t)
      PROVE  UNCHANGED ids
  BY <1>8 DEF SimpleAttach, SimpleWalk, SimpleClunk, ParentAttributes, SimpleMakeDirectory,
              SimpleLinuxCreate, OpenWalked, Reopen, Rename, ClunkOld, ReadEntries, Found, Return
<1>9. ASSUME NEW t \in Thread, NEW h \in Handle, CloseFile(t, h) \/ FindFiles(t, h)
      PROVE  UNCHANGED ids
  BY <1>9 DEF CloseFile, FindFiles
<1>10. ASSUME NEW h \in Handle, WriteFile(h) \/ DeleteFile(h) \/ DeleteDirectory(h) \/ Cleanup(h)
       PROVE  UNCHANGED ids
  BY <1>10 DEF WriteFile, DeleteFile, DeleteDirectory, Delete, Cleanup
<1>11. ASSUME NEW t \in Thread, Step(t) PROVE Ids!Next \/ UNCHANGED ids
  BY <1>1, <1>3, <1>7, <1>8, <1>11 DEF Step
<1>12. Next => Ids!Next \/ UNCHANGED ids
  BY <1>1, <1>4, <1>5, <1>6, <1>9, <1>10, <1>11 DEF Next
<1>13. UNCHANGED vars => UNCHANGED ids
  BY DEF vars, ids
<1> QED
  BY <1>2, <1>12, <1>13

(* The callbacks use the allocator as it asks to be used: each ID that is  *)
(* given back was handed out and not given back before.                    *)
THEOREM IdsDisciplined == Spec => IdDiscipline
<1>1. Init => Ids!Init
  BY DEF Init, Ids!Init
<1>2. IInv /\ [Next]_vars => [Ids!Next]_(Ids!vars)
  BY IdsStep
<1> QED
  BY <1>1, <1>2, Inductive, PTL DEF Spec, IdDiscipline, Ids!Spec

(* What the callback of one thread may do to the server's tree and with    *)
(* the file it opens.                                                      *)
Honours(t) ==
    /\ Grows(server, server') => frame[t].asked \in Creating
    /\ Empties(server, server') => Truncates(frame[t].asked)
    /\ Truncates(frame[t].disposition) => ~OpensFull(t)

(* Nothing is opened where no handle is.                                   *)
NoneOpens == \A h \in Handle : handle'[h].open => handle[h].open

(* Such a step opens no file with content either.                          *)
LEMMA OpensNothing == ASSUME NEW t, NoneOpens PROVE ~OpensFull(t)
  BY DEF NoneOpens, OpensFull

(* With the same tree nothing has been added or emptied.                   *)
LEMMA SameTree ==
  ASSUME IInv, server'.tree = server.tree PROVE ~Grows(server, server') /\ ~Empties(server, server')
<1>1. Len(server.tree) \in Nat
  BY TypedServer, TypedObjects
<1> QED
  BY <1>1 DEF Grows, Empties

(* A step that changes neither tree nor handles honours everything.        *)
LEMMA NothingHonours ==
  ASSUME IInv, server'.tree = server.tree, NoneOpens \/ UNCHANGED handle, NEW t PROVE Honours(t)
<1>1. NoneOpens
  BY DEF NoneOpens
<1> QED
  BY <1>1, SameTree, OpensNothing DEF Honours

(* Only a callback that was asked to create creates.                       *)
LEMMA MakesHonours ==
  ASSUME IInv, NEW t \in Thread, SimpleMakeDirectory(t) \/ SimpleLinuxCreate(t) PROVE Honours(t)
<1> DEFINE f == frame[t]
<1>1. f.pc \in {"mkdir", "create"} /\ f.path \in Seq(FileName) /\ f.write \in BOOLEAN
  BY FrameBefore DEF SimpleMakeDirectory, SimpleLinuxCreate, Frame
<1>2. f.asked \in Creating
  BY <1>1, FrameBefore DEF AskedOfPlace, Toward
<1>3. Name(f.path) \in EntryName
  BY <1>1, Paths
<1>5. ~OpensFull(t)
  <2>1. NoneOpens
    BY DEF NoneOpens, SimpleMakeDirectory, SimpleLinuxCreate
  <2> QED
    BY <2>1, OpensNothing
<1>4. ~Empties(server, server')
  <2>1. CASE SimpleMakeDirectory(t)
    <3>1. \E r \in MakeDirectory(server, f.id, Name(f.path)) : server' = r.server
      BY <2>1 DEF SimpleMakeDirectory
    <3> QED
      BY <1>3, <3>1, TypedServer, MakeDirectoryOutcome
  <2>2. CASE SimpleLinuxCreate(t)
    <3>1. \E r \in LinuxCreate(server, f.id, Name(f.path), f.write) : server' = r.server
      BY <2>2 DEF SimpleLinuxCreate
    <3> QED
      BY <1>1, <1>3, <3>1, TypedServer, LinuxCreateOutcome
  <2> QED
    BY <2>1, <2>2
<1> QED
  BY <1>2, <1>4, <1>5 DEF Honours

(* Only a callback that was asked to truncate truncates, and while it      *)
(* still wants to, the file it opens is empty.                             *)
LEMMA OpensHonours ==
  ASSUME IInv, NEW t \in Thread, frame[t].pc \in {"walked", "rewalked", "reopen"},
         NEW again \in BOOLEAN, Opens(t, again)
  PROVE  Honours(t)
<1> DEFINE f == frame[t]
           write == f.write /\ ~again
           truncate == Truncates(f.disposition)
<1>1. PICK r \in LinuxOpen(server, f.id, write, truncate) :
         /\ server' = r.server
         /\ \/ /\ r.error = 0
               /\ handle' = [handle EXCEPT ![f.h] = Context(f, r.server.fids[f.id])]
            \/ UNCHANGED handle
  BY DEF Opens, Attempt
<1>2. write \in BOOLEAN /\ truncate \in BOOLEAN
  BY DEF Truncates
<1>3. truncate => Truncates(f.asked)
  BY FrameBefore DEF AskedOfPlace, Toward, Truncates
<1>4. truncate <=> Truncates(f.disposition)
  OBVIOUS
<1> HIDE DEF write, truncate
<1>5. /\ ~Grows(server, server') /\ (Empties(server, server') => truncate)
      /\ r.error = 0 => Known(server, f.id)
      /\ Known(server, f.id) => server'.fids[f.id] = server.fids[f.id]
      /\ r.error = 0 /\ truncate => Emptied(server', server.fids[f.id])
  <2>1. /\ r.error = 0 => Known(server, f.id)
        /\ Known(server, f.id) => r.server.fids[f.id] = server.fids[f.id]
        /\ ~Grows(server, r.server) /\ (Empties(server, r.server) => truncate)
        /\ r.error = 0 /\ truncate => Emptied(r.server, server.fids[f.id])
    BY <1>2, TypedServer, LinuxOpenOutcome
  <2> QED
    BY <1>1, <2>1
<1>6. truncate => ~OpensFull(t)
  <2>1. CASE UNCHANGED handle
    <3>1. NoneOpens
      BY <2>1 DEF NoneOpens
    <3> QED
      BY <3>1, OpensNothing
  <2>2. CASE r.error = 0 /\ handle' = [handle EXCEPT ![f.h] = Context(f, server'.fids[f.id])]
    <3>1. ASSUME truncate, NEW h \in Handle, f.h = h PROVE Emptied(server', handle'[h].object)
      <4>1. handle'[h] = Context(f, server'.fids[f.id])
        BY <2>2, <3>1 DEF IInv, TypeOK
      <4>2. handle'[h].object = server'.fids[f.id]
        BY <4>1 DEF Context, NoHandle
      <4> QED
        BY <1>5, <2>2, <3>1, <4>2
    <3> QED
      BY <3>1 DEF OpensFull, Emptied
  <2> QED
    BY <1>1, <2>1, <2>2
<1> QED
  BY <1>3, <1>4, <1>5, <1>6 DEF Honours

(* A rename adds and empties nothing.                                      *)
LEMMA RenameHonours == ASSUME IInv, NEW t \in Thread, Rename(t) PROVE Honours(t)
<1> DEFINE f == frame[t]
<1>3. ~OpensFull(t)
  <2>1. ASSUME NEW h \in Handle, handle'[h].open PROVE handle[h].open
    <3>1. CASE UNCHANGED handle
      BY <2>1, <3>1
    <3>2. CASE handle' = [handle EXCEPT ![f.h].path = f.newPath]
      <4>1. handle \in [Handle -> HandleType(server)]
        BY DEF IInv, TypeOK
      <4>2. handle'[h].open = handle[h].open
        BY <3>2, <4>1 DEF HandleType
      <4> QED
        BY <2>1, <4>2
    <3> QED
      BY <3>1, <3>2 DEF Rename
  <2> QED
    BY <2>1, OpensNothing DEF NoneOpens
<1>1. CASE f.error # 0
  BY <1>1, <1>3, SameTree DEF Rename, Honours
<1>2. CASE f.error = 0
  <2>1. PICK r \in RenameAt(server, f.saved, Name(f.path), f.id, Name(f.newPath)) :
           server' = r.server
    BY <1>2 DEF Rename
  <2>2. Name(f.newPath) \in EntryName
    <3>1. f.newPath \in Seq(FileName)
      BY FrameBefore DEF Frame
    <3> QED
      BY <3>1, Paths
  <2>3. ~Grows(server, server') /\ ~Empties(server, server')
    BY <2>1, <2>2, TypedServer, RenameAtOutcome
  <2> QED
    BY <1>3, <2>3 DEF Honours
<1> QED
  BY <1>1, <1>2

(* The steps of a callback that leave the tree and the handles alone.      *)
LEMMA TreeStays ==
  ASSUME IInv, NEW t \in Thread,
         \/ SimpleAttach(t) \/ SimpleWalk(t) \/ FreeId(t) \/ SimpleClunk(t) \/ ParentAttributes(t)
         \/ MadeOrCreated(t) \/ NotWalked(t) \/ OldWalked(t) \/ ClunkOld(t)
         \/ ReadEntries(t) \/ FindNext(t) \/ Found(t) \/ Return(t)
  PROVE  server'.tree = server.tree /\ UNCHANGED handle
<1> DEFINE f == frame[t]
<1>1. f.id \in 0 .. NOFID /\ f.names \in Seq(EntryName)
  BY FrameBefore DEF Frame
<1>2. ASSUME SimpleAttach(t) PROVE server'.tree = server.tree
  <2>1. \E r \in Attach(server, f.id) : server' = r.server
    BY <1>2 DEF SimpleAttach
  <2> QED
    BY <1>1, <2>1, TypedServer, AttachOutcome
<1>3. ASSUME SimpleWalk(t) PROVE server'.tree = server.tree
  <2>1. \E r \in Walk(server, f.dir, f.id, f.names) : server' = r.server
    BY <1>3 DEF SimpleWalk
  <2> QED
    BY <1>1, <2>1, TypedServer, WalkOutcome
<1>4. ASSUME SimpleClunk(t) PROVE server'.tree = server.tree
  <2>1. \E r \in Clunk(server, f.id) : server' = r.server
    BY <1>4 DEF SimpleClunk
  <2> QED
    BY <2>1, TypedServer, ClunkOutcome
<1>5. ASSUME ParentAttributes(t) \/ Found(t) PROVE server'.tree = server.tree
  <2>1. UNCHANGED server \/ \E r \in GetAttributes(server, f.id) : server' = r.server
    BY <1>5 DEF ParentAttributes, Found
  <2> QED
    BY <2>1, GetAttributesOutcome
<1>6. ASSUME MadeOrCreated(t) \/ NotWalked(t) \/ OldWalked(t) \/ FindNext(t)
      PROVE  server'.tree = server.tree
  BY <1>6 DEF MadeOrCreated, NotWalked, OldWalked, FindNext, StartWalk
<1>7. ASSUME FreeId(t) \/ ClunkOld(t) \/ ReadEntries(t) \/ Return(t)
      PROVE  server'.tree = server.tree
  BY <1>7 DEF FreeId, ClunkOld, ReadEntries, Return
<1>8. UNCHANGED handle
  <2>1. CASE SimpleAttach(t) \/ SimpleWalk(t) \/ FreeId(t) \/ SimpleClunk(t) \/ ParentAttributes(t)
    BY <2>1 DEF SimpleAttach, SimpleWalk, FreeId, SimpleClunk, ParentAttributes
  <2>2. CASE MadeOrCreated(t) \/ NotWalked(t) \/ OldWalked(t) \/ ClunkOld(t)
    BY <2>2 DEF MadeOrCreated, NotWalked, OldWalked, ClunkOld
  <2>3. CASE ReadEntries(t) \/ FindNext(t) \/ Found(t) \/ Return(t)
    BY <2>3 DEF ReadEntries, FindNext, Found, Return
  <2> QED
    BY <2>1, <2>2, <2>3
<1> QED
  BY <1>2, <1>3, <1>4, <1>5, <1>6, <1>7, <1>8

(* A step of a callback changes no other callback's frame.                 *)
LEMMA OthersStay ==
  ASSUME IInv, NEW t \in Thread, Step(t)
  PROVE  \A u \in Thread \ {t} : frame'[u] = frame[u]
<1>1. ASSUME NEW g, Set(t, g) PROVE \A u \in Thread \ {t} : frame'[u] = frame[u]
  BY <1>1 DEF Set, IInv, TypeOK
<1>2. \E g : Set(t, g)
  <2>1. CASE SimpleAttach(t) \/ SimpleWalk(t) \/ FreeId(t) \/ SimpleClunk(t)
    BY <2>1 DEF SimpleAttach, SimpleWalk, FreeId, SimpleClunk
  <2>2. CASE ParentAttributes(t) \/ SimpleMakeDirectory(t) \/ SimpleLinuxCreate(t)
    BY <2>2 DEF ParentAttributes, SimpleMakeDirectory, SimpleLinuxCreate
  <2>3. CASE MadeOrCreated(t) \/ NotWalked(t) \/ OldWalked(t) \/ FindNext(t)
    BY <2>3 DEF MadeOrCreated, NotWalked, OldWalked, FindNext, StartWalk
  <2>4. CASE OpenWalked(t) \/ Reopen(t)
    BY <2>4 DEF OpenWalked, Reopen, Opens
  <2>5. CASE Rename(t) \/ ClunkOld(t) \/ ReadEntries(t) \/ Found(t) \/ Return(t)
    BY <2>5 DEF Rename, ClunkOld, ReadEntries, Found, Return
  <2> QED
    BY <2>1, <2>2, <2>3, <2>4, <2>5 DEF Step
<1> QED
  BY <1>1, <1>2

(* No step of a callback does more to the tree than its disposition        *)
(* allows.                                                                 *)
LEMMA StepHonours == ASSUME IInv, NEW t \in Thread, Step(t) PROVE Honours(t)
<1>1. CASE OpenWalked(t)
  <2>1. frame[t].pc \in {"walked", "rewalked"}
        /\ (UNCHANGED <<server, handle>> \/ Opens(t, FALSE))
    BY <1>1 DEF OpenWalked
  <2> QED
    BY <2>1, OpensHonours, NothingHonours
<1>2. CASE Reopen(t)
  BY <1>2, OpensHonours DEF Reopen
<1>3. CASE SimpleMakeDirectory(t) \/ SimpleLinuxCreate(t)
  BY <1>3, MakesHonours
<1>4. CASE Rename(t)
  BY <1>4, RenameHonours
<1>5. CASE server'.tree = server.tree /\ UNCHANGED handle
  BY <1>5, NothingHonours
<1> QED
  BY <1>1, <1>2, <1>3, <1>4, <1>5, TreeStays DEF Step

(* A callback adds an object only for a disposition that creates, and      *)
(* empties a file only for one that overwrites, whatever it rewrote its    *)
(* disposition to meanwhile; and one that still wants to overwrite opens   *)
(* no file with content, not even by its second attempt.                   *)
THEOREM DispositionsHonoured == Spec => DispositionHonoured
<1> DEFINE Honoured == \A t \in Thread : frame'[t] # frame[t] => Honours(t)
<1>1. ASSUME IInv, Next PROVE Honoured
  <2>1. ASSUME NEW t \in Thread, Step(t) PROVE Honoured
    BY <1>1, <2>1, StepHonours, OthersStay
  <2>2. ASSUME UNCHANGED server, NoneOpens \/ UNCHANGED handle PROVE Honoured
    BY <1>1, <2>2, NothingHonours
  <2>3. ASSUME UNCHANGED frame PROVE Honoured
    BY <2>3
  <2>4. ASSUME NEW t \in Thread, StartAttach(t) \/ ZwCreateFile(t)
        PROVE  UNCHANGED server /\ UNCHANGED handle
    <3>1. CASE StartAttach(t)
      BY <3>1 DEF StartAttach
    <3>2. CASE ZwCreateFile(t)
      <4>1. \E f, dir, names, next : StartWalk(t, f, dir, names, next)
        BY <3>2 DEF ZwCreateFile
      <4>2. UNCHANGED handle
        BY <3>2 DEF ZwCreateFile
      <4> QED
        BY <4>1, <4>2, WalkAllocates
    <3> QED
      BY <2>4, <3>1, <3>2
  <2>5. ASSUME NEW t \in Thread, NEW h \in Handle, MoveFile(t, h) \/ FindFiles(t, h)
        PROVE  UNCHANGED server /\ UNCHANGED handle
    BY <2>5 DEF MoveFile, FindFiles, StartWalk
  <2>6. ASSUME NEW t \in Thread, NEW h \in Handle, CloseFile(t, h)
        PROVE  UNCHANGED server /\ NoneOpens
    <3>1. UNCHANGED server /\ handle' = [handle EXCEPT ![h] = NoHandle]
      BY <2>6 DEF CloseFile
    <3>2. handle \in [Handle -> HandleType(server)]
      BY <1>1 DEF IInv, TypeOK
    <3>3. ~NoHandle.open
      BY DEF NoHandle
    <3>4. ASSUME NEW g \in Handle, handle'[g].open PROVE handle[g].open
      BY <3>1, <3>2, <3>3, <3>4
    <3> QED
      BY <3>1, <3>4 DEF NoneOpens
  <2>7. ASSUME NEW h \in Handle, WriteFile(h) \/ DeleteFile(h) \/ DeleteDirectory(h) \/ Cleanup(h)
        PROVE  UNCHANGED frame
    BY <2>7 DEF WriteFile, DeleteFile, DeleteDirectory, Delete, Cleanup
  <2> QED
    BY <1>1, <2>1, <2>2, <2>3, <2>4, <2>5, <2>6, <2>7 DEF Next
<1>2. ASSUME UNCHANGED vars PROVE Honoured
  BY <1>2 DEF vars
<1>3. IInv /\ [Next]_vars => Honoured
  BY <1>1, <1>2
<1>4. Honoured <=>
        \A t \in Thread : frame'[t] # frame[t] =>
          /\ Len(server'.tree) > Len(server.tree) => frame[t].asked \in Creating
          /\ (\E i \in DOMAIN server.tree : ~server.tree[i].empty /\ server'.tree[i].empty)
                => Truncates(frame[t].asked)
          /\ Truncates(frame[t].disposition) => ~OpensFull(t)
  BY DEF Honours, Grows, Empties
<1> QED
  BY <1>3, <1>4, Inductive, PTL DEF Spec, DispositionHonoured

=============================================================================
