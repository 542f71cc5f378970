------------------------- MODULE EnumerationProofs -------------------------
(***************************************************************************)
(* FindFiles implements Listing, for every set of names and offsets, every *)
(* way of cutting the directory into replies and every change by others.   *)
(***************************************************************************)
EXTENDS Enumeration, TLAPS

USE EnumerationAssumption

----------------------------------------------------------------------------
(* The invariant.                                                          *)

Pair(k) == <<k.name, k.object>>

Handled(k) == Pair(k) \in reported \/ k.name \in refused
Pending(k) == k \in todo \/ (pc = "attributes" /\ k = entry)

(* What a later reply has to bring; there is one while something of this   *)
(* reply is left or was handled.                                           *)
Beyond(k) ==
    /\ k.offset > lastOffset /\ \A e \in todo : k.offset > e.offset
    /\ todo # {} \/ lastOffset # 0

Located ==
    /\ dots \subseteq [offset : 1 .. MaxOffset, name : Dots, object : {Self}]
    /\ pc = "attributes" => entry \in Entry /\ entry.offset = lastOffset
                            /\ <<entry.name, object>> \in seen
    /\ pc # "idle" => Pairs(directory) \subseteq seen
    /\ \A e, g \in todo : e.offset = g.offset => e = g

(* An entry that stayed is the only one of its name in a reply, and what   *)
(* its walk finds.                                                         *)
Same ==
    \A k \in kept :
        /\ \A e \in todo : e.name = k.name => e = k
        /\ pc = "attributes" /\ entry.name = k.name => entry = k /\ object = k.object

(* An entry that stayed is handled, or will be and has not been reported.  *)
Progress ==
    \A k \in kept :
        /\ pc = "readDirectory" =>
              \/ k.offset > lastOffset /\ Pair(k) \notin reported
              \/ k.offset <= lastOffset /\ Handled(k)
        /\ pc \in {"entries", "attributes"} =>
              \/ (Pending(k) \/ Beyond(k)) /\ Pair(k) \notin reported
              \/ ~Pending(k) /\ ~Beyond(k) /\ Handled(k)
        /\ pc = "return" /\ status = "SUCCESS" => Handled(k)

IInv == TypeOK /\ Located /\ Same /\ Progress

----------------------------------------------------------------------------
(* Facts about single entries.                                             *)

(* The conversion of a code never says success for anything but 0.         *)
LEMMA NoRefusalIsSuccess == \A error : error # 0 => ToNtStatus(error) # "SUCCESS"
  BY DEF ToNtStatus

(* What is known of the first entry of a reply.                            *)
LEMMA FirstIsLeast ==
    ASSUME IInv, NEW e \in First
    PROVE  /\ e \in todo /\ e.offset \in 1 .. MaxOffset
           /\ \A g \in todo : g.offset \in 1 .. MaxOffset /\ e.offset <= g.offset
           /\ e.offset > lastOffset
           /\ e.name \notin Dots => e \in Entry
           /\ e.name \in Dots => e.name \notin Name
  BY DEF First, IInv, TypeOK, Located, Entry, Dots

(* Entries that stayed are regular entries of the directory.               *)
LEMMA KeptIsThere ==
    ASSUME IInv, NEW k \in kept
    PROVE  /\ k \in directory /\ k \in Entry /\ k.offset \in 1 .. MaxOffset
           /\ k.name \notin Dots /\ Pair(k) \in seen
           /\ \A e \in directory \cup dots : e.name = k.name \/ e.offset = k.offset => e = k
  BY DEF IInv, TypeOK, Located, Entry, Dots, Directory, Pair, Pairs

----------------------------------------------------------------------------
(* The invariant holds.                                                    *)

LEMMA InitIInv == Init => IInv
<1> SUFFICES ASSUME Init PROVE IInv
  OBVIOUS
<1>1. directory \subseteq Entry
  <2>1. PICK names \in SUBSET Name : \E at \in [names -> (1 .. MaxOffset) \X Object] :
           directory = {[offset |-> at[n][1], name |-> n, object |-> at[n][2]] : n \in names}
    BY DEF Init
  <2>2. PICK at \in [names -> (1 .. MaxOffset) \X Object] :
           directory = {[offset |-> at[n][1], name |-> n, object |-> at[n][2]] : n \in names}
    BY <2>1
  <2>3. \A n \in names : at[n][1] \in 1 .. MaxOffset /\ at[n][2] \in Object /\ n \in Name
    BY <2>2
  <2> QED
    BY <2>2, <2>3 DEF Entry
<1>2. dots \subseteq [offset : 1 .. MaxOffset, name : Dots, object : {Self}]
  <2>1. PICK a \in 1 .. MaxOffset, b \in 1 .. MaxOffset :
           dots = {[offset |-> a, name |-> ".", object |-> Self],
                   [offset |-> b, name |-> "..", object |-> Self]}
    BY DEF Init
  <2>2. "." \in Dots /\ ".." \in Dots
    BY DEF Dots
  <2> QED
    BY <2>1, <2>2
<1>3. TypeOK
  BY <1>1 DEF Init, TypeOK, Pairs
<1>4. Located
  BY <1>1, <1>2 DEF Init, Located, Pairs
<1>5. Same /\ Progress
  BY DEF Init, Same, Progress
<1> QED
  BY <1>3, <1>4, <1>5 DEF IInv

(* The callback begins a listing of what is there.                         *)
LEMMA FindFilesKeeps ==
    ASSUME IInv, NEW isDirectory, NEW hasFileId, FindFiles(isDirectory, hasFileId)
    PROVE  IInv'
<1>1. TypeOK' /\ Located' /\ Same'
  BY DEF FindFiles, Returns, IInv, TypeOK, Located, Same, server, Pairs
<1>2. Progress'
  <2> SUFFICES ASSUME NEW k \in kept'
               PROVE  /\ k.offset > 0 /\ pc' \in {"return", "readDirectory"}
                      /\ pc' = "return" => status' # "SUCCESS"
    BY DEF FindFiles, Progress, Pair
  <2>1. k \in Entry
    BY DEF FindFiles, IInv, TypeOK
  <2> QED
    BY <2>1 DEF FindFiles, Returns, Entry
<1> QED
  BY <1>1, <1>2 DEF IInv

(* A reply brings every entry up to its last, and is empty at the end.     *)
LEMMA ReadDirectoryKeeps ==
    ASSUME IInv, ReadDirectory
    PROVE  IInv'
<1> USE DEF IInv
<1>1. CASE \E error \in ErrorCodes : Fails(error)
  <2>1. pc' = "return" /\ status' # "SUCCESS"
    BY <1>1, NoRefusalIsSuccess DEF Fails, Returns
  <2>2. UNCHANGED <<server, entry, object, ghosts, changes, todo>> /\ lastOffset' = 0
    BY <1>1 DEF ReadDirectory, Fails
  <2>3. pc = "readDirectory"
    BY DEF ReadDirectory
  <2>4. TypeOK' /\ Located' /\ Same'
    BY <2>1, <2>2, <2>3 DEF TypeOK, Located, Same, server, ghosts, Entry
  <2> QED
    BY <2>1, <2>4 DEF Progress
<1>2. CASE ~ \E error \in ErrorCodes : Fails(error)
  <2>1. PICK reply \in Replies(lastOffset) : todo' = reply
    BY <1>2 DEF ReadDirectory
  <2>2. /\ pc = "readDirectory" /\ pc' = "entries" /\ lastOffset' = 0
        /\ UNCHANGED <<server, status, entry, object, ghosts, changes>>
    BY <1>2 DEF ReadDirectory
  <2>3. reply \subseteq directory \cup dots /\ \A e \in reply : e.offset > lastOffset
    BY <2>1 DEF Replies
  <2>4. directory \subseteq Entry /\ lastOffset \in Nat
        /\ dots \subseteq [offset : 1 .. MaxOffset, name : Dots, object : {Self}]
    BY DEF TypeOK, Located
  <2>5. TypeOK'
    BY <2>1, <2>2, <2>3, <2>4 DEF TypeOK, server, ghosts, Entry
  <2>9. Located'
    BY <2>1, <2>2, <2>3 DEF TypeOK, Located, Directory, server, ghosts
  <2>6. Same'
    BY <2>1, <2>2, <2>3, KeptIsThere DEF Same, ghosts
  <2>7. ASSUME NEW k \in kept
        PROVE  \/ (k \in reply \/ Beyond(k)') /\ Pair(k) \notin reported
               \/ k \notin reply /\ ~Beyond(k)' /\ Handled(k)
    <3>1. k \in directory /\ k.offset \in 1 .. MaxOffset
      BY <2>7, KeptIsThere
    <3>2. CASE k.offset <= lastOffset /\ Handled(k)
      <4>1. k \notin reply
        BY <2>3, <2>4, <3>1, <3>2
      <4>2. ~Beyond(k)'
        <5>1. CASE reply = {}
          BY <2>1, <2>2, <5>1 DEF Beyond
        <5>2. CASE reply # {}
          <6>1. PICK e \in reply : TRUE
            BY <5>2
          <6>2. e.offset > lastOffset /\ e.offset \in Nat
            BY <2>3, <2>4, <6>1 DEF Entry
          <6> QED
            BY <2>1, <2>4, <3>1, <3>2, <6>1, <6>2 DEF Beyond
        <5> QED
          BY <5>1, <5>2
      <4> QED
        BY <3>2, <4>1, <4>2
    <3>3. CASE k.offset > lastOffset /\ Pair(k) \notin reported
      <4>1. PICK g \in directory \cup dots :
               g.offset > lastOffset
               /\ reply = {e \in {e \in directory \cup dots : e.offset > lastOffset} :
                             e.offset <= g.offset}
        BY <2>1, <3>1, <3>3 DEF Replies
      <4>2. g.offset \in Nat /\ g \in reply
        BY <2>4, <4>1 DEF Entry
      <4>3. k \in reply \/ k.offset > g.offset
        BY <3>1, <3>3, <4>1, <4>2
      <4>4. \A e \in reply : e.offset \in Nat /\ e.offset <= g.offset
        BY <2>4, <4>1 DEF Entry
      <4>5. k \in reply \/ Beyond(k)'
        BY <2>1, <2>2, <3>1, <4>2, <4>3, <4>4 DEF Beyond
      <4> QED
        BY <3>3, <4>5
    <3> QED
      BY <2>2, <3>2, <3>3 DEF Progress
  <2>8. Progress'
    <3> SUFFICES ASSUME NEW k \in kept
                 PROVE  \/ (Pending(k) \/ Beyond(k))' /\ (Pair(k) \notin reported)'
                        \/ (~Pending(k) /\ ~Beyond(k) /\ Handled(k))'
      BY <2>2 DEF Progress, ghosts
    <3>1. Pending(k)' <=> k \in reply
      BY <2>1, <2>2 DEF Pending
    <3>2. (Handled(k)' <=> Handled(k)) /\ ((Pair(k) \notin reported)' <=> Pair(k) \notin reported)
      BY <2>2 DEF Handled, Pair, ghosts
    <3> QED
      BY <2>7, <3>1, <3>2
  <2> QED
    BY <2>5, <2>6, <2>8, <2>9
<1> QED
  BY <1>1, <1>2

(* How an entry that stayed stands after the first one has been taken from *)
(* the reply.                                                              *)
LEMMA FirstTaken ==
    ASSUME IInv, pc = "entries", NEW e \in First, NEW k \in kept,
           todo' = todo \ {e}, lastOffset' = e.offset
    PROVE  /\ k # e => (k \in todo' <=> k \in todo) /\ (~(k \in todo) => (Beyond(k)' <=> Beyond(k)))
           /\ k = e => ~(k \in todo') /\ ~Beyond(k)'
<1>1. /\ e \in todo /\ e.offset \in 1 .. MaxOffset /\ e.offset > lastOffset
      /\ \A g \in todo : g.offset \in 1 .. MaxOffset /\ e.offset <= g.offset
  BY FirstIsLeast
<1>2. k.offset \in 1 .. MaxOffset /\ lastOffset \in Nat
  BY KeptIsThere DEF IInv, TypeOK
<1>3. CASE k = e
  BY <1>1, <1>2, <1>3 DEF Beyond
<1>4. CASE k # e
  BY <1>1, <1>2, <1>4 DEF Beyond
<1> QED
  BY <1>3, <1>4

(* A dot entry is never one that stayed.                                   *)
LEMMA SkipDotsKeeps ==
    ASSUME IInv, NEW e \in First, SkipDots(e)
    PROVE  IInv'
<1> USE DEF IInv
<1>1. /\ pc = "entries" /\ pc' = pc /\ todo' = todo \ {e} /\ lastOffset' = e.offset
      /\ UNCHANGED <<server, status, entry, object, ghosts, changes>>
  BY DEF SkipDots
<1>2. /\ e \in todo /\ e.offset \in 1 .. MaxOffset /\ e.name \in Dots /\ e.name \notin Name
      /\ \A g \in todo : g.offset \in 1 .. MaxOffset /\ e.offset <= g.offset
  BY FirstIsLeast DEF SkipDots
<1>3. \A g \in todo' : g.offset > lastOffset'
  <2> SUFFICES ASSUME NEW g \in todo, g # e PROVE g.offset > e.offset
    BY <1>1
  <2>1. g.offset # e.offset
    BY <1>2 DEF Located
  <2> QED
    BY <1>2, <2>1
<1>4. TypeOK' /\ Located' /\ Same'
  BY <1>1, <1>2, <1>3 DEF TypeOK, Located, Same, server, ghosts
<1>5. ASSUME NEW k \in kept
      PROVE  \/ (Pending(k) \/ Beyond(k))' /\ Pair(k) \notin reported
             \/ (~Pending(k) /\ ~Beyond(k))' /\ Handled(k)
  <2>1. k # e
    BY <1>2, KeptIsThere
  <2>2. (k \in todo' <=> k \in todo) /\ (k \notin todo => (Beyond(k)' <=> Beyond(k)))
    BY <1>1, <2>1, FirstTaken
  <2> QED
    BY <1>1, <2>2 DEF Progress, Pending
<1>6. Progress'
  BY <1>1, <1>5 DEF Progress, Handled, Pair, ghosts
<1> QED
  BY <1>4, <1>6

(* A walk finds an entry that stayed, unless the server refuses.           *)
LEMMA SimpleWalkKeeps ==
    ASSUME IInv, NEW e \in First, SimpleWalk(e)
    PROVE  IInv'
<1> USE DEF IInv
<1>1. /\ pc = "entries" /\ todo' = todo \ {e} /\ lastOffset' = e.offset
      /\ UNCHANGED <<server, status, kept, seen, reported, changes>>
  BY DEF SimpleWalk
<1>2. /\ e \in todo /\ e.offset \in 1 .. MaxOffset /\ e \in Entry
      /\ \A g \in todo : g.offset \in 1 .. MaxOffset /\ e.offset <= g.offset
  BY FirstIsLeast DEF SimpleWalk
<1>3. \A g \in todo' : g.offset > lastOffset'
  <2> SUFFICES ASSUME NEW g \in todo, g # e PROVE g.offset > e.offset
    BY <1>1
  <2>1. g.offset # e.offset
    BY <1>2 DEF Located
  <2> QED
    BY <1>2, <2>1
<1>4. \/ \E f \in directory : /\ f.name = e.name /\ pc' = "attributes" /\ entry' = e
                              /\ object' = f.object /\ refused' = refused
      \/ /\ \A f \in directory : f.name # e.name
         /\ pc' = pc /\ entry' = entry /\ object' = object /\ refused' = refused
      \/ /\ refused' = refused \cup {e.name}
         /\ pc' = pc /\ entry' = entry /\ object' = object
  BY DEF SimpleWalk
<1>5. TypeOK'
  BY <1>1, <1>2, <1>3, <1>4 DEF TypeOK, server
<1>6. Located'
  BY <1>1, <1>2, <1>4 DEF Located, server, Pairs
<1>7. Same'
  <2> SUFFICES ASSUME NEW k \in kept
               PROVE  /\ \A g \in todo' : g.name = k.name => g = k
                      /\ pc' = "attributes" /\ entry'.name = k.name
                            => entry' = k /\ object' = k.object
    BY <1>1 DEF Same
  <2>1. \A g \in todo : g.name = k.name => g = k
    BY DEF Same
  <2>2. \A f \in directory : f.name = k.name => f = k
    BY KeptIsThere
  <2> QED
    BY <1>1, <1>2, <1>4, <2>1, <2>2
<1>8. ASSUME NEW k \in kept
      PROVE  \/ (Pending(k) \/ Beyond(k))' /\ Pair(k) \notin reported
             \/ (~Pending(k) /\ ~Beyond(k))' /\ Handled(k)'
  <2>1. k \in directory
    BY KeptIsThere
  <2>2. CASE k = e
    <3>1. k \notin todo' /\ ~Beyond(k)'
      BY <1>1, <2>2, FirstTaken
    <3>2. Pair(k) \notin reported
      BY <1>1, <1>2, <2>2 DEF Progress, Pending, Beyond
    <3>3. CASE pc' = "attributes" /\ entry' = e
      BY <2>2, <3>2, <3>3 DEF Pending
    <3>4. CASE pc' = pc /\ refused' = refused \cup {e.name}
      BY <1>1, <2>2, <3>1, <3>4 DEF Pending, Handled
    <3> QED
      BY <1>4, <2>1, <2>2, <3>3, <3>4
  <2>3. CASE k # e
    <3>1. (k \in todo' <=> k \in todo) /\ (k \notin todo => (Beyond(k)' <=> Beyond(k)))
      BY <1>1, <2>3, FirstTaken
    <3>2. Pending(k)' <=> Pending(k)
      BY <1>1, <1>4, <2>3, <3>1 DEF Pending
    <3>3. Handled(k) => Handled(k)'
      BY <1>1, <1>4 DEF Handled, Pair
    <3>4. k \in todo => Pending(k)
      BY DEF Pending
    <3> QED
      BY <1>1, <3>1, <3>2, <3>3, <3>4 DEF Progress
  <2> QED
    BY <2>2, <2>3
<1>9. Progress'
  <2>1. pc' \in {"entries", "attributes"}
    BY <1>1, <1>4
  <2> QED
    BY <1>1, <1>8, <2>1 DEF Progress, Pair
<1> QED
  BY <1>5, <1>6, <1>7, <1>9

(* An entry that stayed is reported with its own object, for the first     *)
(* time.                                                                   *)
LEMMA GetAttributesKeeps ==
    ASSUME IInv, GetAttributes
    PROVE  IInv'
<1> USE DEF IInv
<1>1. /\ pc = "attributes" /\ pc' = "entries"
      /\ UNCHANGED <<server, status, lastOffset, todo, kept, seen, changes>>
  BY DEF GetAttributes
<1>2. \/ reported' = reported \cup {<<entry.name, object>>} /\ refused' = refused
      \/ (\A e \in directory : e.object # object) /\ reported' = reported /\ refused' = refused
      \/ refused' = refused \cup {entry.name} /\ reported' = reported
  BY DEF GetAttributes
<1>3. TypeOK' /\ Located' /\ Same'
  BY <1>1 DEF TypeOK, Located, Same, server
<1>4. ASSUME NEW k \in kept
      PROVE  \/ (Pending(k) \/ Beyond(k))' /\ (Pair(k) \notin reported)'
             \/ (~Pending(k) /\ ~Beyond(k))' /\ Handled(k)'
  <2>1. entry.offset = lastOffset /\ entry.offset \in Nat /\ lastOffset \in Nat
    BY <1>1 DEF Located, Entry
  <2>2. Beyond(k)' <=> Beyond(k)
    BY <1>1 DEF Beyond
  <2>3. k \in directory /\ (entry.name = k.name => entry = k /\ object = k.object)
    BY <1>1, KeptIsThere DEF Same
  <2>4. CASE k = entry
    <3>1. k \notin todo /\ ~Beyond(k)
      BY <2>1, <2>4 DEF TypeOK, Beyond
    <3>2. Handled(k)'
      BY <1>2, <2>3, <2>4 DEF Handled, Pair
    <3> QED
      BY <1>1, <2>2, <3>1, <3>2 DEF Pending
  <2>5. CASE k # entry
    <3>1. Pending(k)' <=> Pending(k)
      BY <1>1, <2>5 DEF Pending
    <3>2. Pair(k) \in reported' <=> Pair(k) \in reported
      BY <1>2, <2>3, <2>5 DEF Pair
    <3>3. Handled(k) => Handled(k)'
      BY <1>2 DEF Handled, Pair
    <3> QED
      BY <1>1, <2>2, <3>1, <3>2, <3>3 DEF Progress, Pair
  <2> QED
    BY <2>4, <2>5
<1>5. Progress'
  BY <1>1, <1>4 DEF Progress
<1> QED
  BY <1>3, <1>5

(* The loop ends only when nothing that stayed is left.                    *)
LEMMA NextReplyKeeps ==
    ASSUME IInv, NextReply
    PROVE  IInv'
<1> USE DEF IInv
<1>1. /\ pc = "entries" /\ todo = {}
      /\ pc' = IF lastOffset # 0 THEN "readDirectory" ELSE "return"
      /\ UNCHANGED <<server, status, lastOffset, todo, entry, object, ghosts, changes>>
  BY DEF NextReply
<1>2. TypeOK' /\ Located' /\ Same'
  BY <1>1 DEF TypeOK, Located, Same, server, ghosts
<1>3. ASSUME NEW k \in kept
      PROVE  /\ lastOffset # 0 => \/ k.offset > lastOffset /\ Pair(k) \notin reported
                                  \/ k.offset <= lastOffset /\ Handled(k)
             /\ lastOffset = 0 => Handled(k)
  <2>1. k.offset \in Nat /\ lastOffset \in Nat
    BY KeptIsThere DEF TypeOK
  <2>2. ~Pending(k) /\ (Beyond(k) <=> k.offset > lastOffset /\ lastOffset # 0)
    BY <1>1 DEF Pending, Beyond
  <2> QED
    BY <1>1, <2>1, <2>2 DEF Progress
<1>4. Progress'
  BY <1>1, <1>3 DEF Progress, Handled, Pair, ghosts
<1> QED
  BY <1>2, <1>4

(* Others make names appear and disappear, and what stayed fewer.          *)
LEMMA OthersKeep ==
    ASSUME IInv, NEW entries \in SUBSET Entry, Become(entries)
    PROVE  IInv'
<1> USE DEF IInv
<1>1. /\ directory' = entries /\ kept' = kept \cap entries /\ seen' = seen \cup Pairs(entries)
      /\ changes' = changes + 1 /\ changes < MaxChanges /\ Directory(entries \cup dots)
      /\ UNCHANGED <<dots, local, reported, refused>>
  BY DEF Become
<1>2. TypeOK'
  BY <1>1 DEF TypeOK, local, Pairs
<1>3. Located' /\ Same'
  BY <1>1 DEF Located, Same, local
<1>4. Progress'
  BY <1>1 DEF Progress, Pending, Beyond, Handled, Pair, local
<1> QED
  BY <1>2, <1>3, <1>4

(* What others do leaves a directory of regular entries.                   *)
LEMMA OthersBecome ==
    ASSUME IInv, Others
    PROVE  \E entries \in SUBSET Entry : Become(entries)
  BY DEF Others, Create, Remove, Rename, IInv, TypeOK

LEMMA NextIInv == IInv /\ [Next]_vars => IInv'
<1> SUFFICES ASSUME IInv, [Next]_vars PROVE IInv'
  OBVIOUS
<1>1. CASE \E isDirectory, hasFileId \in BOOLEAN : FindFiles(isDirectory, hasFileId)
  BY <1>1, FindFilesKeeps
<1>2. CASE ReadDirectory
  BY <1>2, ReadDirectoryKeeps
<1>3. CASE GetAttributes
  BY <1>3, GetAttributesKeeps
<1>4. CASE NextReply
  BY <1>4, NextReplyKeeps
<1>5. CASE Return
  BY <1>5 DEF Return, IInv, TypeOK, Located, Same, Progress, server, ghosts
<1>6. CASE \E e \in First : SkipDots(e) \/ SimpleWalk(e)
  BY <1>6, SkipDotsKeeps, SimpleWalkKeeps
<1>7. CASE Others
  BY <1>7, OthersBecome, OthersKeep
<1>8. CASE UNCHANGED vars
  BY <1>8 DEF vars, server, local, ghosts, IInv, TypeOK, Located, Same, Progress,
              Pending, Beyond, Handled, Pair
<1> QED
  BY <1>1, <1>2, <1>3, <1>4, <1>5, <1>6, <1>7, <1>8 DEF Next, Step

LEMMA Inductive == Spec => []IInv
  BY InitIInv, NextIInv, PTL DEF Spec

(* The directory stays one, and offsets only grow within a reply.          *)
THEOREM TypeCorrect == Spec => []TypeOK
  BY Inductive, PTL DEF IInv

----------------------------------------------------------------------------
(* The refinement.                                                         *)

(* The initial states are those of a listing.                              *)
LEMMA InitIsListing == Init => Promised!Init
<1> SUFFICES ASSUME Init PROVE Promised!Init
  OBVIOUS
<1>1. directory \subseteq Entry
  BY InitIInv DEF IInv, TypeOK
<1> QED
  BY <1>1 DEF Init, Promised!Init, listingSucceeded

(* Every step is one of the listing, or none.                              *)
LEMMA StepIsListing == IInv /\ [Next]_vars => [Promised!Next]_Promised!vars
<1> SUFFICES ASSUME IInv, [Next]_vars PROVE [Promised!Next]_Promised!vars
  OBVIOUS
<1> USE DEF Promised!vars, listingSucceeded
<1>1. ASSUME NEW isDirectory, NEW hasFileId, FindFiles(isDirectory, hasFileId)
      PROVE  Promised!Begin
  BY <1>1 DEF FindFiles, Returns, Promised!Begin, Promised!Pairs, Pairs, server
<1>2. CASE ReadDirectory
  BY <1>2 DEF ReadDirectory, Fails, Returns, server, ghosts
<1>3. CASE GetAttributes
  <2>1. /\ pc = "attributes" /\ pc' = "entries"
        /\ UNCHANGED <<directory, status, kept, seen>>
    BY <1>3 DEF GetAttributes, server
  <2>2. entry \in Entry /\ <<entry.name, object>> \in seen
    BY <2>1 DEF IInv, Located
  <2>3. CASE reported' = reported \cup {<<entry.name, object>>} /\ refused' = refused
    <3>1. <<entry.name, object>> \in Promised!Pairs(kept) => <<entry.name, object>> \notin reported
      <4> SUFFICES ASSUME NEW k \in kept, k.name = entry.name, k.object = object
                   PROVE  Pair(k) \notin reported
        BY DEF Promised!Pairs, Pair
      <4>1. k = entry
        BY <2>1 DEF IInv, Same
      <4> QED
        BY <2>1, <4>1 DEF IInv, Progress, Pending
    <3>2. Promised!Report(<<entry.name, object>>)
      BY <2>1, <2>2, <2>3, <3>1 DEF Promised!Report
    <3> QED
      BY <2>2, <3>2 DEF Promised!Next
  <2>4. CASE reported' = reported /\ refused' = refused
    BY <2>1, <2>4
  <2>5. CASE reported' = reported /\ refused' = refused \cup {entry.name}
    <3>1. Promised!Refuse(entry.name)
      BY <2>1, <2>5 DEF Promised!Refuse
    <3> QED
      BY <2>2, <3>1 DEF Promised!Next
  <2> QED
    BY <1>3, <2>3, <2>4, <2>5 DEF GetAttributes
<1>4. CASE NextReply
  BY <1>4 DEF NextReply, server, ghosts
<1>5. CASE Return
  <2>1. /\ pc = "return" /\ pc' = "idle"
        /\ UNCHANGED <<directory, status, kept, seen, reported, refused>>
    BY <1>5 DEF Return, server, ghosts
  <2>2. CASE status = "SUCCESS"
    <3>1. \A e \in kept : <<e.name, e.object>> \in reported \/ e.name \in refused
      BY <2>1, <2>2 DEF IInv, Progress, Handled, Pair
    <3>2. Promised!Succeed
      BY <2>1, <2>2, <3>1 DEF Promised!Succeed
    <3> QED
      BY <3>2 DEF Promised!Next
  <2>3. CASE status # "SUCCESS"
    BY <2>1, <2>3 DEF Promised!Fail, Promised!Next
  <2> QED
    BY <2>2, <2>3
<1>6. ASSUME NEW e \in First, SkipDots(e)
      PROVE  UNCHANGED Promised!vars
  BY <1>6 DEF SkipDots, server, ghosts
<1>7. ASSUME NEW e \in First, SimpleWalk(e)
      PROVE  [Promised!Next]_Promised!vars
  <2>1. /\ pc = "entries" /\ pc' \in {"entries", "attributes"}
        /\ UNCHANGED <<directory, status, kept, seen, reported>>
    BY <1>7 DEF SimpleWalk, server
  <2>2. e \in Entry
    BY <1>7, FirstIsLeast DEF SimpleWalk
  <2>3. CASE refused' = refused
    BY <2>1, <2>3
  <2>4. CASE refused' = refused \cup {e.name}
    <3>1. Promised!Refuse(e.name)
      BY <2>1, <2>4 DEF Promised!Refuse
    <3> QED
      BY <2>2, <3>1 DEF Promised!Next
  <2> QED
    BY <1>7, <2>3, <2>4 DEF SimpleWalk
<1>8. CASE Others
  <2>1. PICK entries \in SUBSET Entry : Become(entries)
    BY <1>8, OthersBecome
  <2>2. Promised!Change
    BY <2>1 DEF Become, local, Promised!Change, Promised!Pairs, Pairs
  <2> QED
    BY <2>2 DEF Promised!Next
<1>9. CASE UNCHANGED vars
  BY <1>9 DEF vars, server, local, ghosts
<1> QED
  BY <1>1, <1>2, <1>3, <1>4, <1>5, <1>6, <1>7, <1>8, <1>9 DEF Next, Step, Promised!Next

(* Whatever others do and however the server cuts its replies, FindFiles   *)
(* is a listing.                                                           *)
THEOREM FindFilesIsListing == Spec => ImplementsListing
<1>1. Spec => Promised!Spec
  BY Inductive, InitIsListing, StepIsListing, PTL DEF Spec, Promised!Spec
<1> QED
  BY <1>1 DEF ImplementsListing

=============================================================================
