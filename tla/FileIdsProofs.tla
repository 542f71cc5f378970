--------------------------- MODULE FileIdsProofs ---------------------------
(***************************************************************************)
(* The safety properties of the file ID allocator, for every value of      *)
(* NOFID.  The inductive invariant is the conjunction of all of them:      *)
(* Partition needs TypeOK to know that NOFID is never handed out, and      *)
(* FreshOrExhausted is a consequence of Partition alone.                   *)
(***************************************************************************)
EXTENDS FileIds, TLAPS

IInv == TypeOK /\ Partition /\ Compact

(* The allocator starts with no ID handed out and none to reuse.           *)
LEMMA InitEstablishes == Init => IInv
  BY NOFIDAssumption DEF Init, IInv, TypeOK, Partition, Compact, FileId

(* One call of AllocateFileId, whether it reuses an ID, takes a new one or *)
(* finds none left.                                                        *)
LEMMA AllocatePreserves ==
  ASSUME IInv, NEW id \in FileId \cup {NOFID}, AllocateFileId(id)
  PROVE  IInv'
  <1> USE NOFIDAssumption DEF IInv, TypeOK, Partition, Compact, FileId
  <1>1. CASE reusableFileIds # {}
    <2>1. /\ id \in reusableFileIds
          /\ id # NOFID
          /\ fileIdUnallocatedStart' = fileIdUnallocatedStart
          /\ reusableFileIds' = reusableFileIds \ {id}
          /\ held' = held \cup {id}
      BY <1>1 DEF AllocateFileId, Returns
    <2> QED  BY <2>1
  <1>2. CASE reusableFileIds = {} /\ fileIdUnallocatedStart # NOFID
    <2>1. /\ id = fileIdUnallocatedStart
          /\ fileIdUnallocatedStart' = fileIdUnallocatedStart + 1
          /\ reusableFileIds' = {}
          /\ held' = held \cup {id}
      BY <1>2 DEF AllocateFileId, Returns
    <2>2. held = 0 .. (fileIdUnallocatedStart - 1)
      BY <1>2
    <2>3. fileIdUnallocatedStart \in 0 .. (NOFID - 1)
      BY <1>2
    <2>4. held' = 0 .. fileIdUnallocatedStart
      BY <2>1, <2>2, <2>3
    <2>5. TypeOK'
      BY <2>1, <2>3, <2>4
    <2>6. Partition' /\ Compact'
      BY <2>1, <2>3, <2>4
    <2> QED  BY <2>5, <2>6
  <1>3. CASE reusableFileIds = {} /\ fileIdUnallocatedStart = NOFID
    <2>1. /\ id = NOFID
          /\ fileIdUnallocatedStart' = fileIdUnallocatedStart
          /\ reusableFileIds' = reusableFileIds
          /\ held' = held
      BY <1>3 DEF AllocateFileId, Returns
    <2> QED  BY <2>1
  <1> QED  BY <1>1, <1>2, <1>3

(* One call of FreeFileId: the IDs that the loop passes were all in the    *)
(* set, and the one at which it stops was not.                             *)
LEMMA FreePreserves ==
  ASSUME IInv, NEW id \in held \cup {NOFID}, FreeFileId(id)
  PROVE  IInv'
  <1> USE NOFIDAssumption DEF IInv, TypeOK, Partition, Compact, FileId
  <1>1. CASE id = NOFID
    <2>1. /\ held' = held
          /\ fileIdUnallocatedStart' = fileIdUnallocatedStart
          /\ reusableFileIds' = reusableFileIds
      BY <1>1 DEF FreeFileId
    <2> QED  BY <2>1
  <1>2. CASE id # NOFID
    <2> DEFINE Left(s) == (reusableFileIds \cup {id})
                             \ (s .. (fileIdUnallocatedStart - 1))
    <2>1. PICK start \in 0 .. fileIdUnallocatedStart :
             /\ \A s \in (start + 1) .. fileIdUnallocatedStart :
                   LastIsBelow(Left(s), s)
             /\ ~LastIsBelow(Left(start), start)
             /\ fileIdUnallocatedStart' = start
             /\ reusableFileIds' = Left(start)
      BY <1>2 DEF FreeFileId
    <2>2. id \in held /\ held' = held \ {id}
      BY <1>2 DEF FreeFileId
    <2>3. ASSUME NEW s \in (start + 1) .. fileIdUnallocatedStart
          PROVE  s - 1 \in reusableFileIds \cup {id}
      <3>1. LastIsBelow(Left(s), s)
        BY <2>1
      <3>2. Decrement(s) = s - 1
        BY DEF Decrement
      <3> QED  BY <3>1, <3>2 DEF LastIsBelow
    <2>4. start .. (fileIdUnallocatedStart - 1) \subseteq reusableFileIds \cup {id}
      <3>1. SUFFICES ASSUME NEW u \in start .. (fileIdUnallocatedStart - 1)
                     PROVE  u \in reusableFileIds \cup {id}
        OBVIOUS
      <3>2. u + 1 \in (start + 1) .. fileIdUnallocatedStart /\ (u + 1) - 1 = u
        OBVIOUS
      <3> QED  BY <2>3, <3>2
    <2>5. held' \cup reusableFileIds' = 0 .. (start - 1)
      BY <2>1, <2>2, <2>4
    <2>6. held' \cap reusableFileIds' = {}
      BY <2>1, <2>2
    <2>7. start > 0 => start - 1 \notin reusableFileIds'
      <3>1. SUFFICES ASSUME start > 0, start - 1 \in Left(start)
                     PROVE  FALSE
        BY <2>1
      <3>2. \A other \in Left(start) : other <= start - 1
        BY <2>2
      <3>3. Decrement(start) = start - 1
        BY <3>1 DEF Decrement
      <3> QED  BY <2>1, <3>1, <3>2, <3>3 DEF LastIsBelow
    <2>8. Compact'
      BY <2>1, <2>5, <2>7
    <2>9. TypeOK'
      BY <2>1, <2>2
    <2> QED  BY <2>1, <2>5, <2>6, <2>8, <2>9
  <1> QED  BY <1>1, <1>2

(* Every step of the allocator keeps the inductive invariant.              *)
LEMMA StepPreserves == IInv /\ [Next]_vars => IInv'
  <1> SUFFICES ASSUME IInv, [Next]_vars PROVE IInv'
    OBVIOUS
  <1>1. CASE \E id \in FileId \cup {NOFID} : AllocateFileId(id)
    BY <1>1, AllocatePreserves
  <1>2. CASE \E id \in held \cup {NOFID} : FreeFileId(id)
    BY <1>2, FreePreserves
  <1>3. CASE UNCHANGED vars
    BY <1>3 DEF vars, IInv, TypeOK, Partition, Compact
  <1> QED  BY <1>1, <1>2, <1>3 DEF Next

(* The inductive invariant holds in every behaviour.                       *)
THEOREM Inductive == Spec => []IInv
  BY InitEstablishes, StepPreserves, PTL DEF Spec

(* The members of the allocator stay in the range of file IDs.             *)
THEOREM TypeCorrect == Spec => []TypeOK
  BY Inductive, PTL DEF IInv

(* AllocateFileId and FreeFileId never lose an ID and never leave one with *)
(* a caller and in the reusable set at once.                               *)
THEOREM IdsPartitioned == Spec => []Partition
  BY Inductive, PTL DEF IInv

(* FreeFileId gives back to the unused range every ID that it can.         *)
THEOREM IdsCompact == Spec => []Compact
  BY Inductive, PTL DEF IInv

(* AllocateFileId never returns an ID that some caller owns, and returns   *)
(* NOFID only when callers own all of them.                                *)
THEOREM NextIdIsFresh == Spec => []FreshOrExhausted
  <1>1. ASSUME IInv, NEW id \in FileId \cup {NOFID}, Returns(id)
        PROVE  IF id = NOFID THEN held = FileId ELSE id \notin held
    <2> USE NOFIDAssumption DEF IInv, TypeOK, Partition, FileId
    <2>1. CASE reusableFileIds # {}
      BY <1>1, <2>1 DEF Returns
    <2>2. CASE reusableFileIds = {}
      <3>1. id = fileIdUnallocatedStart /\ held = 0 .. (id - 1)
        BY <1>1, <2>2 DEF Returns
      <3>2. id \notin held
        BY <3>1
      <3> QED  BY <3>1, <3>2
    <2> QED  BY <2>1, <2>2
  <1>2. IInv => FreshOrExhausted
    BY <1>1 DEF FreshOrExhausted
  <1> QED  BY <1>2, Inductive, PTL

============================================================================
