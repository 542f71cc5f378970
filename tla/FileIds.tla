------------------------------ MODULE FileIds ------------------------------
(***************************************************************************)
(* The allocator of 9P file IDs inside Mile::Cirno::Client: the members    *)
(* m_FileIdUnallocatedStart and m_ReusableFileIds and the two methods that *)
(* change them.  Both methods hold m_FileIdAllocationMutex from their      *)
(* first access to their last, so each of them is one action.              *)
(*                                                                         *)
(* The IDs that have been returned to a caller and not been given back are *)
(* not kept by the code; the ghost variable held keeps them here, so that  *)
(* the promise of the allocator can be stated.                             *)
(***************************************************************************)
EXTENDS Integers

CONSTANT NOFID      \* MILE_CIRNO_NOFID, the all-ones value: no ID at all

(* IDs are 0 .. NOFID - 1, and there is at least one.                      *)
ASSUME NOFIDAssumption == NOFID \in Nat \ {0}

VARIABLES fileIdUnallocatedStart,   \* every ID from here on was never used
          reusableFileIds,          \* IDs below it that were given back
          held                      \* ghost: IDs that callers own

vars == <<fileIdUnallocatedStart, reusableFileIds, held>>

FileId == 0 .. (NOFID - 1)

Init == /\ fileIdUnallocatedStart = 0
        /\ reusableFileIds = {}
        /\ held = {}

----------------------------------------------------------------------------

(* What AllocateFileId returns: the least ID that was given back, else the *)
(* first one never used, which is NOFID itself when none is left.          *)
Returns(id) ==
    IF reusableFileIds = {}
    THEN id = fileIdUnallocatedStart
    ELSE /\ id \in reusableFileIds
         /\ \A other \in reusableFileIds : id <= other

(* Fault: the range is not checked and the start passes NOFID.             *)
AllocateUnchecked(id) ==
    /\ Returns(id)
    /\ fileIdUnallocatedStart' = fileIdUnallocatedStart + (IF reusableFileIds = {} THEN 1 ELSE 0)
    /\ reusableFileIds' = reusableFileIds \ {id}
    /\ held' = held \cup ({id} \ {NOFID})

(* Fault: the ID that is returned stays in the reusable set.               *)
AllocateWithoutErase(id) ==
    /\ Returns(id)
    /\ fileIdUnallocatedStart' =
          IF reusableFileIds = {} /\ fileIdUnallocatedStart # NOFID
          THEN fileIdUnallocatedStart + 1
          ELSE fileIdUnallocatedStart
    /\ held' = held \cup ({id} \ {NOFID})
    /\ UNCHANGED reusableFileIds

AllocateFileId(id) ==
    /\ Returns(id)
    /\ fileIdUnallocatedStart' =
          IF reusableFileIds = {} /\ fileIdUnallocatedStart # NOFID
          THEN fileIdUnallocatedStart + 1
          ELSE fileIdUnallocatedStart
    /\ reusableFileIds' = reusableFileIds \ {id}
    /\ held' = held \cup ({id} \ {NOFID})

(* The test of the loop in FreeFileId: the greatest member is start - 1.   *)
(* The subtraction is one of 32-bit unsigned integers: 0 - 1 is NOFID.     *)
Decrement(start) == IF start = 0 THEN NOFID ELSE start - 1

LastIsBelow(ids, start) ==
    /\ Decrement(start) \in ids
    /\ \A id \in ids : id <= Decrement(start)

(* Fault: the ID is inserted and nothing is compacted.                     *)
FreeWithoutLoop(id) ==
    /\ held' = held \ {id}
    /\ reusableFileIds' = reusableFileIds \cup ({id} \ {NOFID})
    /\ UNCHANGED fileIdUnallocatedStart

(* Fault: the start is lowered once, the ID stays in the set.              *)
FreeWithoutErase(id) ==
    /\ held' = held \ {id}
    /\ reusableFileIds' = reusableFileIds \cup ({id} \ {NOFID})
    /\ fileIdUnallocatedStart' =
          IF id # NOFID /\ id = Decrement(fileIdUnallocatedStart)
          THEN id ELSE fileIdUnallocatedStart

(* The loop lowers the start while the test holds and drops each ID that   *)
(* it passes.  It ends at the first value for which the test fails.        *)
FreeFileId(id) ==
    /\ held' = held \ {id}
    /\ IF id = NOFID
       THEN UNCHANGED <<fileIdUnallocatedStart, reusableFileIds>>
       ELSE \E start \in 0 .. fileIdUnallocatedStart :
              LET Left(s) == (reusableFileIds \cup {id})
                                \ (s .. (fileIdUnallocatedStart - 1))
              IN  /\ \A s \in (start + 1) .. fileIdUnallocatedStart :
                        LastIsBelow(Left(s), s)
                  /\ ~LastIsBelow(Left(start), start)
                  /\ fileIdUnallocatedStart' = start
                  /\ reusableFileIds' = Left(start)

(* A caller gives back what it got, NOFID (no ID was left) included.       *)
Next == \/ \E id \in FileId \cup {NOFID} : AllocateFileId(id)
        \/ \E id \in held \cup {NOFID} : FreeFileId(id)

Spec == Init /\ [][Next]_vars

----------------------------------------------------------------------------

(* Both members stay in the range of 9P file IDs.                          *)
TypeOK == /\ fileIdUnallocatedStart \in 0 .. NOFID
          /\ reusableFileIds \subseteq FileId
          /\ held \subseteq FileId

(* No ID is ever lost and none is in two places: whatever lies below the   *)
(* start is owned by a caller or waits to be reused, never both.  A loop   *)
(* that compacts one ID too many or too few breaks it only some calls      *)
(* later.                                                                  *)
Partition == /\ held \cup reusableFileIds = 0 .. (fileIdUnallocatedStart - 1)
             /\ held \cap reusableFileIds = {}

(* The next ID to be returned is owned by nobody, and the allocator        *)
(* reports exhaustion only when callers own every ID there is.             *)
FreshOrExhausted ==
    \A id \in FileId \cup {NOFID} :
        Returns(id) => IF id = NOFID THEN held = FileId ELSE id \notin held

(* The IDs just below the start are never left in the reusable set: once   *)
(* every caller has given its IDs back, in whatever order, the allocator   *)
(* is as it was created and the set holds no memory.                       *)
Compact == fileIdUnallocatedStart > 0 => fileIdUnallocatedStart - 1 \in held

============================================================================
