----------------------------- MODULE MCFileIds -----------------------------
(***************************************************************************)
(* TLC's instance of FileIds: a few IDs, so that exhaustion, reuse out of  *)
(* order and compaction over several IDs all happen.  The loop of          *)
(* FreeFileId, which FileIds states in closed form so that it can be       *)
(* proved about, is run here step by step and compared with that form.     *)
(***************************************************************************)
EXTENDS FileIds, FiniteSetsExt

(* One iteration after the other, as FreeFileId writes them.               *)
RECURSIVE RunLoop(_, _)
RunLoop(ids, start) ==
    IF ids # {} /\ Max(ids) = Decrement(start)
    THEN RunLoop(ids \ {Decrement(start)}, Decrement(start))
    ELSE <<start, ids>>

(* FreeFileId leaves the two members as the loop of the code leaves them.  *)
FreeAsTheLoopDoes ==
    [][\A id \in held :
          (held' = held \ {id}) =>
             <<fileIdUnallocatedStart', reusableFileIds'>> =
                RunLoop(reusableFileIds \cup {id}, fileIdUnallocatedStart)]_vars

============================================================================
