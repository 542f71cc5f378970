----------------------------- MODULE MCTransfer -----------------------------
(***************************************************************************)
(* TLC's instance of Transfer.  Of the message sizes 25 leaves room for 2  *)
(* bytes of a write and 14 of a read, 12 for one byte of a read, so that   *)
(* both loops run several rounds; 0, 11, 12 and 23 are at or below one of  *)
(* the two headers.                                                        *)
(***************************************************************************)
EXTENDS Transfer
============================================================================
