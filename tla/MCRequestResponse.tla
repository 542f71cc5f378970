------------------------- MODULE MCRequestResponse -------------------------
(***************************************************************************)
(* TLC's instance of RequestResponse: two threads of Dokan.                *)
(***************************************************************************)
EXTENDS RequestResponse

CONSTANTS t1, t2

============================================================================
