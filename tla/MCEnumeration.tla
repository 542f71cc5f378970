--------------------------- MODULE MCEnumeration ---------------------------
(***************************************************************************)
(* TLC's instance of Enumeration.                                          *)
(***************************************************************************)
EXTENDS Enumeration

CONSTANTS a, b, o, p

=============================================================================
