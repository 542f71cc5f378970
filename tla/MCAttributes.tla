---------------------------- MODULE MCAttributes ----------------------------
(***************************************************************************)
(* TLC's instance of Attributes.  A DWORD has two bits, so that every time *)
(* and size of the full width is a number below 16; a second has two units *)
(* of two nanoseconds, and the epochs are three seconds apart, so that a   *)
(* time below 6 is before 1970, and so is one of the server's two times.   *)
(***************************************************************************)
EXTENDS Attributes

MCServerTimes == {<<15, 1>>, <<2, 3>>}

=============================================================================
