------------------------------ MODULE MCCodec ------------------------------
(* Every message whose layout code and comments agree upon, with strings   *)
(* and lists of several lengths.                                           *)
EXTENDS Codec

MCAgreed == DOMAIN Coded \ {"CreateRequest"}

============================================================================
