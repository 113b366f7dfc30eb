------------------------------- MODULE MCHub --------------------------------
(* Instances of Hub for TLC. *)
EXTENDS Hub

CONSTANTS s1, s2, b1, b2
=============================================================================
