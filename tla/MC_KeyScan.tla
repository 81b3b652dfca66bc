------------------------------ MODULE MC_KeyScan ------------------------------
(* Model-checking instance of KeyScan: a ring of three slots instead of ten *)
(* keeps every interleaving of the ISR with key_read while staying small;  *)
(* the argument of DebounceSound does not depend on the ring's length.     *)
EXTENDS KeyScan

CONSTANTS k1, k2

MC_Keys == {k1, k2}
===============================================================================
