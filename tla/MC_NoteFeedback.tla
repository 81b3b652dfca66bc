---------------------------- MODULE MC_NoteFeedback ----------------------------
(* Model-checking instance of NoteFeedback alone, for the run on animation *)
(* notes: one key per bank, so two control ids, a note below the key      *)
(* range and one inside it, and the three listening channels (0, 15 =     *)
(* 0 - 1 wrapped, 1).  The passing properties of NoteFeedback are checked *)
(* in MC_HostInput.                                                        *)
EXTENDS NoteFeedback
===============================================================================
