----------------------------- MODULE MC_KeyRouter -----------------------------
(* KeyRouter with the two bank-select keys of the code, 28 and 63, which *)
(* also send notes; time scaled so that a carry into the high byte, a     *)
(* hold and a refresh period all fit into one wrap of system_time_ms.     *)
EXTENDS KeyRouter

MC_Keys == {28, 63}
\* const uint8_t bank_select_key_ids[NUM_BANKS] = {28,63};
MC_bank_select_key_ids == [b \in 0 .. 1 |-> IF b = 0 THEN 28 ELSE 63]
===============================================================================
