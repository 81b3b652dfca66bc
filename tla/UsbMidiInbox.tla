----------------------------- MODULE UsbMidiInbox -----------------------------
(***************************************************************************)
(* What the receive side promises (spec 4.1, 4.6), with no drain loop and  *)
(* no timer: the host's packets wait in a FIFO and are handled one at a    *)
(* time in the order sent.  Of the real-time messages,                     *)
(*  - a Clock (0xF8) marks the clock present and may advance the flash     *)
(*    counter by one (the counter follows the host tempo);                 *)
(*  - a Start (0xFA) marks the clock present, a Stop (0xFC) absent;        *)
(*  - while no clock is present the counter free-runs by single steps;     *)
(*    while one is, only Clock messages move it.                           *)
(* Every other packet leaves the clock and the counter alone.              *)
(***************************************************************************)
EXTENDS Naturals, Sequences

CONSTANTS Packets, CLOCK, START, STOP, FLASH_MOD

VARIABLES inbox, clock_on, flash

inbox_vars == <<inbox, clock_on, flash>>

Init ==
  /\ inbox = <<>>
  /\ clock_on = FALSE
  /\ flash = 0

Send(p) ==
  /\ inbox' = Append(inbox, p)
  /\ UNCHANGED <<clock_on, flash>>

Effect(p) ==
  CASE p = CLOCK -> clock_on' = TRUE /\ flash' \in {flash, (flash + 1) % FLASH_MOD}
    [] p = START -> clock_on' = TRUE /\ flash' = flash
    [] p = STOP  -> clock_on' = FALSE /\ flash' = flash
    [] OTHER     -> UNCHANGED <<clock_on, flash>>

Handle ==
  /\ inbox # <<>>
  /\ inbox' = Tail(inbox)
  /\ Effect(Head(inbox))

FreeRun ==
  /\ ~clock_on
  /\ flash' = (flash + 1) % FLASH_MOD
  /\ UNCHANGED <<inbox, clock_on>>

Next == (\E p \in Packets : Send(p)) \/ Handle \/ FreeRun

Spec == Init /\ [][Next]_inbox_vars
===============================================================================
