---------------------------- MODULE NoteStateTable ----------------------------
(***************************************************************************)
(* What the note-state table promises the LED renderer (spec 3, 4.5), with *)
(* no timestamps: for each control id the velocity shown and whether a     *)
(* Note Off is pending; for each animation note its velocity.              *)
(*  - A Note On shows its velocity at once and cancels a pending Note Off. *)
(*  - A Note Off never changes what is shown; it only makes the id         *)
(*    pending.                                                             *)
(*  - A sweep zeroes some of the pending ids (those whose grace period is  *)
(*    over; the length of the period is not part of this promise) and     *)
(*    clears some one-shot animation triggers after dispatching them.      *)
(*  - The animation table follows Note On and Note Off at once.            *)
(***************************************************************************)
CONSTANTS ControlIds, Notes, Velocities, ONE_SHOT

VARIABLES shown, pending, anim

nst_vars == <<shown, pending, anim>>

Init ==
  /\ shown = [s \in ControlIds |-> 0]
  /\ pending = {}
  /\ anim = [n \in Notes |-> 0]

NoteOn(s, v) ==
  /\ shown' = [shown EXCEPT ![s] = v]
  /\ pending' = pending \ {s}
  /\ UNCHANGED anim

NoteOff(s) ==
  /\ pending' = pending \cup {s}
  /\ UNCHANGED <<shown, anim>>

AnimationNote(n, v) ==
  /\ anim' = [anim EXCEPT ![n] = v]
  /\ UNCHANGED <<shown, pending>>

Sweep ==
  \E due \in SUBSET pending,
     fired \in SUBSET {n \in Notes : anim[n] \in ONE_SHOT} :
    /\ shown' = [s \in ControlIds |-> IF s \in due THEN 0 ELSE shown[s]]
    /\ pending' = pending \ due
    /\ anim' = [n \in Notes |-> IF n \in fired THEN 0 ELSE anim[n]]

Next ==
  \/ \E s \in ControlIds, v \in Velocities \cup {0} : NoteOn(s, v)
  \/ \E s \in ControlIds : NoteOff(s)
  \/ \E n \in Notes, v \in Velocities \cup {0} : AnimationNote(n, v)
  \/ Sweep

Spec == Init /\ [][Next]_nst_vars
===============================================================================
