----------------------------- MODULE NoteFeedback -----------------------------
(***************************************************************************)
(* MIDI feedback from the host: the Note On / Note Off cases of the       *)
(* receive loop Midifighter_GetIncomingUsbMidiMessages (midifighter64.c), *)
(* the delayed note-off sweep update_note_off_feedback_delay, and the    *)
(* changes of the LED refresh block of Midifighter_Task that read the note *)
(* table (default_display_run -> midi_animation_state).                   *)
(*                                                                         *)
(* g_midi_note_state[0] holds the velocity the host last sent for each     *)
(* control id (bank 1 ids 0..NUM_BUTTONS-1 on G_EE_MIDI_CHANNEL, bank 2    *)
(* ids NUM_BUTTONS.. on the channel below); g_midi_note_state[1] holds the *)
(* animation velocity per raw note (channel above).  A Note Off on a       *)
(* control id does not zero it: it stores (system_time_ms & 0x7F) | 0x80   *)
(* in g_midi_note_off_counter, and the sweep zeroes the velocity once the  *)
(* truncated time has advanced by NOTE_OFF_FEEDBACK_DELAY_LIMIT.           *)
(* The TIMER0 interrupt advances system_time_ms at any point.              *)
(* g_bank_selected is changed by change_bank, modelled in KeyRouter; here  *)
(* it changes by the environment action BankChanged.                      *)
(***************************************************************************)
EXTENDS Integers

CONSTANTS
  NUM_BUTTONS,                    \* keys per bank (64)
  MIDI_BASENOTE,                  \* note of key 0 (36)
  G_EE_MIDI_CHANNEL,              \* listening channel, 0-based
  Channels,                       \* channels the host sends on
  Notes,                          \* notes the host sends
  Velocities,                     \* velocities the host sends
  STAMP_MOD,                      \* 0x7F + 1: width of the note-off stamp
  TIME_MOD,                       \* 2^16: width of system_time_ms
  NOTE_OFF_FEEDBACK_DELAY_LIMIT,  \* 2 (ms)
  LED_REFRESH_LIMIT               \* 25 (ms)

NOTE_OFF_FLAG == 128              \* 0x80 of g_midi_note_off_counter
ONE_SHOT == 50 .. 53              \* geometric animation triggers
ControlIds == 0 .. 2 * NUM_BUTTONS - 1
NoSlot == -1

ASSUME /\ NUM_BUTTONS \in Nat \ {0}
       /\ G_EE_MIDI_CHANNEL \in 0 .. 15
       /\ Channels \subseteq 0 .. 15
       /\ Notes \subseteq 0 .. 127
       /\ Velocities \subseteq 0 .. 127
       /\ STAMP_MOD \in 1 .. 128 /\ TIME_MOD % STAMP_MOD = 0
       /\ NOTE_OFF_FEEDBACK_DELAY_LIMIT \in 1 .. STAMP_MOD - 1

VARIABLES
  system_time_ms,
  last_led_refresh_time_ms,
  g_midi_note_state,          \* [{0,1} -> velocities by id / by note]
  g_midi_note_off_counter,    \* ControlIds -> 0 or NOTE_OFF_FLAG + stamp
  g_bank_selected,
  \* history variables, not in the code:
  host_vel,                   \* last velocity the host sent per control id
  host_off,                   \* the host's last message for the id was a Note Off
  off_age                     \* ms since that Note Off, capped at the limit

vars == <<system_time_ms, last_led_refresh_time_ms, g_midi_note_state,
          g_midi_note_off_counter, g_bank_selected, host_vel, host_off, off_age>>

ghosts == <<host_vel, host_off, off_age>>

-----------------------------------------------------------------------------
(* Mutants: plausible mistakes in the code, used to show the properties    *)
(* below can fail.                                                         *)
NoteOffStamp_unflagged(t) == t % STAMP_MOD
Elapsed7_signed(now, then) == now - then
ClearPending_skipped(counter, s) == counter
Due_unflagged(counter, now7) ==
  { s \in ControlIds :
      (now7 - (counter[s] % NOTE_OFF_FLAG)) % 65536 >= NOTE_OFF_FEEDBACK_DELAY_LIMIT }
-----------------------------------------------------------------------------

\* uint8_t key_id = note - MIDI_BASENOTE; and the channel tests, in order.
ControlSlot(ch, note) ==
  LET key_id == (note - MIDI_BASENOTE) % 256 IN
  IF key_id >= NUM_BUTTONS THEN NoSlot
  ELSE IF ch = G_EE_MIDI_CHANNEL THEN key_id
  ELSE IF ch = (G_EE_MIDI_CHANNEL - 1) % 16 THEN key_id + NUM_BUTTONS
  ELSE NoSlot

IsAnimationChannel(ch) ==
  /\ ch # G_EE_MIDI_CHANNEL
  /\ ch # (G_EE_MIDI_CHANNEL - 1) % 16
  /\ ch = (G_EE_MIDI_CHANNEL + 1) % 16

\* (system_time_ms & 0x7F) | 0x80
NoteOffStamp(t) == (t % STAMP_MOD) + NOTE_OFF_FLAG

\* sys_time_7 - note_off_time: a uint16_t minus a uint8_t is computed in
\* 16-bit unsigned int on the AVR, so a negative difference wraps.
Elapsed7(now, then) == (now - then) % 65536

\* g_midi_note_off_counter[key_id] = 0 on a Note On.
ClearPending(counter, s) == [counter EXCEPT ![s] = 0]

Capped(n) == IF n > NOTE_OFF_FEEDBACK_DELAY_LIMIT THEN NOTE_OFF_FEEDBACK_DELAY_LIMIT ELSE n

Init ==
  /\ system_time_ms = 0
  /\ last_led_refresh_time_ms = 0
  /\ g_midi_note_state = [c \in {0, 1} |-> IF c = 0 THEN [s \in ControlIds |-> 0]
                                                    ELSE [n \in Notes |-> 0]]
  /\ g_midi_note_off_counter = [s \in ControlIds |-> 0]
  /\ g_bank_selected = 0
  /\ host_vel = [s \in ControlIds |-> 0]
  /\ host_off = [s \in ControlIds |-> FALSE]
  /\ off_age = [s \in ControlIds |-> 0]

\* ISR(TIMER0_OVF_vect): system_time_ms += 1.
TimerTick ==
  /\ system_time_ms' = (system_time_ms + 1) % TIME_MOD
  /\ off_age' = [s \in ControlIds |-> Capped(off_age[s] + 1)]
  /\ UNCHANGED <<last_led_refresh_time_ms, g_midi_note_state,
                 g_midi_note_off_counter, g_bank_selected, host_vel, host_off>>

\* Midifighter_GetIncomingUsbMidiMessages, case 0x9 (Note On).
InterpretNoteOn(ch, note, vel) ==
  LET s == ControlSlot(ch, note) IN
  \/ /\ s # NoSlot
     /\ g_midi_note_state' = [g_midi_note_state EXCEPT ![0][s] = vel]
     /\ g_midi_note_off_counter' = ClearPending(g_midi_note_off_counter, s)
     /\ host_vel' = [host_vel EXCEPT ![s] = vel]
     /\ host_off' = [host_off EXCEPT ![s] = FALSE]
     /\ UNCHANGED off_age
  \/ /\ s = NoSlot
     /\ IsAnimationChannel(ch)
     /\ g_midi_note_state' = [g_midi_note_state EXCEPT ![1][note] = vel]
     /\ UNCHANGED <<g_midi_note_off_counter, ghosts>>

\* Midifighter_GetIncomingUsbMidiMessages, case 0x8 (Note Off) with
\* ENABLE_NOTE_OFF_FEEDBACK_DELAY: control ids are only flagged; animation
\* notes are zeroed at once.
InterpretNoteOff(ch, note) ==
  LET s == ControlSlot(ch, note) IN
  \/ /\ s # NoSlot
     /\ g_midi_note_off_counter' =
          [g_midi_note_off_counter EXCEPT ![s] = NoteOffStamp(system_time_ms)]
     /\ host_vel' = [host_vel EXCEPT ![s] = 0]
     /\ host_off' = [host_off EXCEPT ![s] = TRUE]
     /\ off_age' = [off_age EXCEPT ![s] = 0]
     /\ UNCHANGED g_midi_note_state
  \/ /\ s = NoSlot
     /\ IsAnimationChannel(ch)
     /\ g_midi_note_state' = [g_midi_note_state EXCEPT ![1][note] = 0]
     /\ UNCHANGED <<g_midi_note_off_counter, ghosts>>

\* A packet on another channel, or a control note out of range, changes
\* nothing; it is not a step.
ReceivePacket ==
  /\ \E ch \in Channels, note \in Notes :
       \/ \E vel \in Velocities : InterpretNoteOn(ch, note, vel)
       \/ InterpretNoteOff(ch, note)
  /\ UNCHANGED <<system_time_ms, last_led_refresh_time_ms, g_bank_selected>>

\* update_note_off_feedback_delay: zero every flagged id whose stamp is at
\* least the limit behind the truncated time, and clear its flag.
Due(counter, now7) ==
  { s \in ControlIds :
      /\ counter[s] >= NOTE_OFF_FLAG
      /\ Elapsed7(now7, counter[s] - NOTE_OFF_FLAG) >= NOTE_OFF_FEEDBACK_DELAY_LIMIT }

\* midi_animation_state: one-shot triggers of the selected bank start their
\* animation and are reset to 0.
ClearOneShots(anim, bank) ==
  [n \in Notes |-> IF /\ n \in bank * NUM_BUTTONS .. bank * NUM_BUTTONS + NUM_BUTTONS - 1
                      /\ anim[n] \in ONE_SHOT
                   THEN 0 ELSE anim[n]]

\* The LED refresh block of Midifighter_Task: when LED_REFRESH_LIMIT ms
\* have passed, store the time, run the note-off sweep, then render.
LedRefresh ==
  LET now7 == system_time_ms % STAMP_MOD
      due == Due(g_midi_note_off_counter, now7)
  IN
  /\ (system_time_ms - last_led_refresh_time_ms) % TIME_MOD >= LED_REFRESH_LIMIT
  /\ last_led_refresh_time_ms' = system_time_ms
  /\ g_midi_note_off_counter' =
       [s \in ControlIds |-> IF s \in due THEN 0 ELSE g_midi_note_off_counter[s]]
  /\ g_midi_note_state' =
       [c \in {0, 1} |->
          IF c = 0 THEN [s \in ControlIds |-> IF s \in due THEN 0
                                              ELSE g_midi_note_state[0][s]]
          ELSE ClearOneShots(g_midi_note_state[1], g_bank_selected)]
  /\ UNCHANGED <<system_time_ms, g_bank_selected, ghosts>>

\* change_bank, run by KeyRouter (bank keys, host CC 3).
BankChanged ==
  /\ g_bank_selected' = 1 - g_bank_selected
  /\ UNCHANGED <<system_time_ms, last_led_refresh_time_ms, g_midi_note_state,
                 g_midi_note_off_counter, ghosts>>

Next ==
  \/ TimerTick
  \/ ReceivePacket
  \/ LedRefresh
  \/ BankChanged

\* The timer interrupt always fires.  The main loop re-tests the refresh
\* condition many times per millisecond and it stays true until taken, so
\* only the wrap of system_time_ms could disable it: strong fairness.
Fairness == WF_vars(TimerTick) /\ SF_vars(LedRefresh)

Spec == Init /\ [][Next]_vars /\ Fairness

-----------------------------------------------------------------------------
TypeOK ==
  /\ system_time_ms \in 0 .. TIME_MOD - 1
  /\ last_led_refresh_time_ms \in 0 .. TIME_MOD - 1
  /\ g_midi_note_state[0] \in [ControlIds -> Velocities \cup {0}]
  /\ g_midi_note_state[1] \in [Notes -> Velocities \cup {0}]
  /\ g_midi_note_off_counter \in
       [ControlIds -> {0} \cup (NOTE_OFF_FLAG .. NOTE_OFF_FLAG + STAMP_MOD - 1)]
  /\ g_bank_selected \in {0, 1}

\* No flicker (spec 4.5, 8): a control id whose last message from the host
\* was a Note On shows exactly that velocity, whatever Note Offs came
\* before it and whenever the note-off sweep runs.
NoteOnShown ==
  \A s \in ControlIds : ~host_off[s] /\ host_vel[s] > 0 =>
                          g_midi_note_state[0][s] = host_vel[s]

\* The whole receive-and-sweep machinery implements the note-state table of
\* spec 4.5 (module NoteStateTable): the velocity a control id shows is the
\* one of g_midi_note_state[0], an id is pending while bit 0x80 of its
\* g_midi_note_off_counter is set, and the animation table is
\* g_midi_note_state[1].  So a Note Off never zeroes a velocity at once, the
\* sweep only zeroes ids whose Note Off is still pending, a Note On cancels
\* the pending Note Off, and animation notes follow the host at once.
NST == INSTANCE NoteStateTable
         WITH shown <- g_midi_note_state[0],
              pending <- {s \in ControlIds : g_midi_note_off_counter[s] >= NOTE_OFF_FLAG},
              anim <- g_midi_note_state[1]

NoteStateRefined == NST!Spec

\* The host sends a Note Off for control id s (the step stamps it anew).
NoteOffSent(s) == host_off'[s] /\ off_age'[s] = 0

\* A Note Off that the host neither follows with a Note On nor keeps
\* re-sending is eventually shown: the sweep of update_note_off_feedback_delay
\* zeroes the velocity, wherever in the 7-bit stamp range the Note Off fell
\* and however the 7-bit stamp and the refresh period line up.
NoteOffApplied ==
  \A s \in ControlIds :
    <>[][~NoteOffSent(s)]_vars =>
      (host_off[s] ~> (g_midi_note_state[0][s] = 0 \/ ~host_off[s]))

\* Spec 4.6: a Note On or Off on any listening channel, the animation
\* channel included, is translated to a key id by subtracting the base
\* note and ignored when that id is out of range.  So the animation table
\* never holds a velocity for a note whose key id is out of range, however
\* the host's notes, channels and the sweep interleave.
AnimationNoteTranslated ==
  \A n \in Notes : (n - MIDI_BASENOTE) % 256 \notin ControlIds =>
                    g_midi_note_state[1][n] = 0
===============================================================================
