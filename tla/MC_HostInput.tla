--------------------------- MODULE MC_HostInput --------------------------------
(***************************************************************************)
(* The handlers of what the host sends that write persistent or table    *)
(* state, checked in one run:                                              *)
(*  - the config unit runs ConfigStore (push, pull, factory reset,         *)
(*    bootloader, EEPROM saves and power loss);                            *)
(*  - the bulk unit runs BulkXfer (colour-table push and pull);            *)
(*  - the feedback unit runs NoteFeedback (Note On/Off into the note       *)
(*    table, the delayed note-off sweep, with TIMER0 ticking).             *)
(* A behaviour stays with the unit it starts with, and the variables of    *)
(* the other unit stay at one initial state, so the state spaces add.      *)
(***************************************************************************)
EXTENDS Naturals

CONSTANTS EEPROM_LAYOUT, PushBuffers, InitialEeprom, PowerFailSaves,
          PART_SIZE, PARTS_PER_BANK, NUM_BANKS, SLACK, Messages,
          NUM_BUTTONS, MIDI_BASENOTE, G_EE_MIDI_CHANNEL, Channels, Notes,
          Velocities, STAMP_MOD, TIME_MOD, NOTE_OFF_FEEDBACK_DELAY_LIMIT,
          LED_REFRESH_LIMIT

VARIABLE unit

VARIABLES ee, live, pc, writes, cont, reply, intended

store_vars == <<ee, live, pc, writes, cont, reply, intended>>

Store == INSTANCE ConfigStore

VARIABLES mem, sent, pushed

bulk_vars == <<mem, sent, pushed>>

Bulk == INSTANCE BulkXfer

VARIABLES system_time_ms, last_led_refresh_time_ms, g_midi_note_state,
          g_midi_note_off_counter, g_bank_selected, host_vel, host_off, off_age

feedback_vars == <<system_time_ms, last_led_refresh_time_ms, g_midi_note_state,
                   g_midi_note_off_counter, g_bank_selected, host_vel, host_off,
                   off_age>>

Feedback == INSTANCE NoteFeedback

\* The payloads, EEPROMs and messages of MC_ConfigStore and MC_BulkXfer,
\* with the constants of ConfigStore and BulkXfer they use written out.
MC_PushBuffers ==
  { <<0, 1, 1, 100, 11, 1, 12, 15, 23, 1>>,
    <<0, 16, 1, 127, 11, 2, 12, 3, 23, 0>>,
    <<0, 3>>,
    <<24, 9, 23, 1>> }

MC_AnyEeprom ==
  { [version |-> 1, channel |-> c, velocity |-> 100, tilt_mask |-> 241, side_bank |-> 1]
    : c \in {0, 5} }
  \cup { [c \in {"channel", "velocity", "tilt_mask", "side_bank", "version"} |-> 255] }

MC_UtilityMessages ==
  LET last == NUM_BANKS * PARTS_PER_BANK
  \* lavender as a pull reports it, to every part number; and (0,15,26)
  \* of the MF3D utility, which the remap keeps off the palette, to part 1
  IN  { <<0, t, p, last, PART_SIZE, 66, 18, 84, 247>> : t \in {1, 2, 3}, p \in 0 .. last + 1 }
      \cup { <<0, 1, 1, last, PART_SIZE, 0, 15, 26, 247>> }
      \cup { <<1, t, 247>> : t \in {1, 2, 3} }

Init ==
  /\ unit \in {"config", "bulk", "feedback"}
  /\ Store!Init
  /\ Bulk!Init
  /\ Feedback!Init
  /\ unit # "config" => ee = CHOOSE e \in InitialEeprom : TRUE

all_vars == <<unit, store_vars, bulk_vars, feedback_vars>>

\* A step of NoteFeedback, taken only in a behaviour of the feedback unit.
InFeedback(A) == unit = "feedback" /\ A /\ UNCHANGED <<unit, store_vars, bulk_vars>>

Next ==
  \/ unit = "config" /\ Store!Next /\ UNCHANGED <<unit, bulk_vars, feedback_vars>>
  \/ unit = "bulk" /\ Bulk!Next /\ UNCHANGED <<unit, store_vars, feedback_vars>>
  \/ InFeedback(Feedback!Next)

\* The fairness of NoteFeedback: TIMER0 always fires, and the LED refresh
\* condition of the main loop stays true until taken (strong fairness).
Spec == Init /\ [][Next]_all_vars
          /\ WF_all_vars(InFeedback(Feedback!TimerTick))
          /\ SF_all_vars(InFeedback(Feedback!LedRefresh))

-----------------------------------------------------------------------------
\* The ConfigStore invariants and properties, each stated there.
TypeOK == Store!TypeOK

\* After any power loss, every setting the device runs with is a value the
\* firmware once assigned to it, never one no code wrote.
NoUnwrittenSettings == Store!NoUnwrittenSettings

\* Pull then push gives back every setting the device runs with.
PullPushRoundTrip == Store!PullPushRoundTrip

\* The reply of a push reports the settings just persisted.
ReplyMatchesPersisted == Store!ReplyMatchesPersisted

\* Pushing back each pulled part leaves the colour table unchanged.
PullPushFixpoint == Bulk!PullPushFixpoint

\* A push writes only inside the part it names, of the table it names.
PushStaysInPart == Bulk!PushStaysInPart

\* The variables of the note feedback range over their types.
FeedbackTypeOK == Feedback!TypeOK

\* No flicker (spec 4.5, 8): a control id whose last message from the host
\* was a Note On shows exactly that velocity, whatever Note Offs came
\* before it and whenever the note-off sweep runs.
NoteOnShown == Feedback!NoteOnShown

\* In a behaviour of the feedback unit, a Note Off the host neither follows
\* with a Note On nor keeps re-sending is eventually shown, across the wrap
\* of the 7-bit stamp.
NoteOffApplied == unit = "feedback" => Feedback!NoteOffApplied

\* The receive-and-sweep machinery implements the note-state table of
\* spec 4.5 (NoteStateTable).
NoteStateRefined == Feedback!NoteStateRefined

=============================================================================
