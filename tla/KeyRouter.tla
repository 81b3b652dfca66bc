------------------------------- MODULE KeyRouter -------------------------------
(***************************************************************************)
(* Key events to MIDI, and bank selection, in                              *)
(* src/midi_fighter_64/midifighter64.c:                                     *)
(*  - the per-key loop of Midifighter_Task turns g_key_down / g_key_up     *)
(*    into Note On / Note Off (and CC mirror) messages, records the bank   *)
(*    of each press in g_key_bank_last_up, and calls key_pressed /         *)
(*    key_released, which start and stop the bank-select hold timers;      *)
(*  - service_bank_select_buttons, run in the LED refresh block, switches  *)
(*    bank once a bank-select key has been held long enough;               *)
(*  - a host CC 3 (Midifighter_GetIncomingUsbMidiMessages) and a config   *)
(*    push (sysExCmdPushConfig, config.c) change the bank or settings.    *)
(* system_time_ms is a volatile uint16_t advanced by ISR(TIMER0_OVF_vect); *)
(* the 8-bit AVR reads it as two bytes, low byte first, so a tick that     *)
(* carries into the high byte between the two loads gives a torn value.    *)
(* Time is scaled down: LO_MOD stands for 256, TIME_MOD for 65536.         *)
(***************************************************************************)
EXTENDS Integers, FiniteSets, SequencesExt

CONSTANTS
  Keys,                         \* key ids of the model (0..63 in the code)
  bank_select_key_ids,          \* Banks -> key: the bank-select key of each bank
  MIDI_BASENOTE,                \* 36
  LO_MOD, TIME_MOD,             \* 256 and 65536
  G_BANK_SELECT_COUNTER_LIMIT,  \* 1000 ms hold
  LED_REFRESH_LIMIT,            \* 25 ms
  ChannelChoices,               \* G_EE_MIDI_CHANNEL values a config push sets
  ModeChoices,                  \* G_EE_MIDI_OUTPUT_MODE values
  SideChoices,                  \* G_EE_SIDE_BANK values
  TornTimeReads                 \* whether a 16-bit read of the time can tear

NUM_BANKS == 2
Banks == 0 .. NUM_BANKS - 1
BankKeys == {bank_select_key_ids[b] : b \in Banks}
MIDI_OUTPUT_MODE_NOTES_ONLY == 0
MIDI_OUTPUT_MODE_CCS_ONLY == 2
MF64_BANK_CC == 3
NoBank == -1

ASSUME /\ Keys \subseteq 0 .. 63 /\ BankKeys \subseteq Keys
       /\ bank_select_key_ids[0] < bank_select_key_ids[1]
       /\ TIME_MOD % LO_MOD = 0
       /\ G_BANK_SELECT_COUNTER_LIMIT \in 1 .. TIME_MOD - 1
       /\ ChannelChoices \subseteq 0 .. 15
       /\ ModeChoices \subseteq 0 .. 2 /\ SideChoices \subseteq 0 .. 2
       /\ TornTimeReads \in BOOLEAN

VARIABLES
  system_time_ms,
  just_carried,                 \* the last step was a tick that carried into the high byte
  last_led_refresh_time_ms,
  g_key_prev_state,             \* debounced keys held, as of the last key_calc
  g_key_bank_last_up,           \* keys whose press happened in bank 1
  g_bank_selected,
  g_bank_select_counter,        \* Banks -> press time, 0 = not held
  G_EE_MIDI_CHANNEL, G_EE_MIDI_OUTPUT_MODE, G_EE_SIDE_BANK,
  \* history variables, not in the code:
  sounding,                     \* notes and CCs the host holds on: <<kind, channel, number>>
  bank_cc_out,                  \* bank sent by send_change_bank_notification in this step
  hold_age,                     \* Banks -> ms since that bank key was pressed (capped)
  last_bank_key                 \* bank of the last bank key pressed since the last change_bank

vars == <<system_time_ms, just_carried, last_led_refresh_time_ms, g_key_prev_state,
          g_key_bank_last_up, g_bank_selected, g_bank_select_counter,
          G_EE_MIDI_CHANNEL, G_EE_MIDI_OUTPUT_MODE, G_EE_SIDE_BANK,
          sounding, bank_cc_out, hold_age, last_bank_key>>

config == <<G_EE_MIDI_CHANNEL, G_EE_MIDI_OUTPUT_MODE, G_EE_SIDE_BANK>>

-----------------------------------------------------------------------------
(* Mutants: plausible mistakes in the code, used to show the properties    *)
(* below can fail.                                                         *)
PressChannel_plus(C, bank) == (C + bank) % 16
ReleaseCounter_kept(counter, b) == counter
PressChannel_unmasked(C, bank) == C - bank
ChangeBankCounters_kept(counter) == counter
KeyPressedCounter_zero(counter, k, t) ==
  IF k \notin BankKeys THEN counter
  ELSE LET b == CHOOSE x \in Banks : bank_select_key_ids[x] = k IN
       [x \in Banks |-> IF x = b THEN t ELSE 0]
-----------------------------------------------------------------------------

\* midi_64_key_to_note
NoteOf(k) == MIDI_BASENOTE + k

\* midi_stream_note: G_EE_MIDI_CHANNEL - g_bank_selected, masked to 4 bits.
PressChannel(C, bank) == (C - bank) % 16

\* the per-key loop, key up: (G_EE_MIDI_CHANNEL-1) & 0x0F if the press was
\* recorded in bank 1, else G_EE_MIDI_CHANNEL.
ReleaseChannel(k, last_up, C) == IF k \in last_up THEN (C - 1) % 16 ELSE C

\* A 16-bit load of system_time_ms: the value, or, when the tick that
\* carried into the high byte landed between the two byte loads, the old
\* low byte (LO_MOD - 1) under the new high byte.
TimeReads ==
  {system_time_ms} \cup
  (IF TornTimeReads /\ just_carried
   THEN {(system_time_ms + LO_MOD - 1) % TIME_MOD} ELSE {})

\* key_pressed: a bank-select key clears all counters and starts its own
\* (time 0 is the "not held" flag, so it is stored as 0xFFFF).
KeyPressedCounter(counter, k, t) ==
  IF k \notin BankKeys THEN counter
  ELSE LET b == CHOOSE x \in Banks : bank_select_key_ids[x] = k IN
       [x \in Banks |-> IF x = b THEN (IF t > 0 THEN t ELSE TIME_MOD - 1) ELSE 0]

\* key_released: a bank-select key clears its counter.
ReleaseCounter(counter, b) == [counter EXCEPT ![b] = 0]

KeyReleasedCounter(counter, k) ==
  IF k \notin BankKeys THEN counter
  ELSE ReleaseCounter(counter, CHOOSE x \in Banks : bank_select_key_ids[x] = k)

\* change_bank: the bank select counters are reset.
ChangeBankCounters(counter) == [b \in Banks |-> 0]

\* this_time > 0: the counter of a bank whose key is held.
CounterArmed(this_time) == this_time > 0

Capped(n) == IF n > G_BANK_SELECT_COUNTER_LIMIT THEN G_BANK_SELECT_COUNTER_LIMIT ELSE n

Init ==
  /\ system_time_ms = 0
  /\ just_carried = FALSE
  /\ last_led_refresh_time_ms = 0
  /\ g_key_prev_state = {}
  /\ g_key_bank_last_up = {}
  /\ g_bank_selected = 0
  /\ g_bank_select_counter = [b \in Banks |-> 0]
  \* eeprom_setup loads the settings saved by an earlier config push
  /\ G_EE_MIDI_CHANNEL \in ChannelChoices
  /\ G_EE_MIDI_OUTPUT_MODE \in ModeChoices
  /\ G_EE_SIDE_BANK \in SideChoices
  /\ sounding = {}
  /\ bank_cc_out = NoBank
  /\ hold_age = [b \in Banks |-> 0]
  /\ last_bank_key = NoBank

\* ISR(TIMER0_OVF_vect): system_time_ms += 1.
TimerTick ==
  /\ system_time_ms' = (system_time_ms + 1) % TIME_MOD
  /\ just_carried' = (system_time_ms' % LO_MOD = 0)
  /\ hold_age' = [b \in Banks |-> Capped(hold_age[b] + 1)]
  /\ bank_cc_out' = NoBank
  /\ UNCHANGED <<last_led_refresh_time_ms, g_key_prev_state, g_key_bank_last_up,
                 g_bank_selected, g_bank_select_counter, config, sounding,
                 last_bank_key>>

\* One iteration of the per-key loop for key k (ascending key order).
KeyStep(r, k, down, t) ==
  LET C == G_EE_MIDI_CHANNEL
      mode == G_EE_MIDI_OUTPUT_MODE
      NoteMsg(ch) == IF mode < MIDI_OUTPUT_MODE_CCS_ONLY
                     THEN {<<"note", ch, NoteOf(k)>>} ELSE {}
      CcMsg == IF mode > MIDI_OUTPUT_MODE_NOTES_ONLY
               THEN {<<"cc", C, NoteOf(k)>>} ELSE {}
  IN
  IF k \in down
  THEN [r EXCEPT !.sounding = @ \cup NoteMsg(PressChannel(C, g_bank_selected)) \cup CcMsg,
                 !.last_up = IF g_bank_selected <= 0 THEN @ \ {k} ELSE @ \cup {k},
                 !.counter = KeyPressedCounter(@, k, t)]
  ELSE [r EXCEPT !.sounding = (@ \ NoteMsg(ReleaseChannel(k, r.last_up, C))) \ CcMsg,
                 !.counter = KeyReleasedCounter(@, k)]

\* Midifighter_Task from key_read to the end of the per-key loop: the
\* debounced state becomes new, and each key down or up is routed in
\* ascending key order.  key_pressed reads system_time_ms.
KeyTask ==
  \E new \in SUBSET Keys, t \in TimeReads :
    LET down == new \ g_key_prev_state
        up == g_key_prev_state \ new
        r == FoldLeft(LAMBDA acc, k : KeyStep(acc, k, down, t),
                      [sounding |-> sounding, last_up |-> g_key_bank_last_up,
                       counter |-> g_bank_select_counter],
                      SetToSortSeq(down \cup up, <))
        pressedBanks == {b \in Banks : bank_select_key_ids[b] \in down}
    IN
    /\ new # g_key_prev_state
    /\ g_key_prev_state' = new
    /\ sounding' = r.sounding
    /\ g_key_bank_last_up' = r.last_up
    /\ g_bank_select_counter' = r.counter
    /\ hold_age' = [b \in Banks |-> IF b \in pressedBanks THEN 0 ELSE hold_age[b]]
    \* in ascending key order the higher bank key is pressed last
    /\ last_bank_key' = IF pressedBanks = {} THEN last_bank_key ELSE Max(pressedBanks)
    /\ just_carried' = FALSE
    /\ bank_cc_out' = NoBank
    /\ UNCHANGED <<system_time_ms, last_led_refresh_time_ms, g_bank_selected, config>>

\* change_bank(this_bank) (the geometric animation is not modelled).
ChangeBank(b) ==
  /\ g_bank_selected' = b
  /\ g_bank_select_counter' = ChangeBankCounters(g_bank_select_counter)
  /\ last_bank_key' = NoBank

\* The LED refresh block of Midifighter_Task, the part that drives the
\* bank: last_led_refresh_time_ms = system_time_ms, then
\* service_bank_select_buttons: the first bank whose key has been held for
\* counter_limit ms is selected and announced with CC 3.
LedRefresh ==
  /\ (system_time_ms - last_led_refresh_time_ms) % TIME_MOD >= LED_REFRESH_LIMIT
  /\ last_led_refresh_time_ms' = system_time_ms
  /\ just_carried' = FALSE
  /\ \E sys \in TimeReads :
       LET counter_limit == IF G_EE_SIDE_BANK > 1 THEN 1 ELSE G_BANK_SELECT_COUNTER_LIMIT
           due == {b \in Banks :
                     /\ CounterArmed(g_bank_select_counter[b])
                     /\ (sys - g_bank_select_counter[b]) % TIME_MOD >= counter_limit}
       IN
       IF G_EE_SIDE_BANK = 0 \/ due = {}
       THEN /\ bank_cc_out' = NoBank
            /\ UNCHANGED <<g_bank_selected, g_bank_select_counter, last_bank_key>>
       ELSE /\ ChangeBank(Min(due))
            /\ bank_cc_out' = Min(due)
  /\ UNCHANGED <<system_time_ms, g_key_prev_state, g_key_bank_last_up, config,
                 sounding, hold_age>>

\* Midifighter_GetIncomingUsbMidiMessages, case 0xB: CC 3 on G_EE_MIDI_CHANNEL selects
\* bank (value > 0), with no notification back.
HostBankCC ==
  /\ \E value \in {0, 127} : ChangeBank(IF value > 0 THEN 1 ELSE 0)
  /\ just_carried' = FALSE
  /\ bank_cc_out' = NoBank
  /\ UNCHANGED <<system_time_ms, last_led_refresh_time_ms, g_key_prev_state,
                 g_key_bank_last_up, config, sounding, hold_age>>

\* sysExCmdPushConfig: the channel, output mode and side-bank setting are
\* replaced; newly disabling the side bank selects bank 0.
ConfigPush ==
  /\ \E ch \in ChannelChoices, mode \in ModeChoices, side \in SideChoices :
       /\ G_EE_MIDI_CHANNEL' = ch
       /\ G_EE_MIDI_OUTPUT_MODE' = mode
       /\ G_EE_SIDE_BANK' = side
       /\ IF side # G_EE_SIDE_BANK /\ side = 0
          THEN ChangeBank(0)
          ELSE UNCHANGED <<g_bank_selected, g_bank_select_counter, last_bank_key>>
  /\ just_carried' = FALSE
  /\ bank_cc_out' = NoBank
  /\ UNCHANGED <<system_time_ms, last_led_refresh_time_ms, g_key_prev_state,
                 g_key_bank_last_up, sounding, hold_age>>

\* A refresh in which service_bank_select_buttons switches the bank; the
\* fairness of the timing argument in the README is stated on it.
BankSwitch == LedRefresh /\ bank_cc_out' # NoBank

Next ==
  \/ TimerTick
  \/ KeyTask
  \/ LedRefresh
  \/ HostBankCC
  \/ ConfigPush

Spec == Init /\ [][Next]_vars

-----------------------------------------------------------------------------
TypeOK ==
  /\ system_time_ms \in 0 .. TIME_MOD - 1
  /\ last_led_refresh_time_ms \in 0 .. TIME_MOD - 1
  /\ g_key_prev_state \subseteq Keys /\ g_key_bank_last_up \subseteq Keys
  /\ g_bank_selected \in Banks
  /\ g_bank_select_counter \in [Banks -> 0 .. TIME_MOD - 1]
  /\ sounding \subseteq {"note", "cc"} \X (0 .. 15) \X (0 .. 127)

\* No stuck notes (spec 4.4): every note or CC the host holds on belongs to
\* a key that is still held, across bank changes by hold, by host CC 3 and
\* by config push: the Note Off of the per-key loop goes to the channel of
\* the bank recorded in g_key_bank_last_up at press time.
NoStuckNotes ==
  \A m \in sounding : m[3] - MIDI_BASENOTE \in g_key_prev_state

\* Spec 4.4, 8: a bank switch by service_bank_select_buttons needs its key
\* held for counter_limit ms.  One ms of slack: key_pressed stores time 0
\* as 0xFFFF, one ms early.
HoldRespected ==
  [][bank_cc_out' # NoBank =>
       LET b == bank_cc_out'
           limit == IF G_EE_SIDE_BANK > 1 THEN 1 ELSE G_BANK_SELECT_COUNTER_LIMIT
       IN bank_select_key_ids[b] \in g_key_prev_state /\ hold_age[b] >= limit - 1]_vars

\* Spec 8: one hold gives exactly one bank-change event; change_bank resets
\* the counters, so another event needs a new press of a bank key, and the
\* bank switched to is that of the last bank key pressed (key_pressed
\* clears the other counters).
OneEventPerHold ==
  [][bank_cc_out' # NoBank => last_bank_key = bank_cc_out']_vars

\* Spec 4.4: with the side bank on, a bank-select key held as the last bank
\* key pressed is eventually acted on: key_pressed arms its counter (time 0
\* stored as 0xFFFF) and service_bank_select_buttons switches once the
\* 16-bit elapsed time reaches counter_limit.  The wait ends with a
\* change_bank (of this hold or from the host), a release, or the side
\* bank turned off.
HoldSwitchesBank ==
  \A b \in Banks :
    LET Waiting == /\ last_bank_key = b
                   /\ bank_select_key_ids[b] \in g_key_prev_state
                   /\ G_EE_SIDE_BANK > 0
    IN  Waiting ~> ~Waiting
=============================================================================
