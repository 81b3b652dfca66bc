------------------------------ MODULE MC_KeyPath ------------------------------
(***************************************************************************)
(* The two halves of the key path for TLC in one run: the key scan        *)
(* (KeyScan: TIMER0 sampling, key_read, key_calc) and the key router      *)
(* (KeyRouter: the per-key loop, bank selection, host CC 3 and config     *)
(* pushes).  A behaviour runs one of them, chosen by `unit`, so their     *)
(* state spaces add up instead of multiplying; each keeps the constants  *)
(* of its own run, with the two bank-select keys 28 and 63 as the keys.  *)
(***************************************************************************)
EXTENDS Naturals

CONSTANTS
  Keys, DEBOUNCE_BUFFER_SIZE, MaxTicksPerRead,
  bank_select_key_ids, MIDI_BASENOTE, LO_MOD, TIME_MOD,
  G_BANK_SELECT_COUNTER_LIMIT, LED_REFRESH_LIMIT, ChannelChoices,
  ModeChoices, SideChoices, TornTimeReads

MC_Keys == {28, 63}
\* const uint8_t bank_select_key_ids[NUM_BANKS] = {28,63};
MC_bank_select_key_ids == [b \in 0 .. 1 |-> IF b = 0 THEN 28 ELSE 63]

VARIABLE unit

VARIABLES pressed, g_key_debounce_buffer, buffer_pos, g_key_state,
          scan_prev_state, g_key_down, g_key_up, pc, i, run_on, run_off,
          ticks_in_read, full_during_read

scan_vars == <<pressed, g_key_debounce_buffer, buffer_pos, g_key_state,
               scan_prev_state, g_key_down, g_key_up, pc, i, run_on, run_off,
               ticks_in_read, full_during_read>>

\* The scan's g_key_prev_state runs apart from the router's.
Scan == INSTANCE KeyScan WITH g_key_prev_state <- scan_prev_state

VARIABLES system_time_ms, just_carried, last_led_refresh_time_ms,
          g_key_prev_state, g_key_bank_last_up, g_bank_selected,
          g_bank_select_counter, G_EE_MIDI_CHANNEL, G_EE_MIDI_OUTPUT_MODE,
          G_EE_SIDE_BANK, sounding, bank_cc_out, hold_age,
          last_bank_key

router_vars == <<system_time_ms, just_carried, last_led_refresh_time_ms,
                 g_key_prev_state, g_key_bank_last_up, g_bank_selected,
                 g_bank_select_counter, G_EE_MIDI_CHANNEL, G_EE_MIDI_OUTPUT_MODE,
                 G_EE_SIDE_BANK, sounding, bank_cc_out, hold_age,
                 last_bank_key>>

Router == INSTANCE KeyRouter

all_vars == <<unit, scan_vars, router_vars>>

Init ==
  /\ unit \in {"scan", "router"}
  /\ Scan!Init
  /\ Router!Init
  \* the router's variables stay at one initial state in the scan unit
  /\ unit = "scan" => G_EE_SIDE_BANK = CHOOSE v \in SideChoices : TRUE

\* A step of KeyScan, taken only in a behaviour of the scan unit.
InScan(A) == unit = "scan" /\ A /\ UNCHANGED <<unit, router_vars>>

\* A step of KeyRouter, taken only in a behaviour of the router unit.
InRouter(A) == unit = "router" /\ A /\ UNCHANGED <<unit, scan_vars>>

Next == InScan(Scan!Next) \/ InRouter(Router!Next)

\* The fairness of KeyScan (TIMER0 and the main loop), and of KeyRouter:
\* TIMER0 keeps ticking, and a refresh that would switch the bank is not
\* skipped forever (the main loop reaches the refresh block every
\* LED_REFRESH_LIMIT ms, far inside the 16-bit window in which a held key
\* is due).
Spec ==
  /\ Init /\ [][Next]_all_vars
  /\ WF_all_vars(InScan(Scan!TIMER0_OVF)) /\ WF_all_vars(InScan(Scan!key_read_begin))
  /\ WF_all_vars(InScan(Scan!key_read_slot)) /\ WF_all_vars(InScan(Scan!key_calc))
  /\ WF_all_vars(InRouter(Router!TimerTick)) /\ SF_all_vars(InRouter(Router!BankSwitch))

-----------------------------------------------------------------------------
\* The variables of the key scan range over their types.
ScanTypeOK == Scan!TypeOK

\* No spurious press (spec 4.2): when key_read has finished, every key it
\* reports pressed was pressed in DEBOUNCE_BUFFER_SIZE consecutive samples
\* at some moment of that read, though TIMER0 overwrote slots meanwhile.
DebounceSound == Scan!DebounceSound

\* In a behaviour of the scan unit, the debounced state converges to a
\* stable physical state: a key that stays pressed is eventually reported
\* pressed for good, and one that stays released is eventually released.
DebounceConverges == unit = "scan" => Scan!DebounceConverges

\* The variables of the key router range over their types.
RouterTypeOK == Router!TypeOK

\* No stuck notes (spec 4.4): every note or CC the host holds on belongs
\* to a key that is still held, across bank changes by hold, host CC 3
\* and config push.
NoStuckNotes == Router!NoStuckNotes

\* Spec 4.4, 8: service_bank_select_buttons switches bank only after the
\* bank-select key was held for counter_limit ms (one ms of slack).
HoldRespected == Router!HoldRespected

\* Spec 8: one hold of a bank key gives exactly one bank-change event.
OneEventPerHold == Router!OneEventPerHold

\* In a behaviour of the router unit, a bank key held with the side bank
\* on, as the last bank key pressed, is eventually acted on.
HoldSwitchesBank == unit = "router" => Router!HoldSwitchesBank
===============================================================================
