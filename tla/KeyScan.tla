------------------------------- MODULE KeyScan -------------------------------
(***************************************************************************)
(* Key sampling, debounce and edge detection of src/midi_fighter_64/key.c. *)
(*                                                                         *)
(* Two contexts share the debounce ring buffer:                            *)
(*  - the TIMER0 overflow interrupt (ISR(TIMER0_OVF_vect)) writes one raw  *)
(*    sample of the switch matrix into the next slot every millisecond;    *)
(*  - the main loop (Midifighter_Task) runs key_read, which ANDs the slots *)
(*    one at a time into g_key_state, then key_calc, which derives the     *)
(*    key-down and key-up sets.                                            *)
(* The ISR may preempt key_read between any two slots, so each slot read   *)
(* is a step of its own.  A 64-bit key bitset is modelled as a subset of   *)
(* Keys: bit i set <=> key i is in the set.                                *)
(***************************************************************************)
EXTENDS Naturals, FiniteSets

CONSTANTS
  Keys,                  \* the keys of the switch matrix
  DEBOUNCE_BUFFER_SIZE,  \* slots of the ring buffer (10 in constants.h)
  MaxTicksPerRead        \* ISR ticks that fit into one run of key_read

ASSUME DEBOUNCE_BUFFER_SIZE \in Nat \ {0}
ASSUME MaxTicksPerRead \in Nat

Slots == 0 .. DEBOUNCE_BUFFER_SIZE - 1

VARIABLES
  pressed,                \* the physical switch matrix, set by the user
  g_key_debounce_buffer,  \* Slots -> SUBSET Keys
  buffer_pos,             \* the ISR's static write position
  g_key_state, g_key_prev_state, g_key_down, g_key_up,
  pc,                     \* main loop: "task", "read" or "calc"
  i,                      \* loop index of key_read
  \* history variables, not in the code:
  run_on, run_off,        \* trailing run of pressed / released samples
  ticks_in_read,          \* ISR ticks since key_read began
  full_during_read        \* keys with a full pressed run during this read

vars == <<pressed, g_key_debounce_buffer, buffer_pos, g_key_state,
          g_key_prev_state, g_key_down, g_key_up, pc, i,
          run_on, run_off, ticks_in_read, full_during_read>>

\* A run of samples longer than the buffer tells nothing more.
Capped(n) == IF n > DEBOUNCE_BUFFER_SIZE THEN DEBOUNCE_BUFFER_SIZE ELSE n

FullRun(r) == {k \in Keys : r[k] = DEBOUNCE_BUFFER_SIZE}

Reading == pc = "read"

-----------------------------------------------------------------------------
(* Mutants: plausible mistakes in the code, used to show the properties    *)
(* below can fail.                                                         *)
NextPos_stuck(p) == p
NextPos_no_wrap(p) == p + 1
ReadDone_early(n) == n = DEBOUNCE_BUFFER_SIZE - 1
-----------------------------------------------------------------------------

\* buffer_pos = (buffer_pos + 1) % DEBOUNCE_BUFFER_SIZE
NextPos(p) == (p + 1) % DEBOUNCE_BUFFER_SIZE

\* the loop of key_read ends after DEBOUNCE_BUFFER_SIZE slots
ReadDone(n) == n = DEBOUNCE_BUFFER_SIZE

Init ==
  /\ pressed = {}
  \* static storage: the buffer and the key globals start zeroed (key_setup)
  /\ g_key_debounce_buffer = [s \in Slots |-> {}]
  /\ buffer_pos = 0
  /\ g_key_state = {}
  /\ g_key_prev_state = {}
  /\ g_key_down = {}
  /\ g_key_up = {}
  /\ pc = "task"
  /\ i = 0
  /\ run_on = [k \in Keys |-> 0]
  /\ run_off = [k \in Keys |-> DEBOUNCE_BUFFER_SIZE]
  /\ ticks_in_read = 0
  /\ full_during_read = {}

\* The user presses or releases any keys.
SwitchChange ==
  /\ \E s \in SUBSET Keys : pressed' = s /\ s # pressed
  /\ UNCHANGED <<g_key_debounce_buffer, buffer_pos, g_key_state,
                 g_key_prev_state, g_key_down, g_key_up, pc, i,
                 run_on, run_off, ticks_in_read, full_during_read>>

\* ISR(TIMER0_OVF_vect): latch and shift in the matrix, store the sample
\* (after the MF64 inversion, a set bit is a pressed key) and advance the
\* ring position.  key_read is a few hundred cycles against a 1 ms tick, so
\* at most MaxTicksPerRead ticks land inside one read.
TIMER0_OVF ==
  /\ ~Reading \/ ticks_in_read < MaxTicksPerRead
  /\ g_key_debounce_buffer' = [g_key_debounce_buffer EXCEPT ![buffer_pos] = pressed]
  /\ buffer_pos' = NextPos(buffer_pos)
  /\ run_on' = [k \in Keys |-> IF k \in pressed THEN Capped(run_on[k] + 1) ELSE 0]
  /\ run_off' = [k \in Keys |-> IF k \in pressed THEN 0 ELSE Capped(run_off[k] + 1)]
  /\ ticks_in_read' = IF Reading THEN ticks_in_read + 1 ELSE ticks_in_read
  /\ full_during_read' = IF Reading THEN full_during_read \cup FullRun(run_on')
                                    ELSE full_during_read
  /\ UNCHANGED <<pressed, g_key_state, g_key_prev_state, g_key_down, g_key_up, pc, i>>

\* key_read, entry: g_key_state = 0xffffffffffffffff.
key_read_begin ==
  /\ pc = "task"
  /\ g_key_state' = Keys
  /\ i' = 0
  /\ pc' = "read"
  /\ ticks_in_read' = 0
  /\ full_during_read' = FullRun(run_on)
  /\ UNCHANGED <<pressed, g_key_debounce_buffer, buffer_pos, g_key_prev_state,
                 g_key_down, g_key_up, run_on, run_off>>

\* key_read, one loop iteration: g_key_state &= g_key_debounce_buffer[i].
key_read_slot ==
  /\ pc = "read"
  /\ g_key_state' = g_key_state \cap g_key_debounce_buffer[i]
  /\ i' = i + 1
  /\ pc' = IF ReadDone(i + 1) THEN "calc" ELSE "read"
  /\ UNCHANGED <<pressed, g_key_debounce_buffer, buffer_pos, g_key_prev_state,
                 g_key_down, g_key_up, run_on, run_off, ticks_in_read,
                 full_during_read>>

\* key_calc: down = (prev ^ state) & state, up = (prev ^ state) & prev,
\* then prev = state.  The rest of Midifighter_Task follows ("task").
key_calc ==
  LET changed == (g_key_prev_state \ g_key_state) \cup (g_key_state \ g_key_prev_state)
  IN
  /\ pc = "calc"
  /\ g_key_down' = changed \cap g_key_state
  /\ g_key_up' = changed \cap g_key_prev_state
  /\ g_key_prev_state' = g_key_state
  /\ pc' = "task"
  /\ UNCHANGED <<pressed, g_key_debounce_buffer, buffer_pos, g_key_state, i,
                 run_on, run_off, ticks_in_read, full_during_read>>

Next ==
  \/ SwitchChange
  \/ TIMER0_OVF
  \/ key_read_begin
  \/ key_read_slot
  \/ key_calc

\* The timer interrupt is hardware and fires every millisecond; the main
\* loop never blocks, so each of its steps is eventually taken.
Fairness ==
  /\ WF_vars(TIMER0_OVF)
  /\ WF_vars(key_read_begin)
  /\ WF_vars(key_read_slot)
  /\ WF_vars(key_calc)

Spec == Init /\ [][Next]_vars /\ Fairness

-----------------------------------------------------------------------------
TypeOK ==
  /\ pressed \subseteq Keys
  /\ g_key_debounce_buffer \in [Slots -> SUBSET Keys]
  /\ buffer_pos \in Slots
  /\ {g_key_state, g_key_prev_state, g_key_down, g_key_up} \subseteq SUBSET Keys
  /\ pc \in {"task", "read", "calc"}
  /\ i \in 0 .. DEBOUNCE_BUFFER_SIZE
  /\ run_on \in [Keys -> 0 .. DEBOUNCE_BUFFER_SIZE]
  /\ run_off \in [Keys -> 0 .. DEBOUNCE_BUFFER_SIZE]
  /\ ticks_in_read \in 0 .. MaxTicksPerRead
  /\ full_during_read \subseteq Keys

\* No spurious press (spec 4.2): when key_read has finished, every key it
\* reports pressed was pressed in DEBOUNCE_BUFFER_SIZE consecutive samples
\* at some moment of that read, even though the ISR overwrote slots while
\* key_read was ANDing them.
DebounceSound == pc = "calc" => g_key_state \subseteq full_during_read

\* Spec 4.2 / 8: a single released sample during a press must not flip the
\* debounced bit; a held key reads released only after
\* DEBOUNCE_BUFFER_SIZE consecutive released samples.  (key_read ANDs the
\* samples, so one released sample is enough.)
ReleaseDebounced ==
  pc = "calc" =>
    \A k \in g_key_prev_state \ g_key_state : run_off[k] = DEBOUNCE_BUFFER_SIZE

\* The debounced state converges to a stable physical state: a key that
\* stays pressed is eventually reported pressed for good, and one that
\* stays released is eventually reported released for good.
DebounceConverges ==
  \A k \in Keys :
    /\ <>[](k \in pressed) => <>[](k \in g_key_prev_state)
    /\ <>[](k \notin pressed) => <>[](k \notin g_key_prev_state)
=============================================================================
