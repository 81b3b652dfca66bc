------------------------------- MODULE SleepTimer -------------------------------
(***************************************************************************)
(* The sleep timer: after G_EE_SLEEP_TIME idle minutes the display shows   *)
(* the ball demo until a key is pressed.                                   *)
(*  - ISR(TIMER1_OVF_vect) counts half_ms_counter (led.c).                 *)
(*  - default_display_run, run at each LED refresh, turns it into seconds  *)
(*    and minutes, calls ball_demo_setup when the minute count reaches     *)
(*    the sleep time and ball_demo_run while it is above it (display.c).   *)
(*  - The key scan of Midifighter_Task resets the minute count on a key    *)
(*    press, and main starts it at the sleep time (midifighter64.c).       *)
(*  - A config push sets G_EE_SLEEP_TIME at run time (config.c).           *)
(* The ball grid is abstracted to whether ball_demo_setup has cleared it   *)
(* since power-up: before that it is the static zero array, which puts     *)
(* ball 0 in all 64 cells.  The ball movement itself is not modelled.      *)
(***************************************************************************)
EXTENDS Naturals

CONSTANTS
  BootSleepTimes,       \* G_EE_SLEEP_TIME as eeprom_setup loads it
  PushSleepTimes,       \* sleep times a config push may carry
  HALF_MS_PER_SECOND,   \* 2000
  SECONDS_PER_MINUTE,   \* 60
  MINUTE_MOD,           \* 2^8: sleep_minute_counter is uint8_t
  HALF_MS_BOUND         \* bound on ISR ticks between two refreshes

VARIABLES
  half_ms_counter, one_second_counter, sleep_minute_counter,
  G_EE_SLEEP_TIME,
  g_key_down,           \* a key went down in this pass (key_calc)
  main_pc,              \* "keys": before the key scan; "display": after it
  ball_grid,            \* "static_zero" or "set_up"
  shown                 \* what the last refresh displayed

sleep_vars == <<half_ms_counter, one_second_counter, sleep_minute_counter,
                G_EE_SLEEP_TIME, g_key_down, main_pc, ball_grid, shown>>

TypeOK ==
  /\ half_ms_counter \in 0 .. HALF_MS_BOUND
  /\ one_second_counter \in 0 .. SECONDS_PER_MINUTE
  /\ sleep_minute_counter \in 0 .. MINUTE_MOD - 1
  /\ G_EE_SLEEP_TIME \in BootSleepTimes \cup PushSleepTimes
  /\ g_key_down \in BOOLEAN
  /\ main_pc \in {"keys", "display"}
  /\ ball_grid \in {"static_zero", "set_up"}
  /\ shown \in {"normal", "demo"}

\* Mutant: the minute count started one past the sleep time.
BootMinutes_ahead(t) == (t + 1) % MINUTE_MOD

\* main: "Start Device With Sleep Animation Enabled".
BootMinutes(t) == t

Init ==
  /\ half_ms_counter = 0 /\ one_second_counter = 0
  /\ G_EE_SLEEP_TIME \in BootSleepTimes
  /\ sleep_minute_counter = BootMinutes(G_EE_SLEEP_TIME)
  /\ g_key_down = FALSE
  /\ main_pc = "keys"
  /\ ball_grid = "static_zero"
  /\ shown = "normal"

\* ISR(TIMER1_OVF_vect): half_ms_counter += 1.
Timer1HalfMs ==
  /\ half_ms_counter < HALF_MS_BOUND
  /\ half_ms_counter' = half_ms_counter + 1
  /\ UNCHANGED <<one_second_counter, sleep_minute_counter, G_EE_SLEEP_TIME,
                 g_key_down, main_pc, ball_grid, shown>>

\* The receive loop, at the start of a pass, applies a config push.
ConfigPush(t) ==
  /\ main_pc = "keys"
  /\ G_EE_SLEEP_TIME' = t
  /\ UNCHANGED <<half_ms_counter, one_second_counter, sleep_minute_counter,
                 g_key_down, main_pc, ball_grid, shown>>

\* key_read/key_calc, then "update sleep timer (if necessary)".
KeyScan(pressed) ==
  /\ main_pc = "keys"
  /\ g_key_down' = pressed
  /\ sleep_minute_counter' = IF pressed THEN 0 ELSE sleep_minute_counter
  /\ main_pc' = "display"
  /\ UNCHANGED <<half_ms_counter, one_second_counter, G_EE_SLEEP_TIME, ball_grid, shown>>

\* The LED refresh interval has not elapsed: the pass ends.
NoRefresh ==
  /\ main_pc = "display"
  /\ main_pc' = "keys"
  /\ UNCHANGED <<half_ms_counter, one_second_counter, sleep_minute_counter,
                 G_EE_SLEEP_TIME, g_key_down, ball_grid, shown>>

\* The counters after "Increment timing counters".  The read and the reset
\* of half_ms_counter are one step: an ISR tick between them is lost,
\* which shifts a second by half a millisecond and nothing else.
TimingCounters(h, s, m) ==
  CASE h < HALF_MS_PER_SECOND -> [h |-> h, s |-> s, m |-> m]
    [] s + 1 >= SECONDS_PER_MINUTE -> [h |-> 0, s |-> 0, m |-> (m + 1) % MINUTE_MOD]
    [] OTHER -> [h |-> 0, s |-> s + 1, m |-> m]

\* After ball_demo_setup the minute count moves past the sleep time.
SetupAdvance(m) == (m + 1) % MINUTE_MOD

\* Mutant: the key test dropped from the restart.
KeyRestarts_always(t, pressed) == t # 0

\* The restart of the counters at a refresh that sees a key press.
KeyRestarts(t, pressed) == t # 0 /\ pressed

\* default_display_run, the sleep part: count seconds and minutes, set up
\* the demo at the sleep time, run it above, and restart on a key press.
Refresh ==
  /\ main_pc = "display"
  /\ LET t == G_EE_SLEEP_TIME
         c == TimingCounters(half_ms_counter, one_second_counter, sleep_minute_counter)
         setup == t # 0 /\ c.m = t
         m3 == IF setup THEN SetupAdvance(c.m) ELSE c.m
         demo == t # 0 /\ m3 > t
     IN  /\ half_ms_counter' = c.h
         /\ ball_grid' = IF setup THEN "set_up" ELSE ball_grid
         /\ shown' = IF demo THEN "demo" ELSE "normal"
         /\ one_second_counter' = IF KeyRestarts(t, g_key_down) THEN 0 ELSE c.s
         /\ sleep_minute_counter' = IF KeyRestarts(t, g_key_down) THEN 0 ELSE m3
  /\ main_pc' = "keys"
  /\ UNCHANGED <<G_EE_SLEEP_TIME, g_key_down>>

Next ==
  \/ Timer1HalfMs
  \/ \E t \in PushSleepTimes : ConfigPush(t)
  \/ \E p \in BOOLEAN : KeyScan(p)
  \/ NoRefresh \/ Refresh

\* TIMER1 keeps overflowing and the main loop keeps scanning keys; the
\* refresh, due every LED_REFRESH_LIMIT ms, is taken whenever a pass finds
\* it due, which only strong fairness ensures.  Users and hosts owe
\* nothing.
Fairness ==
  /\ WF_sleep_vars(Timer1HalfMs)
  /\ WF_sleep_vars(\E p \in BOOLEAN : KeyScan(p))
  /\ SF_sleep_vars(Refresh)

Spec == Init /\ [][Next]_sleep_vars /\ Fairness

-----------------------------------------------------------------------------
\* ball_demo_run only ever runs on a grid ball_demo_setup has cleared
\* ("Clear the Grid!"): the demo never starts on the static zero grid,
\* which holds ball 0 in every cell and shows all 64 buttons dark.
DemoOnSetUpGrid == shown = "demo" => ball_grid = "set_up"

\* With the sleep timer on and no key pressed any more, the ball demo is
\* shown again and again: the minute count reaches the sleep time, the
\* demo is set up and runs, whatever the 8-bit minute count does after.
SleepDemoRecurs ==
  <>[](G_EE_SLEEP_TIME # 0 /\ ~g_key_down) => []<>(shown = "demo")
===============================================================================
