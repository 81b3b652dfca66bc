---------------------------- MODULE MC_Algorithms ----------------------------
(***************************************************************************)
(* Checks the pure algorithms of the firmware against reference           *)
(* definitions on bounded inputs, and the small units that run alone in   *)
(* the main loop against their invariants.  A state holds one input:     *)
(*  - a byte stream of up to MaxLen bytes over Bytes, grown a byte at a   *)
(*    time: the payload of a config push for tv_table_decode and a        *)
(*    message for midi_stream_sysex;                                      *)
(*  - a geometric animation of some type and button at some step,        *)
(*    advanced as geometric_animation_state advances it and restarted    *)
(*    with any type on any button as start_geometric_animation does;      *)
(*  - the receive loop and the flash counter of MidiRx, run from their    *)
(*    initial state with the host sending packets;                        *)
(*  - the sleep timer of SleepTimer, from every sleep time at power-up;  *)
(*  - the ball demo of BallDemo, from power-up, for MaxSleepPeriods more  *)
(*    sleep periods of at most MaxDemoFrames frames each.                 *)
(* A behaviour stays with the kind of input it starts with, so the state  *)
(* spaces of the units add up instead of multiplying.                     *)
(***************************************************************************)
EXTENDS TvCodec, SysExOut, GeometricAnimation

CONSTANTS Bytes, MaxLen,
          Packets, CLOCK, START, STOP, EP_CAPACITY, USB_RX_PACKET_LIMIT,
          USB_RX_FAIL_LIMIT, RX_COUNT_MOD, TIMER1_FLASH_TICKS, FLASH_MOD,
          BootSleepTimes, PushSleepTimes, HALF_MS_PER_SECOND,
          SECONDS_PER_MINUTE, MINUTE_MOD, HALF_MS_BOUND,
          REPEAT_BALL_COLLISION_LIMIT, MaxDemoFrames, MaxSleepPeriods

VARIABLE input

VARIABLES endpoint, rx_pc, usb_rx_packets, usb_rx_fail_count,
          midi_clock_enabled, ticks, tick, display_flash_counter, clk_load

rx_vars == <<endpoint, rx_pc, usb_rx_packets, usb_rx_fail_count,
             midi_clock_enabled, ticks, tick, display_flash_counter, clk_load>>

Rx == INSTANCE MidiRx

VARIABLES half_ms_counter, one_second_counter, sleep_minute_counter,
          G_EE_SLEEP_TIME, g_key_down, main_pc, ball_grid, shown

sleep_vars == <<half_ms_counter, one_second_counter, sleep_minute_counter,
                G_EE_SLEEP_TIME, g_key_down, main_pc, ball_grid, shown>>

Sleep == INSTANCE SleepTimer

VARIABLES demo_grid, ball_horizontal_direction, ball_horizontal_slowdown_factor,
          ball_horizontal_slowdown_counter, ball_vertical_direction,
          ball_vertical_slowdown_counter, ball_vertical_max, ball_index,
          new_ball_delay_counter, direction, repeat_collision_counter,
          g_seed16, pair_collisions, in_frame, scan_row, balls_on_grid, disable_collision,
          frame_start_grid, demo_frames, sleep_periods

ball_vars == <<demo_grid, ball_horizontal_direction, ball_horizontal_slowdown_factor,
               ball_horizontal_slowdown_counter, ball_vertical_direction,
               ball_vertical_slowdown_counter, ball_vertical_max, ball_index,
               new_ball_delay_counter, direction, repeat_collision_counter,
               g_seed16, pair_collisions, in_frame, scan_row, balls_on_grid,
               disable_collision, frame_start_grid, demo_frames, sleep_periods>>

\* The ball demo's grid is not the grid flag of SleepTimer.
Ball == INSTANCE BallDemo WITH ball_grid <- demo_grid

\* The bound of the ball unit's sleep periods and frames (a state constraint).
DemoBound == demo_frames <= MaxDemoFrames /\ sleep_periods <= MaxSleepPeriods

Stream(s) == [kind |-> "stream", bytes |-> s]
Anim(t, b, p) == [kind |-> "anim", type |-> t, btn |-> b, pos |-> p]

RxUnit == [kind |-> "rx"]
SleepUnit == [kind |-> "sleep"]
BallUnit == [kind |-> "ball"]

Init ==
  /\ input \in {Stream(<<>>), RxUnit, SleepUnit, BallUnit}
                \cup {Anim(t, b, 0) : t \in DOMAIN STEPS, b \in Buttons}
  /\ Rx!Init
  /\ Sleep!Init
  /\ Ball!Init
  \* the sleep variables of the other units stay at one initial state
  /\ input # SleepUnit => G_EE_SLEEP_TIME = CHOOSE t \in BootSleepTimes : TRUE

AppendByte ==
  /\ input.kind = "stream"
  /\ Len(input.bytes) < MaxLen
  /\ \E b \in Bytes : input' = Stream(Append(input.bytes, b))

NewMessage ==
  /\ input.kind = "stream"
  /\ input.bytes # <<>>
  /\ input' = Stream(<<>>)

AnimationFrame ==
  /\ input.kind = "anim"
  /\ AnimationRuns(input.type, input.pos)
  /\ input' = [input EXCEPT !.pos = AnimationAdvance(@)]

AnimationStart ==
  /\ input.kind = "anim"
  /\ \E t \in DOMAIN STEPS, b \in Buttons : input' = Anim(t, b, 0)

\* A step of MidiRx, taken only in a behaviour of the receive unit.
InRx(A) == input = RxUnit /\ A /\ UNCHANGED <<input, sleep_vars, ball_vars>>

\* A step of SleepTimer, taken only in a behaviour of the sleep unit.
InSleep(A) == input = SleepUnit /\ A /\ UNCHANGED <<input, rx_vars, ball_vars>>

\* A step of BallDemo, taken only in a behaviour of the ball unit.
InBall(A) == input = BallUnit /\ A /\ UNCHANGED <<input, rx_vars, sleep_vars>>

all_vars == <<input, rx_vars, sleep_vars, ball_vars>>

Next ==
  \/ AppendByte /\ UNCHANGED <<rx_vars, sleep_vars, ball_vars>>
  \/ NewMessage /\ UNCHANGED <<rx_vars, sleep_vars, ball_vars>>
  \/ AnimationFrame /\ UNCHANGED <<rx_vars, sleep_vars, ball_vars>>
  \/ AnimationStart /\ UNCHANGED <<rx_vars, sleep_vars, ball_vars>>
  \/ InRx(Rx!Next)
  \/ InSleep(Sleep!Next)
  \/ InBall(Ball!Next)

\* The fairness of MidiRx (main loop and TIMER1), for the receive unit.
RxFairness ==
  /\ WF_all_vars(InRx(Rx!RxEnter)) /\ WF_all_vars(InRx(Rx!RxPacketLimit))
  /\ WF_all_vars(InRx(Rx!RxFail)) /\ WF_all_vars(InRx(Rx!RxReceive))
  /\ WF_all_vars(InRx(Rx!ClockStore)) /\ WF_all_vars(InRx(Rx!Timer1))

\* The fairness of SleepTimer (TIMER1, key scan, LED refresh).
SleepFairness ==
  /\ WF_all_vars(InSleep(Sleep!Timer1HalfMs))
  /\ WF_all_vars(InSleep(\E p \in BOOLEAN : Sleep!KeyScan(p)))
  /\ SF_all_vars(InSleep(Sleep!Refresh))

Spec == Init /\ [][Next]_all_vars /\ RxFairness /\ SleepFairness

-----------------------------------------------------------------------------
(* References.                                                             *)

\* USB-MIDI 1.0: the data bytes a SysEx packet of each code index carries.
CinBytes(cin) == CASE cin \in {3, 4, 7} -> 3 [] cin = 6 -> 2 [] cin = 5 -> 1

RECURSIVE Reassemble(_)
Reassemble(ps) ==
  IF ps = <<>> THEN <<>>
  ELSE SubSeq(Head(ps).data, 1, CinBytes(Head(ps).cin)) \o Reassemble(Tail(ps))

\* Spec 4.6: a message opens with 0x4 packets and closes with one 0x5, 0x6
\* or 0x7 packet; an end packet while no message is open is a framing error.
Framed(ps) ==
  /\ ps # <<>>
  /\ \A k \in 1 .. Len(ps) - 1 : ps[k].cin = 4
  /\ ps[Len(ps)].cin \in {5, 6, 7}

\* The shape of each animation at step p in plain integer geometry, as
\* offsets (dr, dc) of a lit button from the animated one (rows upwards).
InSquare(dr, dc, p) == (IF Dist(dr, 0) > Dist(dc, 0) THEN Dist(dr, 0) ELSE Dist(dc, 0)) = p
InCircle(dr, dc, p) ==
  LET m == Dist(dr, 0) + Dist(dc, 0)
      width == IF p = 1 THEN 0 ELSE IF p \div 2 < 3 THEN p \div 2 ELSE 3
  IN  /\ Dist(dr, 0) <= p /\ Dist(dc, 0) <= p
      /\ \/ m = p /\ InSquare(dr, dc, p)
         \/ p < m /\ m <= p + width
InStar(dr, dc, p) ==
  \E k \in 1 .. p, u \in {-1, 0, 1}, v \in {-1, 0, 1} :
    /\ <<u, v>> # <<0, 0>>
    /\ k > p - GEOMETRIC_STAR_MAX_TAIL_LENGTH
    /\ dr = k * u /\ dc = k * v
InTriangle(dr, dc, p) ==
  \/ dr = 1 - p /\ Dist(dc, 0) <= 2 * p - 1
  \/ 1 - p <= dr /\ dr <= p /\ Dist(dc, 0) = p - dr

Shape(t, btn, p) ==
  {id * 3 : id \in {id \in Buttons :
     LET dr == get_geometric_button_row(id) - get_geometric_button_row(btn)
         dc == get_geometric_button_column(id) - get_geometric_button_column(btn)
     IN  CASE t = SQUARE -> InSquare(dr, dc, p)
           [] t = CIRCLE -> InCircle(dr, dc, p)
           [] t = STAR -> InStar(dr, dc, p)
           [] t = TRIANGLE -> InTriangle(dr, dc, p)}}

-----------------------------------------------------------------------------
\* tv_table_decode stores exactly the last value given to each in-range
\* tag: a tag >= TV_TABLE_SIZE is a no-op that corrupts no other tag, an
\* odd trailing byte is ignored, and tags not sent stay 0 (spec 4.8, 8).
DecodeMatchesReference ==
  input.kind = "stream" => tv_table_decode(ZeroTable, input.bytes) = DecodeRef(input.bytes)

\* midi_stream_sysex loses, adds and reorders no byte: the packets carry
\* the message, and a message longer than one packet (all that
\* send_config_data and the bulk pull send) is framed as the receiving
\* reassembler of spec 4.6 requires.
SysExPacketsFramed ==
  input.kind = "stream" =>
    LET ps == midi_stream_sysex(input.bytes)
    IN  /\ Reassemble(ps) = input.bytes
        /\ Len(input.bytes) > 3 => Framed(ps)

\* At every step after the first (at step 0 "only the button itself is
\* lit") each geometric animation lights exactly its shape (outline of a
\* square, ring of a circle, eight rays of a star, outline of a triangle)
\* clipped to the grid, even where its bounds wrap below 0 in uint8_t, and
\* never writes outside the 64 triplets of the frame buffer.
AnimationShapes ==
  input.kind = "anim" /\ input.pos > 0 /\ AnimationRuns(input.type, input.pos) =>
    Lit(input.type, input.btn, input.pos) = Shape(input.type, input.btn, input.pos)

\* The receive loop and TIMER1 implement the inbox of spec 4.6 (packets
\* handled once each in order; while a MIDI clock is present only Clock
\* packets move display_flash_counter, without one the ISR does), with no
\* ISR step lost between midi_clock's load and store of the counter.
InboxRefined == Rx!InboxRefined

\* Every call of Midifighter_GetIncomingUsbMidiMessages returns to the main
\* loop, under any pattern of host traffic.
DrainLoopReturns == Rx!DrainLoopReturns

\* A packet waiting in the USB endpoint is eventually received.
WaitingPacketReceived == Rx!WaitingPacketReceived

\* With the sleep time fixed at power-up, ball_demo_run never runs on a
\* grid ball_demo_setup has not cleared.
DemoOnSetUpGrid == Sleep!DemoOnSetUpGrid

\* With the sleep timer on and no more key presses, the ball demo is shown
\* again and again (in the behaviours of the sleep unit; elsewhere the
\* sleep timer does not run).
SleepDemoRecurs == input = SleepUnit => Sleep!SleepDemoRecurs

\* new_ball places a ball only on a free cell, but under the index of the
\* next ball without asking whether that ball is still on the grid: no
\* ball ever occupies two cells (ball_index wraps only after the other
\* ball has been placed, and balls leave the grid only together).
NoGhostBall == Ball!NoGhostBall

\* The scan of ball_demo_run meets a ball again after moving it down the
\* scan order; no ball moves more than one row and one column in a frame
\* (the slowdown counters, reset by every move and overridden by every
\* collision, are what stop a second move).
OneCellPerFrame == Ball!OneCellPerFrame

=============================================================================
