-------------------------------- MODULE MidiRx --------------------------------
(***************************************************************************)
(* The USB-MIDI receive loop of midifighter64.c                            *)
(* (Midifighter_GetIncomingUsbMidiMessages, the live build branch), its    *)
(* real-time cases (midi_clock, midi_clock_enable of midi.c) and the flash *)
(* counter step of ISR(TIMER1_OVF_vect) in led.c.                          *)
(*                                                                         *)
(* The main loop calls the receive loop once per pass (USB_RX_METHOD is    *)
(* USB_RX_ONCE_PER_MAINLOOP).  The loop polls the OUT endpoint: a packet   *)
(* is received and dispatched, an empty poll counts a failure, and the     *)
(* loop returns after USB_RX_PACKET_LIMIT packets or USB_RX_FAIL_LIMIT     *)
(* failures in a row.  The host fills the endpoint up to EP_CAPACITY      *)
(* packets (it is NAKed beyond that).  Packets other than Clock, Start    *)
(* and Stop go to the handlers modelled by NoteFeedback, KeyRouter and     *)
(* ConfigStore; here they only take their place in the FIFO.               *)
(*                                                                         *)
(* display_flash_counter is a uint16_t written by the main loop (in        *)
(* midi_clock, a load and a store the ISR may come between) and by the     *)
(* ISR.  The other counters of the ISR (g_led_counter, half_ms_counter)    *)
(* are read by no modelled code and are left out.                          *)
(***************************************************************************)
EXTENDS Naturals, Sequences

CONSTANTS
  Packets,              \* USB-MIDI packets the host may send
  CLOCK, START, STOP,   \* cable 0, CIN 0xF, data 0xF8 / 0xFA / 0xFC
  EP_CAPACITY,          \* packets the OUT endpoint holds
  USB_RX_PACKET_LIMIT,  \* 512
  USB_RX_FAIL_LIMIT,    \* 120
  RX_COUNT_MOD,         \* 2^16: usb_rx_packets, usb_rx_fail_count are uint16_t
  TIMER1_FLASH_TICKS,   \* 75
  FLASH_MOD             \* 2^16: display_flash_counter is uint16_t

ASSUME {CLOCK, START, STOP} \subseteq Packets
ASSUME USB_RX_PACKET_LIMIT < RX_COUNT_MOD /\ USB_RX_FAIL_LIMIT < RX_COUNT_MOD

VARIABLES
  endpoint,             \* packets waiting in the OUT endpoint, oldest first
  rx_pc,                \* "task": rest of Midifighter_Task; "poll": in the
                        \* receive loop; "clk_store": inside midi_clock
  usb_rx_packets, usb_rx_fail_count,
  midi_clock_enabled, ticks,   \* midi.c
  tick, display_flash_counter, \* led.c
  clk_load              \* the counter value midi_clock loaded

rx_vars == <<endpoint, rx_pc, usb_rx_packets, usb_rx_fail_count,
             midi_clock_enabled, ticks, tick, display_flash_counter, clk_load>>

TypeOK ==
  /\ endpoint \in Seq(Packets) /\ Len(endpoint) <= EP_CAPACITY
  /\ rx_pc \in {"task", "poll", "clk_store"}
  /\ usb_rx_packets \in 0 .. RX_COUNT_MOD - 1
  /\ usb_rx_fail_count \in 0 .. RX_COUNT_MOD - 1
  /\ midi_clock_enabled \in BOOLEAN
  /\ ticks \in 0 .. 3
  /\ tick \in 0 .. TIMER1_FLASH_TICKS
  /\ display_flash_counter \in 0 .. FLASH_MOD - 1
  /\ clk_load \in 0 .. FLASH_MOD - 1

Init ==
  /\ endpoint = <<>>
  /\ rx_pc = "task"
  /\ usb_rx_packets = 0 /\ usb_rx_fail_count = 0
  /\ midi_clock_enabled = FALSE /\ ticks = 0
  /\ tick = 0 /\ display_flash_counter = 0
  /\ clk_load = 0

\* The host sends a packet; the endpoint accepts it while it has room.
HostSend(p) ==
  /\ Len(endpoint) < EP_CAPACITY
  /\ endpoint' = Append(endpoint, p)
  /\ UNCHANGED <<rx_pc, usb_rx_packets, usb_rx_fail_count, midi_clock_enabled,
                 ticks, tick, display_flash_counter, clk_load>>

\* Mutant: the counters kept across calls, as static locals would be.
FreshCount_static(n) == n

\* The locals of the receive loop as each call initialises them.
FreshCount(n) == 0

\* Midifighter_Task reaches the receive loop.
RxEnter ==
  /\ rx_pc = "task"
  /\ rx_pc' = "poll"
  /\ usb_rx_packets' = FreshCount(usb_rx_packets)
  /\ usb_rx_fail_count' = FreshCount(usb_rx_fail_count)
  /\ UNCHANGED <<endpoint, midi_clock_enabled, ticks, tick, display_flash_counter, clk_load>>

\* Mutant: the packet limit test dropped.
PacketLimitReached_never(n) == FALSE

PacketLimitReached(n) == n >= USB_RX_PACKET_LIMIT

\* First branch of the loop: enough packets this pass.
RxPacketLimit ==
  /\ rx_pc = "poll"
  /\ PacketLimitReached(usb_rx_packets)
  /\ rx_pc' = "task"
  /\ UNCHANGED <<endpoint, usb_rx_packets, usb_rx_fail_count, midi_clock_enabled,
                 ticks, tick, display_flash_counter, clk_load>>

\* MIDI_Device_ReceiveEventPacket finds the endpoint empty: count the
\* failure and return at the limit, else poll again.
RxFail ==
  /\ rx_pc = "poll"
  /\ ~PacketLimitReached(usb_rx_packets)
  /\ endpoint = <<>>
  /\ LET f == (usb_rx_fail_count + 1) % RX_COUNT_MOD
     IN  /\ usb_rx_fail_count' = f
         /\ rx_pc' = IF f >= USB_RX_FAIL_LIMIT THEN "task" ELSE "poll"
  /\ UNCHANGED <<endpoint, usb_rx_packets, midi_clock_enabled, ticks, tick,
                 display_flash_counter, clk_load>>

\* The 0xF case of the packet switch.  For a Clock, midi_clock_enable(true)
\* runs before midi_clock, so the resync in midi_clock (counter := 0 when
\* the clock was off) never runs.  On the third tick midi_clock loads the
\* counter; its store is the step ClockStore.
RealTime(p) ==
  CASE p = CLOCK ->
         /\ midi_clock_enabled' = TRUE
         /\ IF ticks = 3
              THEN /\ ticks' = 1
                   /\ clk_load' = display_flash_counter
                   /\ rx_pc' = "clk_store"
              ELSE /\ ticks' = ticks + 1
                   /\ UNCHANGED clk_load
                   /\ rx_pc' = "poll"
    [] p = START -> midi_clock_enabled' = TRUE /\ UNCHANGED <<ticks, clk_load>> /\ rx_pc' = "poll"
    [] p = STOP -> midi_clock_enabled' = FALSE /\ UNCHANGED <<ticks, clk_load>> /\ rx_pc' = "poll"
    [] OTHER -> UNCHANGED <<midi_clock_enabled, ticks, clk_load>> /\ rx_pc' = "poll"

\* A packet is received: count it, reset the failures, dispatch it.
RxReceive ==
  /\ rx_pc = "poll"
  /\ ~PacketLimitReached(usb_rx_packets)
  /\ endpoint # <<>>
  /\ endpoint' = Tail(endpoint)
  /\ usb_rx_packets' = (usb_rx_packets + 1) % RX_COUNT_MOD
  /\ usb_rx_fail_count' = 0
  /\ RealTime(Head(endpoint))
  /\ UNCHANGED <<tick, display_flash_counter>>

\* midi_clock stores the incremented counter and returns to the loop.
ClockStore ==
  /\ rx_pc = "clk_store"
  /\ display_flash_counter' = (clk_load + 1) % FLASH_MOD
  /\ rx_pc' = "poll"
  /\ UNCHANGED <<endpoint, usb_rx_packets, usb_rx_fail_count, midi_clock_enabled,
                 ticks, tick, clk_load>>

\* The ISR advances the flash counter only while no MIDI clock is present.
\* Mutant: the ISR advances the counter whether or not a clock is present.
FreeRunning_always(enabled) == TRUE

FreeRunning(enabled) == ~enabled

\* ISR(TIMER1_OVF_vect), the flash counter part; it may preempt any step.
Timer1 ==
  /\ IF FreeRunning(midi_clock_enabled)
       THEN IF tick = TIMER1_FLASH_TICKS
              THEN tick' = 1 /\ display_flash_counter' = (display_flash_counter + 1) % FLASH_MOD
              ELSE tick' = tick + 1 /\ UNCHANGED display_flash_counter
       ELSE UNCHANGED <<tick, display_flash_counter>>
  /\ UNCHANGED <<endpoint, rx_pc, usb_rx_packets, usb_rx_fail_count,
                 midi_clock_enabled, ticks, clk_load>>

MainLoop == RxEnter \/ RxPacketLimit \/ RxFail \/ RxReceive \/ ClockStore

Next == (\E p \in Packets : HostSend(p)) \/ MainLoop \/ Timer1

\* The main loop never blocks and TIMER1 keeps overflowing; the host owes
\* nothing.
Fairness ==
  /\ WF_rx_vars(RxEnter) /\ WF_rx_vars(RxPacketLimit) /\ WF_rx_vars(RxFail)
  /\ WF_rx_vars(RxReceive) /\ WF_rx_vars(ClockStore) /\ WF_rx_vars(Timer1)

Spec == Init /\ [][Next]_rx_vars /\ Fairness
-----------------------------------------------------------------------------
\* The abstract counter is the one the ISR and the display see, plus the
\* increment midi_clock has loaded and not yet stored.
InboxFlash == (display_flash_counter + (IF rx_pc = "clk_store" THEN 1 ELSE 0)) % FLASH_MOD

Inbox == INSTANCE UsbMidiInbox
           WITH inbox <- endpoint, clock_on <- midi_clock_enabled, flash <- InboxFlash

\* The receive loop and TIMER1 implement the inbox of spec 4.6: packets are
\* handled once each in the order sent; while a MIDI clock is present only
\* Clock packets move display_flash_counter, by one, and the ISR does not;
\* without one the ISR advances it by one.  In particular no ISR step
\* between midi_clock's load and store of the counter is lost.
InboxRefined == Inbox!Spec

\* Each call of the receive loop returns to Midifighter_Task (so keys are
\* scanned and LEDs refreshed again), however the host floods or starves
\* the endpoint.
DrainLoopReturns == rx_pc # "task" ~> rx_pc = "task"

\* A packet waiting in the endpoint is eventually received, however the
\* host keeps it full: either packets are received again and again, or the
\* endpoint ends up empty for good (which only receives can do).  No pass
\* of the main loop may skip the endpoint for good.
WaitingPacketReceived ==
  []<><<RxReceive>>_rx_vars \/ <>[](endpoint = <<>>)
===============================================================================
