# TLA+ models of the Midi Fighter 64 firmware

These TLA+ modules model the firmware in `src/midi_fighter_64/`.

- **What runs.** The firmware runs on an 8-bit AVR with a single main loop, `Midifighter_Task`, and two relevant interrupts: `ISR(TIMER0_OVF_vect)` (key sampling, `system_time_ms`) and `ISR(TIMER1_OVF_vect)` (the flash counter and `half_ms_counter`).
- **What is modelled.**
  - The concurrency between those interrupts and the main loop.
  - The MIDI and SysEx exchanges with the host.
  - EEPROM persistence across power loss.
  - The USB receive loop with its drain limits and the MIDI clock.
  - The sleep timer that starts the ball demo, and the ball demo itself.
  - The pure algorithms: codecs, packetiser and animation geometry.
  - Two abstract specifications of spec 4.5 and 4.6, which the detailed modules are checked to implement.
- **How it is checked.** Every run is listed in `PROJECT.json`. So is the source lines each definition translates (`map`), and the hazards each property guards.

## The parts and how they interact

```
 TIMER0 ISR ──sample──▶ debounce ring ──key_read/key_calc──▶ g_key_down/up
     │ system_time_ms                                   │
     ▼                                                  ▼
 note-off sweep ◀── host Note On/Off      per-key loop: Note/CC out, bank-select hold
 (LED refresh)       (receive loop)          ▲ host CC 3, config push (channel, mode, side bank)
                                             │
 host SysEx ─▶ config.c: push/pull/system ─▶ eeprom.c byte writes (power may fail)
           └─▶ config.c: bulk colour push/pull ─▶ display.c power remap
 midi.c midi_stream_sysex: every SysEx reply cut into USB-MIDI packets
 display.c geometric animations: LEDs lit per step around a pressed key
 USB OUT endpoint ─▶ receive loop (≤ packet / fail limit per pass) ─▶ Clock/Start/Stop
                                          midi_clock ─▶ display_flash_counter ◀── TIMER1 ISR
 TIMER1 ISR half_ms ─▶ LED refresh: seconds, minutes ─▶ ball_demo_setup / ball_demo_run
                                     ball_demo_run: scan moves balls, collisions, new_ball
                       key scan: g_key_down resets the minutes; config push: sleep time
```

## Modules

| module | models | state / operators |
|---|---|---|
| `KeyScan` | `key.c`: `ISR(TIMER0_OVF_vect)` sampling, `key_read`, `key_calc` | The ring buffer, `buffer_pos`, `g_key_state`, `g_key_prev_state`, `g_key_down` and `g_key_up`. `key_read` is one step per slot, so the ISR can preempt it between any two slots. The history variables `run_on`, `run_off` and `full_during_read` record the true sample runs. |
| `NoteFeedback` | The Note On (0x9) and Note Off (0x8) cases of `Midifighter_GetIncomingUsbMidiMessages`, `update_note_off_feedback_delay`, and the LED refresh block of `Midifighter_Task` | `g_midi_note_state`, `g_midi_note_off_counter` (the 7-bit stamp with the 0x80 flag), the 16-bit `system_time_ms` and `last_led_refresh_time_ms`. |
| `KeyRouter` | The per-key loop of `Midifighter_Task`, `key_pressed`, `key_released`, `service_bank_select_buttons`, `change_bank`, host CC 3, and the settings side of a config push | The MIDI notes sounding at the host, `g_key_bank_last_up`, the hold timers, `g_bank_selected`, and a `system_time_ms` read as two bytes. That read can tear when `TornTimeReads` is TRUE. |
| `TvCodec` | `tv_table_decode` and the tag/value encoding of `config.c` | Operators only. |
| `ConfigStore` | `sysExCmdPushConfig`, `send_config_data`, `sysExCmdSystem`; `eeprom_setup`, `eeprom_save_edits` and `eeprom_factory_reset` | The live settings and the EEPROM cells. Four settings (channel, velocity, tilt mask, side bank) stand for the twenty. Each EEPROM write is a step, and `PowerLoss` may come between any two. |
| `BulkXfer` | `sysExCmdBulkXfer` and the power remap of `display.c` | The inactive and active colour tables on a scaled layout, followed by `SLACK` cells that make a write past the table visible. Also the last pushed part and the pull replies. |
| `NoteStateTable` | Spec 4.5, abstract | The velocity shown per id, the ids with a pending Note Off, the animation notes. `NoteFeedback` maps onto it (`NoteStateRefined`): a stamped entry is pending, a due one may be swept. |
| `MidiRx` | The live branch of `Midifighter_GetIncomingUsbMidiMessages`, `midi_clock`, `midi_clock_enable`, and the flash-counter step of `ISR(TIMER1_OVF_vect)` | The endpoint FIFO (the host fills it up to `EP_CAPACITY`), the loop's position (`task`, `poll`, or between the load and the store of `midi_clock`), the `uint16_t` packet and failure counts, `ticks`, `tick` and `display_flash_counter`. |
| `UsbMidiInbox` | Spec 4.1 and 4.6, abstract | A FIFO of packets handled one at a time; Clock/Start/Stop set the clock present or absent; the flash counter moves by one per Clock while a clock is present, and free-runs otherwise. `MidiRx` maps onto it with the counter plus the increment `midi_clock` has loaded and not yet stored. |
| `SleepTimer` | The sleep part of `default_display_run`, `half_ms_counter += 1` of the TIMER1 ISR, the key-scan reset and the boot start of `sleep_minute_counter`, and the sleep time set by a config push | `half_ms_counter`, `one_second_counter`, the `uint8_t` `sleep_minute_counter`, `G_EE_SLEEP_TIME`, `g_key_down`, whether `ball_demo_setup` has cleared the ball grid since power-up, and whether the last refresh showed the demo. |
| `BallDemo` | `new_ball`, `move_ball_horizontally`, `move_ball_vertically`, `repeat_collision_limit_reached`, `ball_demo_setup` and the update part of `ball_demo_run` (`led.c`) | `ball_grid` and every static of the demo (directions, slowdown factors and counters, `ball_vertical_max`, `ball_index`, `new_ball_delay_counter`, `direction`). One update is `FrameBegin`, then `ScanStep` once per row of the 8×8 scan (the frame's locals `balls_on_grid` and `disable_collision` are variables while it runs), then `FrameEnd` with `new_ball`. Each row is a recursive scan of its 8 cells in column order, reading the grid as the earlier cells left it. `random16()` runs on `g_seed16` (module `Random`) at every call the code makes, the colour draws of `new_ball` and `change_ball_colors_after_collision` included, so the sequence of rows and speeds is the device's. Colours and the rendering loop are left out. The history variables `frame_start_grid` and `pair_collisions` record the grid when the update began and the collisions since `ball_demo_setup`. |
| `SysExOut` | `midi_stream_sysex` (`midi.c`) | A recursive operator from a byte sequence to USB-MIDI packets `[cin, data]`. |
| `GeometricAnimation` | The square, circle, star and triangle animations of `display.c` | The set of LED byte offsets that each animation lights at step `pos` around a button. This uses the code's row/column wiring and its `uint8_t` bounds, which wrap below 0. |
| `Random` | `random16` (`random.c`) | The 16-bit xorshift as an operator on the seed, with `Bitwise` for the exclusive or and the shift right, and the initial seed 36243. Nothing calls `set_seed16`, so the sequence is the same after every power-up. |
| `MC_*` | Instantiations for TLC | `MC_Algorithms` drives `TvCodec`, `SysExOut`, `GeometricAnimation`, `MidiRx`, `SleepTimer` and `BallDemo` in a single run. Its `input` variable selects the unit of a behaviour: a growing byte stream, an animation (type, button, step), the receive unit, the sleep unit or the ball unit. A behaviour stays with its unit, and the variables of the other units stay at one initial state, so the state spaces add. `MC_HostInput` does the same for `ConfigStore`, `BulkXfer` and `NoteFeedback`, and `MC_KeyPath` for `KeyScan` and `KeyRouter` (variable `unit`). |

Each action models a whole handler: its guard comes from the code's conditions, and its primed variables from the code's assignments.

## Runs

| run | cfg | expect | what it shows |
|---|---|---|---|
| keypath | `KeyPath.cfg` | pass | Key scan: `DebounceSound`, a key `key_read` reports pressed had a full pressed run during that read, even though the ISR overwrites slots mid-read; `DebounceConverges`, a key stably pressed or released is eventually reported so. Key router: `NoStuckNotes`, `HoldRespected` (a bank switches only after a full hold of its key), `OneEventPerHold` (one event per hold, to the bank of the last bank key pressed), and `HoldSwitchesBank` (a bank key held as the last one pressed, with the side bank on, is eventually acted on), all with atomic time reads. The run takes about 3 minutes; the leads-to of `HoldSwitchesBank` triples the graph TLC searches for liveness. |
| keyscan_dropout | `KeyScan_dropout.cfg` | violation | `ReleaseDebounced`: one released sample ends a press. |
| keyrouter_channel | `KeyRouter_channel.cfg` | violation | `NoStuckNotes`: a config push that changes the channel while a key is held strands its note. |
| keyrouter_torn | `KeyRouter_torn.cfg` | violation | `HoldRespected`: a torn 16-bit read of `system_time_ms` switches the bank without the hold. |
| algorithms | `Algorithms.cfg` | pass | `DecodeMatchesReference`, `SysExPacketsFramed` (reassembly and the framing of spec 4.6) and `AnimationShapes` (each shape equals an integer-geometry reference over every button and step). `InboxRefined`: the receive loop and TIMER1 implement `UsbMidiInbox`, and no ISR step between the load and store of `midi_clock` is lost. `DrainLoopReturns`: every call of the receive loop returns to the main loop. `WaitingPacketReceived`: no waiting packet is left behind for good. `DemoOnSetUpGrid` (sleep time fixed from power-up) and `SleepDemoRecurs`: the demo only runs on a cleared grid, and without key presses it comes back after every wrap of the minute count. `NoGhostBall`: `new_ball` reuses `ball_index` without a check, yet no ball is ever in two cells. `OneCellPerFrame`: the scan meets a ball it moved right or up again, yet no ball moves more than one row and one column in a frame. |
| hostinput | `HostInput.cfg` | pass | NoteFeedback: `NoteOnShown`, a Note On is shown at once, and no stale note-off sweep zeroes it; `NoteOffApplied`, a pending Note Off is eventually applied, across the stamp wrap; `NoteStateRefined`, the stamped table implements `NoteStateTable`. ConfigStore: the settings stay a value that was written (`NoUnwrittenSettings`), pull→push is a fixpoint (`PullPushRoundTrip`), and a reply reports what was persisted (`ReplyMatchesPersisted`). Boots from valid and erased EEPROM, with power loss during push and system saves. BulkXfer: `PullPushFixpoint` (pushing back what a pull reported leaves every part of palette colours unchanged, while a kept off-palette MF3D colour sits in part 1; such a part does not round-trip: (0,30,52) comes back as cyan (0,30,30)) and `PushStaysInPart` (a push writes only inside its part). |
| configstore_fresh | `ConfigStore_fresh.cfg` | violation | `NoUnwrittenSettings`: power loss during the first-boot factory reset. |
| bulk_oversize | `BulkXfer_oversize.cfg` | violation | `PushStaysInPart` with a part longer than 24 bytes. |
| bulk_mf3d | `BulkXfer_mf3d.cfg` | violation | `PulledBytes7Bit`: a pulled byte has its high bit set. |
| sleeptimer_push | `SleepTimer_push.cfg` | violation | `DemoOnSetUpGrid`: booted with the sleep timer off, then given a sleep time by a push after the minute count passed it. |
| balldemo_repeat | `BallDemo_repeat.cfg` | violation | `RepeatCollisionsExplode`: in the demo as the device runs it from power-up, the two balls collide more than the repeat limit without exploding (frame 153). |
| notefeedback_animnote | `NoteFeedback_anim.cfg` | violation | `AnimationNoteTranslated`: an animation-channel Note On for a note below the base note is stored, where spec 4.6 ignores it. |

Each passing property has a mutant in `PROJECT.json`. A mutant replaces one mapped definition with a plausible bug, and TLC must then report that property violated.

## Bounds and why they are enough

- **KeyScan.**
  - Bounds: 2 keys, `DEBOUNCE_BUFFER_SIZE` 3, and at most 1 ISR tick per `key_read`.
  - Why this is enough: a slot overwritten mid-read is enough to mix two windows, and the code is uniform in the buffer size.
- **NoteFeedback.**
  - Bounds: 1 button, the stamp width 4 (standing for 128), a 2-bit time, and a sweep delay of 2. `notefeedback_animnote` sends notes 0 (below the base note 1) and 1.
  - Why this is enough: the stamp and the time still both wrap, and one id on the listening channel, one below and one above covers all three channel cases.
- **KeyRouter.**
  - Bounds: `LO_MOD` 4 stands for the low byte (256), `TIME_MOD` 8 for 2^16, the hold limit is 4 and the refresh limit 2.
  - Why this is enough: a tick can still carry into the high byte between the two loads, and the hold can span a wrap. With a limit of 4 in a time of 8, the window in which a held key is due (elapsed 4 to 7) is as long as the window in which it is not, so a refresh can fall on either side and the wrap of the elapsed time is exercised by `HoldSwitchesBank`.
  - History variables: `sounding`, `bank_cc_out`, `hold_age` and `last_bank_key` (the bank of the last bank key pressed since the last `change_bank`; `key_pressed` clears every other counter, so only that bank can switch).
- **ConfigStore.**
  - Bounds: all EEPROM states that are valid or fully erased, and pushes drawn from `MC_PushBuffers`, which include channels 1, 16 and 3 (a channel-only table) and a table without a channel tag.
  - The `PowerFailSaves` split: `hostinput` lets power fail during the push and system saves. `configstore_fresh` lets it fail during the factory reset as well, the one place the layout version is written before the data.
- **BulkXfer.**
  - Bounds: `PART_SIZE` 3 and `PARTS_PER_BANK` 2 stand for 24 and 8, with 2 banks and 6 slack cells. Messages cover every part number from 0 to one past the last, tags 1–3, and pulls.
  - Payloads: lavender as a pull reports it, to every part; in `hostinput` also the MF3D colour (0,15,26) to part 1 of tag 1, so the table holds palette and off-palette triplets side by side and `PullPushFixpoint`'s restriction to palette parts is exercised. Sending it to every part as well makes the run take over 20 minutes.
  - Why this is enough: the code's `>> 3` and `& 7` become division and remainder by `PARTS_PER_BANK`.
- **MidiRx.**
  - Bounds: `EP_CAPACITY` 2, packet limit 2 and failure limit 2 (for 512 and 120), counts modulo 4, the ISR divider 2 (for 75), the flash counter modulo 4; packets Clock, Start, Stop and one other.
  - Why this is enough: both limits are reached with the endpoint full, empty or refilled in between, the `ticks` divider reaches its load-and-store step, and the ISR can fire between that load and store.
- **SleepTimer.**
  - Bounds: 2 half-ms ticks per second and 2 seconds per minute (for 2000 and 60), the minute count modulo 4 (for 256), at most 2 ISR ticks between refreshes; sleep times 0, 1, 2 at boot, and a push of 1 in `sleeptimer_push`.
  - Why this is enough: the minute count reaches, passes and wraps past every sleep time, and a push can land before, at and after the count reaches it.
- **BallDemo.**
  - Bounds: `REPEAT_BALL_COLLISION_LIMIT` 3 for 0xFF. The demo is deterministic between calls of `ball_demo_setup`, since `random16` is never reseeded; the only choice is the frame at which the user wakes the device and a later sleep sets the demo up again. In `algorithms` the state constraint `DemoBound` explores 200 frames of the first sleep period and 200 more after one further `ball_demo_setup` at any of those frames, each with the seed where the first period left it; `balldemo_repeat` explores 200 frames of the first period.
  - Why this is enough: the first ball drops at once and the second after 24 frames; the first collision comes at frame 150 and the pair locks at frame 153, so collisions, wall and floor bounces and the override of the counters all happen inside the bound, and a second setup can clear the grid with the statics and the seed in any state of the first period. Without setups, `NoGhostBall` and `OneCellPerFrame` also hold for 100 000 frames. The code never takes the limit's value into account (see finding 8), so 3 shows what 255 would.
- **KeyPath.** The key scan and key router units keep the bounds above, with keys 28 and 63 for both.
- **Algorithms.**
  - Bounds: byte streams up to length 7 over {0, 1, 23, 24, 48}, and all 4 animation types × 64 buttons × every step.
  - Why this is enough: lengths 0–7 cover every packet tail (1, 2 and 3 bytes, with and without a preceding 0x4 packet).

## Fairness

- **KeyScan: weak fairness on the ISR and on each main-loop step.**
  - The timer fires every millisecond.
  - The main loop never blocks.
- **NoteFeedback: weak fairness on `TimerTick`, strong fairness on `LedRefresh`.**
  - The refresh block runs whenever the main loop sees the refresh interval elapsed.
  - That condition is enabled intermittently as time wraps, so only strong fairness ensures the refresh eventually runs.
- **MidiRx: weak fairness on every main-loop step and on the TIMER1 ISR.**
  - The main loop calls the receive loop once per pass and never blocks; the timer keeps overflowing.
  - The host owes nothing: `HostSend` has no fairness.
- **SleepTimer: weak fairness on the TIMER1 tick and the key scan, strong fairness on `Refresh`.**
  - The refresh runs when the pass finds `LED_REFRESH_LIMIT` elapsed; the model lets a pass skip it (`NoRefresh`), so only strong fairness says it is taken.
  - Users owe nothing: the key scan may report a press or not.
- **KeyRouter: weak fairness on `TimerTick`, strong fairness on `BankSwitch`.**
  - `BankSwitch` is a `LedRefresh` in which `service_bank_select_buttons` switches the bank. In the code the refresh block runs every 25 ms, while a held key stays due for the 64.5 s before the 16-bit elapsed time wraps, so a due switch cannot be missed forever. In the model, with 8 time values, the refresh could keep falling outside the due window; strong fairness on the switching refresh states the timing argument, and nothing more (key presses, host messages and pushes owe nothing).
- **`MC_KeyPath`, `MC_HostInput` and `MC_Algorithms`** state each unit's fairness on its steps inside the union (`InScan`, `InRouter`, `InFeedback`, `InRx`, `InSleep`), and state each liveness property for its unit only.
- **All other runs check safety only.**
  - ConfigStore, BulkXfer, BallDemo and the pure algorithms have no fairness assumptions.
  - Host messages and user presses are not guaranteed to happen at all.

## Findings

1. **`key.c:175`.** `key_read` ANDs all samples, so a single released sample releases a held key. Spec 4.2 and 8 promise that a single drop-out is tolerated. (`keyscan_dropout`)
2. **`midifighter64.c:829`.** The Note Off channel is recomputed at release, so a config push during a hold strands the note. Spec 4.4 says the press-time channel is used. (`keyrouter_channel`)
3. **`midifighter64.c:213`.** `system_time_ms` is read without guarding the interrupt. A torn read makes a press look 255 ms old, and the bank switches without the 1000 ms hold. (`keyrouter_torn`)
4. **`eeprom.c:203`.** `eeprom_factory_reset` writes the version byte first. A power loss right after it leaves erased 0xFF settings that every later boot trusts. (`configstore_fresh`)
5. **`config.c:293`.** A bulk push never checks `SIZE <= 24`, so a long part overwrites the next part, the other bank, or the memory past the table. (`bulk_oversize`)
6. **`display.c:1136`.** The power remap keeps a triplet when only one channel matches a palette colour. A stored byte then exceeds 48, and the pull sends it as a byte above 127. (`bulk_mf3d`)

7. **`display.c:1084`.** `sleep_minute_counter` counts while the sleep time is 0, starting from the boot value. A sleep time pushed later that is below the count skips the `==` step that calls `ball_demo_setup`, so `ball_demo_run` runs on the static zero grid: ball 0, whose colour is Off, in all 64 cells, and every LED goes dark until a key press. (`sleeptimer_push`)
8. **`led.c:689`.** `repeat_collision_limit_reached` never writes its statics `last_this_ball` and `last_that_ball`, so every collision counts as new and the "both items explode" branch of `ball_demo_run` (`led.c:747-754`) is dead code. The collision branch also sets directions opposite to its comments (`led.c:758`: the ball "going up" is set rising again), so the two balls stay locked and collide without end. (`balldemo_repeat`)
9. **`midifighter64.c:630`.** On the animation channel the receive loop stores the velocity under the raw note, with no subtraction of `MIDI_BASENOTE` and no key-range check, and `midi_animation_state` (`display.c:950-957`) reads index `i` as key `i & 63` of bank `i / 64`. Spec 4.6 translates every accepted channel by the base note and drops out-of-range ids. With the default base note 36, key 0's colour is note 36 but its animation is note 0. (`notefeedback_animnote`)

The early zeroing of a Note Off across the 7-bit stamp wrap is already recorded as an open question in spec 9. The project lists it as a hazard and does not restate it as a run.

## Not modelled

- **The resync branch of `midi_clock`.** The receive loop enables the clock before calling `midi_clock` (`midifighter64.c:576`), so it never runs; `MidiRx` models that order. The effect is only the phase of LED flashing, which is recorded as a hazard.
- **The ball demo with the sleep timer.** `SleepTimer` keeps only whether the grid was cleared, and `BallDemo` starts from a cleared grid. Composing them would multiply the minute counts by the ball trajectories for no property that needs both. Ball colours, `change_ball_colors_after_collision` and the rendering loop only choose LED colours and are left out.
- **The display's reads of the 16-bit counters** (`display_flash_counter` in the flash and pulse animations, `half_ms_counter` in `default_display_run`). A torn read changes one frame or shifts a second by half a millisecond.
- **In `NoteFeedback`, `KeyRouter` and `ConfigStore`, each host message is one atomic step.** The drain loop itself is in `MidiRx`.
- **`InterpretUsbMidiMessage`.** It is only called from the build branch disabled by `ENABLE_LUFA_2015_LARGE_PACKET_UPGRADE`.
- **`sysex.c` and the combo recogniser.** They are not in the repository, apart from `combo.h`.
- **The LED bit-bang driver, colours, and animation slot bookkeeping.** These are I/O and data only: the geometry is modelled and the colour values are not.
- **USB descriptors and the bootloader jump.** They have no protocol state.
- **The rest of `random.c`.** `random32`, `sintable`, `lerp`, `clamp`, `clampf`, `clamp_cc`, `smoothstep` and `random_color` are not called by the firmware as built. `clamp` is only called from the MF3D feedback mode, which is not selected.
