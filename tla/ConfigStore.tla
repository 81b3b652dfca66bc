----------------------------- MODULE ConfigStore -----------------------------
(***************************************************************************)
(* Device settings: the configuration SysEx commands of config.c and the  *)
(* EEPROM persistence of eeprom.c they call.                               *)
(*                                                                         *)
(* sysExCmdPushConfig decodes a tag/value table, overwrites the live      *)
(* settings, writes them to EEPROM one byte at a time (eeprom_save_edits), *)
(* echoes them (send_config_data) and reloads them (eeprom_setup).  At     *)
(* boot eeprom_setup either loads the settings or, when the layout version *)
(* byte does not match, runs eeprom_factory_reset, which writes the       *)
(* version byte and then the defaults.  Each EEPROM byte write takes a few *)
(* milliseconds with the watchdog disabled; the supply can fail between    *)
(* any two of them, so each write is a step of its own and PowerLoss may   *)
(* come between any two.                                                   *)
(*                                                                         *)
(* Four settings stand for the twenty: the channel (stored 0-based, sent  *)
(* 1-based), the velocity (stored as sent), the tilt mask (packed from    *)
(* two tags) and the side-bank flag, written first, second, seventh and   *)
(* last by eeprom_save_edits.  The colour tables are not modelled.         *)
(***************************************************************************)
EXTENDS TvCodec, Bitwise

CONSTANTS
  EEPROM_LAYOUT,   \* constants.h: layout version byte
  PushBuffers,     \* tag/value payloads the host may push
  InitialEeprom,   \* EEPROM contents at the first power-up
  PowerFailSaves   \* saves ("setup", "push", "system") power may interrupt

\* the order of eeprom_save_edits
SaveOrder == <<"channel", "velocity", "tilt_mask", "side_bank">>
FieldSet == {"channel", "velocity", "tilt_mask", "side_bank"}
Cells == FieldSet \cup {"version"}
Byte == 0 .. 255

\* eeprom_factory_reset: G_EE_MIDI_CHANNEL = 2, G_EE_MIDI_VELOCITY = 127,
\* G_EE_TILT_MASK = 0xF1, G_EE_SIDE_BANK = 0
Defaults == [channel |-> 2, velocity |-> 127, tilt_mask |-> 241, side_bank |-> 0]

NoReply == <<>>

\* the value of an erased EEPROM cell
ERASED == 255

VARIABLES
  ee,        \* the EEPROM cells
  live,      \* the G_EE_* globals
  pc,        \* "off" (no power), "run" (main loop) or "writing" (in a save)
  writes,    \* the eeprom_write calls of the current save still to do
  cont,      \* what follows the save: "setup", "push" or "system"
  reply,     \* the last configuration sent to the host (its tag/value pairs)
  intended   \* history: each value the firmware assigned to a setting

vars == <<ee, live, pc, writes, cont, reply, intended>>

-----------------------------------------------------------------------------
(* Mutants.                                                                *)
ApplyPush_unwrapped(config) ==
  [channel |-> config[0] - 1, velocity |-> config[1],
   tilt_mask |-> ((config[12] * 16) | config[11]) % 256, side_bank |-> config[23]]
EncodePairs_channel_raw(s) ==
  <<0, s.channel, 1, s.velocity, 11, s.tilt_mask & 3,
    12, shiftR(s.tilt_mask, 4) & 15, 23, s.side_bank>>
SaveEdits_no_side_bank(s) ==
  [i \in 1 .. Len(SaveOrder) - 1 |-> <<SaveOrder[i], s[SaveOrder[i]]>>]
ReadSettings_shifted(e) ==
  [f \in FieldSet |-> IF f = "velocity" THEN e["channel"] ELSE e[f]]
-----------------------------------------------------------------------------

\* sysExCmdPushConfig: the settings assigned from the decoded table, each
\* truncated to its uint8_t global (midiChannel - 1, tilt << 4 | rotation).
ApplyPush(config) ==
  [channel   |-> (config[0] + 255) % 256,
   velocity  |-> config[1],
   tilt_mask |-> ((config[12] * 16) | config[11]) % 256,
   side_bank |-> config[23]]

\* send_config_data: the (tag, value) pairs of the response for these
\* settings, in its order (channel + 1 as uint8_t, the mask split in two).
EncodePairs(s) ==
  <<0, (s.channel + 1) % 256, 1, s.velocity, 11, s.tilt_mask & 3,
    12, shiftR(s.tilt_mask, 4) & 15, 23, s.side_bank>>

\* eeprom_save_edits: one eeprom_write per setting, in order.
SaveEdits(s) == [i \in 1 .. Len(SaveOrder) |-> <<SaveOrder[i], s[SaveOrder[i]]>>]

\* eeprom_factory_reset: the version byte first, then eeprom_save_edits.
FactoryResetWrites == <<<<"version", EEPROM_LAYOUT>>>> \o SaveEdits(Defaults)

\* the eeprom_read calls of eeprom_setup
ReadSettings(e) == [f \in FieldSet |-> e[f]]

Intend(s) == [f \in FieldSet |-> intended[f] \cup {s[f]}]

-----------------------------------------------------------------------------
\* Static storage starts zeroed; the firmware is not yet powered.
Init ==
  /\ ee \in InitialEeprom
  /\ live = [f \in FieldSet |-> 0]
  /\ pc = "off"
  /\ writes = <<>>
  /\ cont = "setup"
  /\ reply = NoReply
  /\ intended = [f \in FieldSet |->
                   IF ee["version"] = EEPROM_LAYOUT THEN {ee[f]} ELSE {}]

\* eeprom_setup against EEPROM contents e: on a version mismatch,
\* eeprom_factory_reset assigns the defaults and starts its writes (the
\* reads of eeprom_setup follow the save, see SaveDone_setup); otherwise
\* every setting is read from EEPROM.
Setup(e) ==
  IF e["version"] # EEPROM_LAYOUT
  THEN /\ live' = Defaults
       /\ intended' = Intend(Defaults)
       /\ writes' = FactoryResetWrites
       /\ cont' = "setup"
       /\ pc' = "writing"
  ELSE /\ live' = ReadSettings(e)
       /\ writes' = <<>>
       /\ pc' = "run"
       /\ UNCHANGED <<cont, intended>>

\* main(): power-up, wdt_disable, eeprom_setup.
Boot ==
  /\ pc = "off"
  /\ Setup(ee)
  /\ UNCHANGED <<ee, reply>>

\* The supply fails (or the board is unplugged) at any point: while the
\* firmware runs, or between two byte writes of a save in PowerFailSaves.
PowerLoss ==
  /\ pc = "run" \/ (pc = "writing" /\ cont \in PowerFailSaves)
  /\ pc' = "off"
  /\ writes' = <<>>
  /\ UNCHANGED <<ee, live, cont, reply, intended>>

\* sysExCmdPushConfig(length, buffer): decode into a zeroed table, assign
\* the settings, start eeprom_save_edits.  The host may push one of the
\* given payloads or echo back the last configuration it was sent.
\* (change_bank(0) on side-bank disable and the confirmation animation are
\* modelled in KeyRouter or not at all.)
Push ==
  /\ pc = "run"
  /\ \E buffer \in PushBuffers \cup (IF reply = NoReply THEN {} ELSE {reply}) :
       LET s == ApplyPush(tv_table_decode(ZeroTable, buffer))
       IN  /\ live' = s
           /\ intended' = Intend(s)
           /\ writes' = SaveEdits(s)
  /\ cont' = "push"
  /\ pc' = "writing"
  /\ UNCHANGED <<ee, reply>>

\* sysExCmdPullConfig with request byte 0: send_config_data.
Pull ==
  /\ pc = "run"
  /\ reply' = EncodePairs(live)
  /\ UNCHANGED <<ee, live, pc, writes, cont, intended>>

\* sysExCmdSystem case 2: wdt_disable, eeprom_factory_reset.
FactoryResetCmd ==
  /\ pc = "run"
  /\ live' = Defaults
  /\ intended' = Intend(Defaults)
  /\ writes' = FactoryResetWrites
  /\ cont' = "system"
  /\ pc' = "writing"
  /\ UNCHANGED <<ee, reply>>

\* sysExCmdSystem case 1: Jump_To_Bootloader; the firmware stops until the
\* next power-up.
BootloaderCmd ==
  /\ pc = "run"
  /\ pc' = "off"
  /\ UNCHANGED <<ee, live, writes, cont, reply, intended>>

\* One eeprom_write that is not the last of its save.
EepromWrite ==
  /\ pc = "writing"
  /\ Len(writes) > 1
  /\ ee' = [ee EXCEPT ![Head(writes)[1]] = Head(writes)[2]]
  /\ writes' = Tail(writes)
  /\ UNCHANGED <<live, pc, cont, reply, intended>>

\* The last eeprom_write of a save, followed by the rest of its caller.
LastWrite == ee' = [ee EXCEPT ![Head(writes)[1]] = Head(writes)[2]]

\* eeprom_setup after eeprom_factory_reset: read every setting back.
SaveDone_setup ==
  /\ pc = "writing" /\ Len(writes) = 1 /\ cont = "setup"
  /\ LastWrite
  /\ live' = ReadSettings(ee')
  /\ writes' = <<>>
  /\ pc' = "run"
  /\ UNCHANGED <<cont, reply, intended>>

\* sysExCmdPushConfig after eeprom_save_edits: send_config_data, then
\* eeprom_setup.
SaveDone_push ==
  /\ pc = "writing" /\ Len(writes) = 1 /\ cont = "push"
  /\ LastWrite
  /\ reply' = EncodePairs(live)
  /\ Setup(ee')

\* sysExCmdSystem case 2 after eeprom_factory_reset: send_config_data.
SaveDone_system ==
  /\ pc = "writing" /\ Len(writes) = 1 /\ cont = "system"
  /\ LastWrite
  /\ reply' = EncodePairs(live)
  /\ writes' = <<>>
  /\ pc' = "run"
  /\ UNCHANGED <<live, cont, intended>>

Next ==
  \/ Boot \/ PowerLoss
  \/ Push \/ Pull \/ FactoryResetCmd \/ BootloaderCmd
  \/ EepromWrite \/ SaveDone_setup \/ SaveDone_push \/ SaveDone_system

Spec == Init /\ [][Next]_vars

-----------------------------------------------------------------------------
TypeOK ==
  /\ ee \in [Cells -> Byte]
  /\ live \in [FieldSet -> Byte]
  /\ pc \in {"off", "run", "writing"}
  /\ writes \in Seq(Cells \X Byte)
  /\ cont \in {"setup", "push", "system"}
  /\ reply \in Seq(Byte)
  /\ intended \in [FieldSet -> SUBSET Byte]

\* Crash safety of eeprom_setup / eeprom_save_edits / eeprom_factory_reset:
\* whatever write a power loss interrupts, the settings the firmware runs
\* with after the next boot are, each of them, a value the firmware once
\* assigned to that setting, never a value no code wrote (such as the
\* 0xFF of an erased cell).
NoUnwrittenSettings ==
  pc = "run" => \A f \in FieldSet : live[f] \in intended[f]

\* The configuration sysExCmdPushConfig echoes to the host once its save
\* has completed is the one eeprom_setup then reloads from EEPROM, so the
\* host is never told of settings the device will not run with.
ReplyMatchesPersisted ==
  [][cont = "push" /\ pc = "writing" /\ pc' = "run" => reply' = EncodePairs(live')]_vars

\* Pull then push (what the host utility does to edit one setting): the
\* pairs send_config_data encodes, decoded by tv_table_decode and applied
\* by sysExCmdPushConfig, give back every setting the device is running
\* with (the 1-based channel and the split tilt mask included).
PullPushRoundTrip ==
  pc = "run" => ApplyPush(tv_table_decode(ZeroTable, EncodePairs(live))) = live
=============================================================================
