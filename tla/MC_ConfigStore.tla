---------------------------- MODULE MC_ConfigStore ----------------------------
EXTENDS ConfigStore

\* Payloads the MIDI Fighter Utility sends: full tables with channels 1 and
\* 16, different velocities, rotation <= 3, tilt <= 15 and both side-bank
\* settings; one with only a channel tag (every other setting becomes 0)
\* and one with an out-of-range tag 24.
MC_PushBuffers ==
  { <<0, 1, 1, 100, 11, 1, 12, 15, 23, 1>>,
    <<0, 16, 1, 127, 11, 2, 12, 3, 23, 0>>,
    <<0, 3>>,
    <<24, 9, 23, 1>> }

\* EEPROM written by this firmware: the current layout and valid settings.
MC_ValidEeprom ==
  { [version |-> 1, channel |-> c, velocity |-> 100, tilt_mask |-> 241, side_bank |-> 1]
    : c \in {0, 5} }

\* A chip that was never written (or erased when the firmware was
\* flashed): every cell reads 0xFF.
MC_ErasedEeprom == { [c \in Cells |-> ERASED] }
MC_AnyEeprom == MC_ValidEeprom \cup MC_ErasedEeprom
=============================================================================
