CONSTANTS
  EEPROM_LAYOUT = 1
  PushBuffers <- MC_PushBuffers
  InitialEeprom <- MC_ErasedEeprom
  PowerFailSaves = {"setup", "push", "system"}
SPECIFICATION Spec
INVARIANT NoUnwrittenSettings
