\* Spec 5: a torn 16-bit read of system_time_ms in key_pressed switches bank without the hold.
CONSTANTS
  Keys <- MC_Keys
  bank_select_key_ids <- MC_bank_select_key_ids
  MIDI_BASENOTE = 36
  LO_MOD = 4
  TIME_MOD = 8
  G_BANK_SELECT_COUNTER_LIMIT = 4
  LED_REFRESH_LIMIT = 2
  ChannelChoices = {0}
  ModeChoices = {1}
  SideChoices = {0, 1, 2}
  TornTimeReads = TRUE
SPECIFICATION Spec
PROPERTY HoldRespected
