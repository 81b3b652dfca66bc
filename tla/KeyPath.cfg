\* Key scan: two keys, a ring of three slots, TIMER0 preempting key_read
\* between any two slots.  Key router: atomic time reads, one channel.
CONSTANTS
  Keys <- MC_Keys
  DEBOUNCE_BUFFER_SIZE = 3
  MaxTicksPerRead = 1
  bank_select_key_ids <- MC_bank_select_key_ids
  MIDI_BASENOTE = 36
  LO_MOD = 4
  TIME_MOD = 8
  G_BANK_SELECT_COUNTER_LIMIT = 4
  LED_REFRESH_LIMIT = 2
  ChannelChoices = {0}
  ModeChoices = {1}
  SideChoices = {0, 1, 2}
  TornTimeReads = FALSE
SPECIFICATION Spec
INVARIANT ScanTypeOK
INVARIANT DebounceSound
PROPERTY DebounceConverges
INVARIANT RouterTypeOK
INVARIANT NoStuckNotes
PROPERTY HoldRespected
PROPERTY OneEventPerHold
PROPERTY HoldSwitchesBank
