CONSTANTS
  EEPROM_LAYOUT = 1
  PushBuffers <- MC_PushBuffers
  InitialEeprom <- MC_AnyEeprom
  PowerFailSaves = {"push", "system"}
  PART_SIZE = 3
  PARTS_PER_BANK = 2
  NUM_BANKS = 2
  SLACK = 6
  Messages <- MC_UtilityMessages
  NUM_BUTTONS = 1
  MIDI_BASENOTE = 1
  G_EE_MIDI_CHANNEL = 0
  Channels = {0, 15, 1}
  Notes = {1, 2}
  Velocities = {0, 50}
  STAMP_MOD = 4
  TIME_MOD = 4
  NOTE_OFF_FEEDBACK_DELAY_LIMIT = 2
  LED_REFRESH_LIMIT = 2
SPECIFICATION Spec
INVARIANT TypeOK
INVARIANT NoUnwrittenSettings
INVARIANT PullPushRoundTrip
INVARIANT PullPushFixpoint
PROPERTY ReplyMatchesPersisted
PROPERTY PushStaysInPart
INVARIANT FeedbackTypeOK
INVARIANT NoteOnShown
PROPERTY NoteOffApplied
PROPERTY NoteStateRefined
