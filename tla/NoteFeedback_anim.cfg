\* Animation notes: with the base note at 1, note 0 is key id 255, out of
\* the key range; the host sends on the three listening channels.
CONSTANTS
  NUM_BUTTONS = 1
  MIDI_BASENOTE = 1
  G_EE_MIDI_CHANNEL = 0
  Channels = {0, 15, 1}
  Notes = {0, 1}
  Velocities = {0, 50}
  STAMP_MOD = 4
  TIME_MOD = 4
  NOTE_OFF_FEEDBACK_DELAY_LIMIT = 2
  LED_REFRESH_LIMIT = 2
SPECIFICATION Spec
INVARIANT AnimationNoteTranslated
