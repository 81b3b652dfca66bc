CONSTANTS
  PART_SIZE = 3
  PARTS_PER_BANK = 2
  NUM_BANKS = 2
  SLACK = 6
  Messages <- MC_Mf3dMessages
SPECIFICATION Spec
INVARIANT PulledBytes7Bit
