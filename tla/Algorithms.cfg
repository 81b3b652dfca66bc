CONSTANTS
  Bytes = {0, 1, 23, 24, 48}
  MaxLen = 7
  Packets = {CLOCK, START, STOP, NOTE}
  CLOCK = CLOCK
  START = START
  STOP = STOP
  NOTE = NOTE
  EP_CAPACITY = 2
  USB_RX_PACKET_LIMIT = 2
  USB_RX_FAIL_LIMIT = 2
  RX_COUNT_MOD = 4
  TIMER1_FLASH_TICKS = 2
  FLASH_MOD = 4
  BootSleepTimes = {0, 1, 2}
  PushSleepTimes = {}
  HALF_MS_PER_SECOND = 2
  SECONDS_PER_MINUTE = 2
  MINUTE_MOD = 4
  HALF_MS_BOUND = 2
  REPEAT_BALL_COLLISION_LIMIT = 3
  MaxDemoFrames = 200
  MaxSleepPeriods = 1
SPECIFICATION Spec
CONSTRAINT DemoBound
INVARIANT DecodeMatchesReference
INVARIANT SysExPacketsFramed
INVARIANT AnimationShapes
PROPERTY InboxRefined
PROPERTY DrainLoopReturns
PROPERTY WaitingPacketReceived
INVARIANT DemoOnSetUpGrid
PROPERTY SleepDemoRecurs
INVARIANT NoGhostBall
INVARIANT OneCellPerFrame
