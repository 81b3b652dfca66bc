CONSTANTS
  BootSleepTimes = {0}
  PushSleepTimes = {1}
  HALF_MS_PER_SECOND = 2
  SECONDS_PER_MINUTE = 2
  MINUTE_MOD = 4
  HALF_MS_BOUND = 2
SPECIFICATION Spec
INVARIANT DemoOnSetUpGrid
