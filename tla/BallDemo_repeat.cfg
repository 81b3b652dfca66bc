\* The demo as the device runs it from power-up: random16 on g_seed16 from
\* its initial value, one sleep period of up to 200 frames.
CONSTANTS
  MaxDemoFrames = 200
  MaxSleepPeriods = 0
  REPEAT_BALL_COLLISION_LIMIT = 3
SPECIFICATION Spec
CONSTRAINT DemoBound
INVARIANT RepeatCollisionsExplode
