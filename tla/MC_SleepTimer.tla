---------------------------- MODULE MC_SleepTimer ----------------------------
EXTENDS SleepTimer

\* Sleep times on the scaled clock: off, and 1 and 2 minutes of a 4-minute
\* wrap of sleep_minute_counter.
MC_SleepTimes == {0, 1, 2}
=============================================================================
