\* A scan is started, paused, stopped and resumed while its stages fail, its
\* device vanishes and the app dies.
CONSTANTS
    MaxClicks = 1
    MaxRuns = 3
    MaxFaults <- MCFaults
SPECIFICATION FairSpec
INVARIANTS TypeOK OneWriter PauseReachable CompleteShown MergedWhenIdle
PROPERTY CarveTold
CHECK_DEADLOCK FALSE
