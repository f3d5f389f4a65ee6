\* Nothing fails: a pause comes too late, or only the quick pass is asked for.
CONSTANTS
    MaxClicks = 1
    MaxRuns = 2
    MaxFaults <- MCNone
SPECIFICATION FairSpec
PROPERTY ScanningEnds
CHECK_DEADLOCK FALSE
