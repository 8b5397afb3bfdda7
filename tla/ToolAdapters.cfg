\* Up to three installs, one call at a time, a pipeline that may raise.
SPECIFICATION Spec
CONSTANTS
    Configs <- MCConfigs
    MaxInstalls = 3
INVARIANTS
    VerdictsHold
    MonitorOnlyWatches
    ArgumentsExplained
    GuardedOnce
