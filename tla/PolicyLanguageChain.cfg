\* The chain that the documentation of TRACE shows, over sessions of three calls.
CONSTANTS
    HostOf <- MCHostOf
    BadPattern <- MCBadPattern
    Texts <- DocumentedTexts
    CallsOf <- MCCallsOf
    Allowlists <- MCAllowlists
    Results <- MCResults
    MaxCalls = 3
    TraceCap = 2
    RecentCap = 2
SPECIFICATION Spec
INVARIANT ChainIsFound
CHECK_DEADLOCK FALSE
