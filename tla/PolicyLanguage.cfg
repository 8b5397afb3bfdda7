\* Every text, and sessions of three calls against the longer ones.
CONSTANTS
    HostOf <- MCHostOf
    BadPattern <- MCBadPattern
    Texts <- MCTexts
    CallsOf <- MCCallsOf
    Allowlists <- MCAllowlists
    Results <- MCResults
    MaxCalls = 3
    TraceCap = 2
    RecentCap = 2
SPECIFICATION Spec
INVARIANTS
    ParsesBack
    StrictestRuleDecides
    TightestChain
    DeadPredicatesReported
CHECK_DEADLOCK FALSE
