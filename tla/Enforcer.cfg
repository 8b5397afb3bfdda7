\* A ticket an enforcer waits for and one nobody waits for, a console reviewer
\* and the ReviewLoop; three requests that ask limits of two keys.
SPECIFICATION EnforcerSpec
CONSTANTS
    Ticket = {t1, t2}
    Blocking = {t1}
    Degradable = {t1}
    Reviewer = {alice}
    Watchdog = watchdog
    WatchdogAction = "deny"
    OnTimeout = "degrade"
    Request = {1, 2, 3}
    Limits <- MCLimits
    Asked <- MCAsked
    Barred = {1}
    MaxTime = 3
INVARIANTS
    ExecutedOnlyOnApproval
    VerdictReachesCaller
    RollingLimit
PROPERTIES
    WaiterReturns
    OverdueIsAnswered
CHECK_DEADLOCK FALSE
