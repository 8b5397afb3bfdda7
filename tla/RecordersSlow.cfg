SPECIFICATION Spec
CONSTANTS
    t1 = t1
    t2 = t2
    document = document
    internal = internal
    private = private
    NoCall = NoCall
    Thread = {t1, t2}
    MaxCalls <- MCOneCall
    Task <- MCTask
    Call <- MCTask
    SessionOf <- MCOwnSession
    BucketOf <- MCBucketOf
    Refs <- MCRefs
    Label = {internal, private}
    Verdict = {"allow", "deny"}
    MaxHops = 2
    MaxStops = 0
    RecentCap = 2
    TraceCap = 2
    QueueSize = 2
    Failing = {}
    BufferSize = 2
    Batch = 1
    LocalGraph = FALSE
    Clearable = FALSE
    LocalAudit = TRUE
    Looped = TRUE
    Hooked = TRUE
    Trigger = "risk_threshold"
    EveryN = 1
    Cooldown = 1
    Window = 2
    NewRules = {"", "dyn_1"}
    MaxLoops = 2
    MaxTime = 1
INVARIANTS
    OneSynthesisPerCooldown
PROPERTIES
    PassedOverExplained
CHECK_DEADLOCK FALSE
