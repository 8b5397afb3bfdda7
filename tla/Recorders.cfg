SPECIFICATION Spec
CONSTANTS
    t1 = t1
    t2 = t2
    document = document
    internal = internal
    private = private
    NoCall = NoCall
    Thread = {t1, t2}
    MaxCalls <- MCMaxCalls
    Task <- MCTask
    Call <- MCTask
    SessionOf <- MCSessionOf
    BucketOf <- MCBucketOf
    Refs <- MCRefs
    Label = {internal, private}
    Verdict = {"deny"}
    MaxHops = 2
    MaxStops = 1
    RecentCap = 2
    TraceCap = 2
    QueueSize = 1
    Failing <- MCFailing
    BufferSize = 2
    Batch = 1
    LocalGraph = TRUE
    Clearable = TRUE
    LocalAudit = FALSE
    Looped = FALSE
    Hooked = FALSE
    Trigger = "risk_threshold"
    EveryN = 1
    Cooldown = 1
    Window = 2
    NewRules = {"dyn_1"}
    MaxLoops = 2
    MaxTime = 0
INVARIANTS
    HistoriesAgree
    FlushedIsWritten
CHECK_DEADLOCK FALSE
