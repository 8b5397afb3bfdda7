\* Two calls of a session, of which the rules may send one to review, with one
\* start and one stop.
SPECIFICATION Spec
CONSTANTS
    Event = {e1, e2}
    Attempt = {e1, e2}
    Verdicts = {"allow", "human_check"}
    NoVerdict = none
    TraceMayFail = FALSE
    Undumpable = {e2}
    MaxStarts = 1
INVARIANTS
    TraceVisible
    TraceInOrder
    RecordsAgree
    ShutdownReleasesCallers
PROPERTIES
    GivenUpInTimeIsSilent
CHECK_DEADLOCK FALSE
