\* One call, which goes to review or is degraded, a trace that may fail to be
\* written, and a runtime that is stopped and started again at any time, under
\* fair scheduling.
SPECIFICATION FairSpec
CONSTANTS
    Event = {e1}
    Attempt = {e1}
    Verdicts = {"human_check", "degrade"}
    NoVerdict = none
    TraceMayFail = TRUE
    Undumpable = {}
    MaxStarts = 2
INVARIANT
    DecidedOncePerStart
PROPERTIES
    AnsweredIsRecorded
    EveryCallEnds
CHECK_DEADLOCK FALSE
