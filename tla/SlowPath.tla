------------------------------ MODULE SlowPath ------------------------------
(***************************************************************************)
(* policy/rules/dynamic_store.py: the SlowDispatcher, which runs the hooks *)
(* of an event on an event loop in a thread of its own, and the            *)
(* DynamicRuleUpdater, a hook that looks up the decision made on the event *)
(* and may ask a model for new rules.                                      *)
(*                                                                         *)
(* There may be more than one loop: is_running is false until the thread   *)
(* of a new loop has come up, and whoever submits meanwhile makes another. *)
(* Each hook runs as a coroutine that other coroutines of its loop, and    *)
(* those of other loops, can interleave with where it awaits the model.    *)
(***************************************************************************)
EXTENDS AuditTrail

CONSTANTS
    Hooked,         \* whether the Guard was given a dynamic_config
    Task,           \* the calls submitted, one coroutine each
    BucketOf,       \* agent and tool of a call: _bucket_key
    Trigger,        \* "risk_threshold", "every_n_calls", "manual" or "never"
    EveryN,         \* every_n
    Cooldown,       \* _SYNTH_COOLDOWN_S
    Window,         \* how many records the hook looks at: 16
    NewRules,       \* the ids of rules a model may write; "" for a text that
                    \* does not compile
    MaxLoops,       \* bound on the loops made
    MaxTime         \* bound on the clock

ASSUME SlowAssumption ==
    {EveryN, Cooldown, Window, MaxLoops, MaxTime} \subseteq Nat /\ EveryN > 0 /\ Hooked \in BOOLEAN

VARIABLES
    attached,       \* the hook is registered
    loops,          \* the state of each loop: "starting", "running", "stopped"
    task,           \* the coroutine of a call: [at, loop], at "none" before
    found,          \* the decision a hook found for its call
    counter,        \* _counter
    lastSynth,      \* _last_synth_at of a bucket: a time, or one long ago
    synths,         \* syntheses begun by the hook: calls with their times
    dynamic,        \* ids of the rules applied
    now             \* the clock

slowVars ==
    <<attached, loops, task, found, counter, lastSynth, synths, dynamic, now>>

LongAgo == -Cooldown

SlowInit ==
    /\ attached = Hooked /\ loops = <<>>
    /\ task = [c \in Task |-> [at |-> "none", loop |-> 0]]
    /\ found = [c \in Task |-> "none"]
    /\ counter = 0 /\ lastSynth = [c \in {BucketOf[t] : t \in Task} |-> LongAgo]
    /\ synths = {} /\ dynamic = {} /\ now = 0

Running == loops # <<>> /\ Last(loops) = "running"

\* submit with _ensure_loop: without hooks nothing happens; a loop that is not
\* running, or not yet, is replaced.
SlowSubmit(c) ==
    /\ IF attached
       THEN /\ Running \/ Len(loops) < MaxLoops
            /\ loops' = IF Running THEN loops ELSE Append(loops, "starting")
            /\ task' = [task EXCEPT ![c] = [at |-> "queued", loop |-> Len(loops')]]
       ELSE UNCHANGED <<loops, task>>
    /\ UNCHANGED <<attached, found, counter, lastSynth, synths, dynamic, now>>

\* The thread of a loop comes up.
LoopRuns(l) ==
    /\ loops[l] = "starting"
    /\ loops' = [loops EXCEPT ![l] = "running"]
    /\ UNCHANGED <<attached, task, found, counter, lastSynth, synths, dynamic, now>>

\* close stops the loop if it is running; what it had not finished stays where
\* it is.
SlowClose ==
    /\ loops' = IF Running THEN [loops EXCEPT ![Len(loops)] = "stopped"] ELSE loops
    /\ UNCHANGED <<attached, task, found, counter, lastSynth, synths, dynamic, now>>

\* detach, which hooks already running do not notice.
Detach ==
    /\ attached /\ attached' = FALSE
    /\ UNCHANGED <<loops, task, found, counter, lastSynth, synths, dynamic, now>>

OnLoop(c) == task[c].loop # 0 /\ loops[task[c].loop] = "running"

\* Mutant: any record of the event will do, also the one of its result.
LatestDecision_AnyRecord(c) ==
    LET of == {i \in ToSet(Recent(Window)) : logged[i].call = c}
    IN IF of = {} THEN "none" ELSE logged[Max(of)].decision

\* _latest_decision_for: of the newest records, the last one of the event that
\* has a decision.
LatestDecision(c) ==
    LET of == {i \in ToSet(Recent(Window)) :
                  logged[i].call = c /\ logged[i].decision # "none"}
    IN IF of = {} THEN "none" ELSE logged[Max(of)].decision

\* evaluate_async begins: the hooks registered by now are called, and the hook
\* looks for the decision.
LookUp(c) ==
    /\ task[c].at = "queued" /\ OnLoop(c)
    /\ found' = [found EXCEPT ![c] = IF attached THEN LatestDecision(c) ELSE "none"]
    /\ task' = [task EXCEPT ![c].at =
                    IF attached /\ LatestDecision(c) # "none" THEN "found"
                    ELSE IF attached THEN "missed" ELSE "done"]
    /\ UNCHANGED <<attached, loops, counter, lastSynth, synths, dynamic, now>>

\* _should_fire, of the counter as it is now.
ShouldFire(c, count) ==
    \/ Trigger = "risk_threshold" /\ found[c] = "deny"
    \/ Trigger = "every_n_calls" /\ count % EveryN = 0

\* Mutant: the time of a synthesis is not noted before it is over.
Judge_NoteLate(c) ==
    /\ task[c].at = "found" /\ OnLoop(c)
    /\ counter' = counter + 1
    /\ LET bucket == BucketOf[c]
           fires == ShouldFire(c, counter') /\ now - lastSynth[bucket] >= Cooldown
       IN /\ UNCHANGED lastSynth
          /\ synths' = IF fires THEN synths \cup {<<c, now>>} ELSE synths
          /\ task' = [task EXCEPT ![c].at = IF fires THEN "synth" ELSE "done"]
    /\ UNCHANGED <<attached, loops, found, dynamic, now>>

\* Under the updater's lock: the call counts, and a bucket that fires is noted
\* before anything is synthesized for it.
Judge(c) ==
    /\ task[c].at = "found" /\ OnLoop(c)
    /\ counter' = counter + 1
    /\ LET bucket == BucketOf[c]
           fires == ShouldFire(c, counter') /\ now - lastSynth[bucket] >= Cooldown
       IN /\ lastSynth' = IF fires THEN [lastSynth EXCEPT ![bucket] = now] ELSE lastSynth
          /\ synths' = IF fires THEN synths \cup {<<c, now>>} ELSE synths
          /\ task' = [task EXCEPT ![c].at = IF fires THEN "synth" ELSE "done"]
    /\ UNCHANGED <<attached, loops, found, dynamic, now>>

\* _run_synth: the model answers with rules, with nothing, or with a text that
\* does not compile, and apply_dynamic_rules puts rules into the user's pack.
Synthesized(c, rule) ==
    /\ task[c].at = "synth" /\ OnLoop(c)
    /\ dynamic' = IF rule = "" THEN dynamic ELSE dynamic \cup {rule}
    /\ task' = [task EXCEPT ![c].at = "done"]
    /\ UNCHANGED <<attached, loops, found, counter, lastSynth, synths, now>>

Elapse ==
    /\ now < MaxTime /\ now' = now + 1
    /\ UNCHANGED <<attached, loops, task, found, counter, lastSynth, synths, dynamic>>

HookStep(c) ==
    \/ LookUp(c)
    \/ Judge(c)
    \/ \E rule \in NewRules : Synthesized(c, rule)

=============================================================================
