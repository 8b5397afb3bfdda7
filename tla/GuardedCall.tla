---------------------------- MODULE GuardedCall ----------------------------
(***************************************************************************)
(* The synchronous runtime: the calls of one session, each in a thread (a  *)
(* tool wrapped by wrap_tool, Pipeline.guarded_call) or, when the tool is  *)
(* a coroutine, in a task of an event loop (async_wrapper).                *)
(*                                                                         *)
(* A call is judged by Pipeline.handle_attempt, enforced by                *)
(* Enforcer.apply, which may rewrite it and have the rewritten call judged *)
(* again, and recorded.  Calls share the session's trace; a step is one    *)
(* access of what they share, or one decision.                             *)
(*                                                                         *)
(* A form is a tool name with arguments.  A rule stands for the rules an   *)
(* evaluation matched: their action and what their obligations do.         *)
(***************************************************************************)
EXTENDS Naturals, Sequences, FiniteSets

CONSTANTS
    Calls,           \* the tool calls of the session
    Forms,           \* what a ToolCall may be
    Asked,           \* the forms an agent may ask for in each call
    ToolOf,          \* ToolCall.tool_name of a form
    Rules,           \* the outcomes of an evaluation
    ActionOf,        \* Decision.action of an outcome
    Rewrite,         \* ActionExecutor.apply_rewrites of its obligations
    Profiled,        \* outcomes with a degrade_profile
    Limited,         \* those with a rate_limit or require_target_in obligation
    Configs,         \* what the Enforcer and the session may be configured to be
    MaxRewriteDepth, \* EnforcerConfig.max_rewrite_depth
    Rank             \* how far a form is from what no profile rewrites

Actions == {"ALLOW", "DENY", "LLM_CHECK", "HUMAN_CHECK", "DEGRADE"}

ConfigSpace ==
    [mode : {"enforce", "monitor", "dry_run"},
     approval : {"block", "suspend"},
     onTimeout : {"deny", "allow", "degrade"},
     coroutines : SUBSET Calls,      \* calls of tools that are `async def`
     flaky : BOOLEAN]                \* the state cache may raise (Redis)

ASSUME CallAssumption ==
    /\ Asked \in [Calls -> SUBSET Forms]
    /\ ActionOf \in [Rules -> Actions]
    /\ Rewrite \in [Rules -> [Forms -> Forms]]
    /\ Profiled \subseteq Rules
    /\ Limited \subseteq Rules
    /\ Configs \subseteq ConfigSpace
    /\ MaxRewriteDepth \in Nat
    /\ Rank \in [Forms -> Nat]
    /\ \A r \in Rules, f \in Forms :
           Rewrite[r][f] # f => Rank[Rewrite[r][f]] < Rank[f]

NoCall == "None"                     \* the result None
NoForm == "nothing ran"
ASSUME NothingAssumption == NoCall \notin Calls /\ NoForm \notin Forms

VARIABLES
    config,          \* chosen once
    call,            \* the frames of each call, see CallState
    trace,           \* the rich trace of the session, oldest first
    recorded         \* what each call handed to GraphWriter, SlowDispatcher
                     \* and AuditLogWriter

vars == <<config, call, trace, recorded>>

-----------------------------------------------------------------------------

Places == {"idle", "evaluate", "append", "record", "enforce", "llm", "human",
           "allow", "degrade", "run", "unguarded", "backfill", "result", "done"}

Entry == [call : Calls, tool : {ToolOf[f] : f \in Forms},
          result : Calls \cup {NoCall}]
Records == {"attempt", "result"}
Judgement == [form : Forms, rule : Rules]
Answers == {"none", "allow", "deny", "human",    \* of the language model
            "approved", "denied", "timeout",     \* of the approval bridge
            "overLimit",                         \* of the obligations' checks
            "unavailable"}                       \* handle_attempt raised

CallState ==
    [at : Places,
     asked : Forms,                  \* the event of guarded_call
     form : Forms,                   \* the event being judged or enforced
     judged : Seq(Judgement),        \* what handle_attempt was asked and answered
     depth : Nat,                    \* of _degrade
     answer : Answers,               \* the last one since the last judgement
     ran : Forms \cup {NoForm},      \* what the tool was called with
     value : Calls \cup {NoCall},    \* what apply() returned
     saw : Nat,                      \* length of the trace the judgement read
     known : [Calls -> Nat],         \* history: attempts recorded when
                                     \* handle_attempt was entered
     after : SUBSET Calls]           \* history: calls that ended before this one

Fresh(f, place) ==
    [at |-> place, asked |-> f, form |-> f, judged |-> <<>>, depth |-> 0,
     answer |-> "none", ran |-> NoForm, value |-> NoCall, saw |-> 0,
     known |-> [b \in Calls |-> 0], after |-> {}]

Coroutine(c) == c \in config.coroutines
Last(s) == s[Len(s)]
Judged(c) == Last(call[c].judged)
Action(c) == ActionOf[Judged(c).rule]
Goes(c, place) == call' = [call EXCEPT ![c].at = place]

\* The call is over, and its frames with it; the caller has its value.
Ends(c) ==
    call' = [call EXCEPT ![c] = [Fresh(@.asked, "done")
                                     EXCEPT !.value = call[c].value,
                                            !.after = call[c].after]]

\* The attempts each call has recorded.
Recorded == [b \in Calls |->
                Cardinality({i \in DOMAIN recorded[b] :
                                 recorded[b][i] = "attempt"})]

Init ==
    /\ config \in Configs
    /\ \E asked \in [Calls -> Forms] :
           /\ \A c \in Calls : asked[c] \in Asked[c]
           /\ call = [c \in Calls |-> Fresh(asked[c], "idle")]
    /\ trace = <<>>
    /\ recorded = [c \in Calls |-> <<>>]

-----------------------------------------------------------------------------
(* Pipeline.handle_attempt, entered from the wrapper and by revalidate.    *)

\* The wrapper builds the event of the call and hands it to the pipeline.
Begin(c) ==
    /\ call[c].at = "idle"
    /\ call' = [call EXCEPT
                   ![c].at = "evaluate", ![c].known = Recorded,
                   ![c].after = {b \in Calls : call[b].at = "done"}]
    /\ UNCHANGED <<config, trace, recorded>>

\* enrich_event, compute_fast_features and evaluate: the trace is read, and
\* any outcome may follow from it.
Evaluate(c) ==
    /\ call[c].at = "evaluate"
    /\ \E r \in Rules :
           call' = [call EXCEPT
                       ![c].at = "append", ![c].answer = "none",
                       ![c].saw = Len(trace),
                       ![c].judged = Append(@, [form |-> call[c].form,
                                                rule |-> r])]
    /\ UNCHANGED <<config, trace, recorded>>

\* Mutant: only what is not denied is put in the trace.
AppendTrace_NotDenied(c) ==
    /\ call[c].at = "append"
    /\ Goes(c, "record")
    /\ trace' = IF Action(c) # "DENY"
                THEN Append(trace, [call |-> c, tool |-> ToolOf[call[c].form],
                                    result |-> NoCall])
                ELSE trace
    /\ UNCHANGED <<config, recorded>>

\* append_trace
AppendTrace(c) ==
    /\ call[c].at = "append"
    /\ Goes(c, "record")
    /\ trace' = Append(trace, [call |-> c, tool |-> ToolOf[call[c].form],
                               result |-> NoCall])
    /\ UNCHANGED <<config, recorded>>

\* matched_rules of the last two judgements
SameRules(c) ==
    /\ Len(call[c].judged) > 1
    /\ Judged(c).rule = call[c].judged[Len(call[c].judged) - 1].rule

\* Mutant: _degrade raises for no judgement of the rewritten call.
Rejudged_NoDeny(c) ==
    IF Action(c) = "DEGRADE" /\ ~SameRules(c) THEN "degrade"
    ELSE IF Action(c) \in {"HUMAN_CHECK", "LLM_CHECK"} THEN "human"
    ELSE "run"

\* Mutant: _degrade sends only HUMAN_CHECK to a human.
Rejudged_NoLlm(c) ==
    IF Action(c) = "DEGRADE" /\ ~SameRules(c) THEN "degrade"
    ELSE IF Action(c) = "DENY" THEN "backfill"
    ELSE IF Action(c) = "HUMAN_CHECK" THEN "human"
    ELSE "run"

\* Where a revalidated call goes in _degrade: the event and the decision are
\* the new ones from here on, except that an ALLOW, and a DEGRADE by the same
\* rules, run the rewritten call as it is.
Rejudged(c) ==
    IF Action(c) = "DEGRADE" /\ ~SameRules(c) THEN "degrade"
    ELSE IF Action(c) = "DENY" THEN "backfill"
    ELSE IF Action(c) \in {"HUMAN_CHECK", "LLM_CHECK"} THEN "human"
    ELSE "run"

\* GraphWriter.submit, SlowDispatcher.submit and AuditLogWriter.log, which no
\* call reads, and the return of handle_attempt.
Record(c) ==
    /\ call[c].at = "record"
    /\ recorded' = [recorded EXCEPT ![c] = Append(@, "attempt")]
    /\ LET next == IF Len(call[c].judged) = 1 THEN "enforce" ELSE Rejudged(c)
       IN call' = [call EXCEPT
                      ![c].at = next,
                      ![c].saw = 0, ![c].known = [b \in Calls |-> 0],
                      ![c].depth = IF next = "degrade" THEN @ + 1 ELSE @,
                      ![c].ran = IF next = "run" THEN call[c].form ELSE @]
    /\ UNCHANGED <<config, trace>>

-----------------------------------------------------------------------------
(* Enforcer.apply: a refusal raises, and guarded_call's finally clause     *)
(* follows.                                                                *)

Runs(c, f) == call' = [call EXCEPT ![c].at = "run", ![c].ran = f]
Rewritten(c) == Rewrite[Judged(c).rule][call[c].form]

\* The branches of apply().
Branch == [ALLOW |-> "allow", DENY |-> "backfill", LLM_CHECK |-> "llm",
           HUMAN_CHECK |-> "human", DEGRADE |-> "degrade"]

\* apply(): the mode first, then the action.
Enforce(c) ==
    /\ call[c].at = "enforce"
    /\ ~Coroutine(c)
    /\ \/ config.mode = "monitor" /\ Runs(c, call[c].form)
       \/ /\ config.mode = "dry_run"
          /\ call' = [call EXCEPT ![c].at = "backfill", ![c].value = c]
       \/ /\ config.mode = "enforce"
          /\ Goes(c, Branch[Action(c)])
    /\ UNCHANGED <<config, trace, recorded>>

\* Where a reviewer's verdict leads.
Verdicts == [allow |-> "allow", deny |-> "backfill", human |-> "human"]

\* _llm_check: no backend and every failure of it count as "human".
LlmReview(c) ==
    /\ call[c].at = "llm"
    /\ \E verdict \in DOMAIN Verdicts :
           call' = [call EXCEPT ![c].answer = verdict,
                                ![c].at = Verdicts[verdict]]
    /\ UNCHANGED <<config, trace, recorded>>

\* _human_check in suspend mode raises HumanApprovalPending.
Suspend(c) ==
    /\ call[c].at = "human"
    /\ config.approval = "suspend"
    /\ Goes(c, "backfill")
    /\ UNCHANGED <<config, trace, recorded>>

\* _human_check in block mode, as far as a verdict (see ApprovalBridge).
HumanVerdict(c) ==
    /\ call[c].at = "human"
    /\ config.approval = "block"
    /\ \E verdict \in {"approved", "denied"} :
           call' = [call EXCEPT
                       ![c].answer = verdict,
                       ![c].at = IF verdict = "approved" THEN "allow"
                                                         ELSE "backfill"]
    /\ UNCHANGED <<config, trace, recorded>>

\* _human_check in block mode: nobody answered in time.
HumanTimeout(c) ==
    /\ call[c].at = "human"
    /\ config.approval = "block"
    /\ \/ /\ config.onTimeout = "allow"
          /\ call' = [call EXCEPT ![c].answer = "timeout", ![c].at = "run",
                                  ![c].ran = call[c].form]
       \/ /\ config.onTimeout = "degrade" /\ Judged(c).rule \in Profiled
          /\ call' = [call EXCEPT ![c].answer = "timeout", ![c].at = "degrade",
                                  ![c].depth = 0]
       \/ /\ \/ config.onTimeout = "deny"
             \/ config.onTimeout = "degrade" /\ Judged(c).rule \notin Profiled
          /\ call' = [call EXCEPT ![c].answer = "timeout", ![c].at = "backfill"]
    /\ UNCHANGED <<config, trace, recorded>>

\* check_rate_limit and check_require_target_in may refuse.
OverLimit(c) ==
    /\ Judged(c).rule \in Limited
    /\ IF Coroutine(c) THEN Ends(c)
       ELSE call' = [call EXCEPT ![c].answer = "overLimit", ![c].at = "backfill"]

\* _allow
Allow(c) ==
    /\ call[c].at = "allow"
    /\ OverLimit(c) \/ Runs(c, Rewritten(c))
    /\ UNCHANGED <<config, trace, recorded>>

\* _degrade: the rewritten call is judged in its turn, until a rewrite
\* changes nothing or the depth limit is reached.
Degrade(c) ==
    /\ call[c].at = "degrade"
    /\ IF Rewritten(c) # call[c].form /\ call[c].depth < MaxRewriteDepth
       THEN call' = [call EXCEPT ![c].at = "evaluate", ![c].form = Rewritten(c),
                                 ![c].known = Recorded]
       ELSE Runs(c, Rewritten(c))
    /\ UNCHANGED <<config, trace, recorded>>

\* Steps 2 and 3 of async_wrapper, which has no reviewer: a HUMAN_CHECK raises,
\* an LLM_CHECK goes on like an ALLOW and a DEGRADE, and nothing is judged
\* twice.  The local Pipeline has no attribute `mode`.
EnforceCoroutine(c) ==
    /\ call[c].at = "enforce"
    /\ Coroutine(c)
    /\ IF Action(c) \in {"DENY", "HUMAN_CHECK"}
       THEN Ends(c)
       ELSE OverLimit(c) \/ Runs(c, Rewritten(c))
    /\ UNCHANGED <<config, trace, recorded>>

-----------------------------------------------------------------------------
(* The tool, and what follows it.                                          *)

\* The tool returns.
Return(c) ==
    /\ call[c].at = "run"
    /\ call' = [call EXCEPT ![c].at = "backfill", ![c].value = c]
    /\ UNCHANGED <<config, trace, recorded>>

\* Mutant: guarded_call without its finally clause.
Raise_NoFinally(c) ==
    /\ call[c].at = "run"
    /\ Ends(c)
    /\ UNCHANGED <<config, trace, recorded>>

\* Mutant: a tool that raises is enforced, and so called, again.
Raise_Retries(c) ==
    /\ call[c].at = "run"
    /\ Goes(c, IF config.mode = "enforce" THEN "enforce" ELSE "backfill")
    /\ UNCHANGED <<config, trace, recorded>>

\* The tool raises: async_wrapper has no finally clause.
Raise(c) ==
    /\ call[c].at = "run"
    /\ IF Coroutine(c) THEN Ends(c) ELSE Goes(c, "backfill")
    /\ UNCHANGED <<config, trace, recorded>>

\* Mutant: guarded_call, too, takes the tool that ran.
ResultTool_Ran(c) ==
    ToolOf[IF call[c].ran # NoForm THEN call[c].ran ELSE call[c].asked]

\* The call of which update_trace_result knows the tool: the one the agent
\* asked for, or in async_wrapper the one that ran.
ResultTool(c) == ToolOf[IF Coroutine(c) THEN call[c].ran ELSE call[c].asked]

\* Mutant: the entries are searched from the front.
Newest_First(tool) ==
    {i \in DOMAIN trace : /\ trace[i].tool = tool
                          /\ \A j \in DOMAIN trace :
                                 trace[j].tool = tool => i <= j}

\* The places of the most recent entry of a tool, if there is one.
Newest(tool) ==
    {i \in DOMAIN trace : /\ trace[i].tool = tool
                          /\ \A j \in DOMAIN trace :
                                 trace[j].tool = tool => j <= i}

\* update_trace_result, update_trace_result_last
Backfill(c) ==
    /\ call[c].at = "backfill"
    /\ Goes(c, "result")
    /\ trace' = [i \in DOMAIN trace |->
                     IF i \in Newest(ResultTool(c))
                     THEN [trace[i] EXCEPT !.result = call[c].value]
                     ELSE trace[i]]
    /\ UNCHANGED <<config, recorded>>

\* handle_result
Result(c) ==
    /\ call[c].at = "result"
    /\ Ends(c)
    /\ recorded' = [recorded EXCEPT ![c] = Append(@, "result")]
    /\ UNCHANGED <<config, trace>>

-----------------------------------------------------------------------------
(* A state cache that raises.                                              *)


\* The attempt under way is one of _degrade.
Revalidating(c) ==
    Len(call[c].judged) > (IF call[c].at = "append" THEN 1 ELSE 0)

\* In handle_attempt: guarded_call has not entered its try yet, and the call
\* fails; a revalidation fails inside it; async_wrapper, whose pipeline has no
\* attribute fail_open, runs the tool.
AttemptRaises(c) ==
    /\ config.flaky
    /\ call[c].at \in {"evaluate", "append"}
    /\ \/ Revalidating(c) /\ Goes(c, "backfill")
       \/ ~Revalidating(c) /\ ~Coroutine(c) /\ Ends(c)
       \/ /\ ~Revalidating(c) /\ Coroutine(c)
          /\ call' = [call EXCEPT ![c].at = "unguarded",
                                  ![c].answer = "unavailable",
                                  ![c].ran = call[c].asked]
    /\ UNCHANGED <<config, trace, recorded>>

\* The tool that runs without a decision returns or raises.
ReturnUnguarded(c) ==
    /\ call[c].at = "unguarded"
    /\ Ends(c)
    /\ UNCHANGED <<config, trace, recorded>>

\* In update_trace_result: handle_result is not reached.
BackfillRaises(c) ==
    /\ config.flaky
    /\ call[c].at = "backfill"
    /\ Ends(c)
    /\ UNCHANGED <<config, trace, recorded>>

-----------------------------------------------------------------------------

\* What a thread or the event loop does on its own.
Progress(c) ==
    \/ Evaluate(c) \/ AppendTrace(c) \/ Record(c)
    \/ AttemptRaises(c)
    \/ Enforce(c) \/ EnforceCoroutine(c) \/ Allow(c) \/ Degrade(c)
    \/ LlmReview(c) \/ Suspend(c) \/ HumanVerdict(c) \/ HumanTimeout(c)
    \/ Backfill(c) \/ BackfillRaises(c) \/ Result(c)

\* What only the agent and the tool do.
Outside(c) == Begin(c) \/ Return(c) \/ Raise(c) \/ ReturnUnguarded(c)

Next == \E c \in Calls : Progress(c) \/ Outside(c)

Spec == Init /\ [][Next]_vars

\* Threads and tasks are scheduled, a model's answer and an approval have
\* timeouts; nobody has to call a tool, and a tool need not return.
FairSpec == Spec /\ \A c \in Calls : WF_vars(Progress(c))

-----------------------------------------------------------------------------
(* Properties                                                              *)

\* Types.
TypeOK ==
    /\ config \in Configs
    /\ call \in [Calls -> CallState]
    /\ trace \in Seq(Entry)
    /\ recorded \in [Calls -> Seq(Records)]

Enforced(c) == config.mode = "enforce" \/ Coroutine(c)
Ran(c) == call[c].ran # NoForm

\* Once a judgement, a reviewer, an approver or the limiter has refused a call
\* (Enforcer.apply and everything it nests), no form of it runs, whichever of
\* its judgements it was.
RefusedNeverRuns ==
    \A c \in Calls :
        Enforced(c) /\ Ran(c) /\ call[c].answer # "unavailable" =>
            /\ call[c].answer \notin {"deny", "denied", "overLimit"}
            /\ \A i \in DOMAIN call[c].judged :
                   ActionOf[call[c].judged[i].rule] # "DENY"

\* What the last judgement, and whoever was asked because of it, let run: the
\* form judged, or what the obligations of the decision make of it.
Permitted(c, f) ==
    LET plain == Judged(c).form
        obliged == Rewrite[Judged(c).rule][Judged(c).form]
        checked == Action(c) \in {"LLM_CHECK", "HUMAN_CHECK"}
        answer == call[c].answer
    IN  \/ Action(c) = "ALLOW" /\ Len(call[c].judged) = 1 /\ f = obliged
        \/ Action(c) = "ALLOW" /\ Len(call[c].judged) > 1 /\ f = plain
        \/ Action(c) = "DEGRADE" /\ f = obliged
        \/ Action(c) = "DEGRADE" /\ SameRules(c) /\ f = plain
        \/ Action(c) = "LLM_CHECK" /\ answer = "allow" /\ f = obliged
        \/ Action(c) = "LLM_CHECK" /\ Coroutine(c) /\ f = obliged
        \/ checked /\ answer = "approved" /\ f = obliged
        \/ /\ checked /\ answer = "timeout" /\ f = plain
           /\ config.onTimeout = "allow"
        \/ /\ checked /\ answer = "timeout" /\ f = obliged
           /\ config.onTimeout = "degrade" /\ Judged(c).rule \in Profiled

\* A tool is called only with a form that its call's last judgement permits
\* (Enforcer.apply, _allow, _degrade, _human_check): a form that was rewritten
\* away never runs, and a check is passed only by an answer to it.
RunsAsPermitted ==
    \A c \in Calls :
        Enforced(c) /\ Ran(c) /\ call[c].answer # "unavailable" =>
            Permitted(c, call[c].ran)

\* Whoever's attempt was recorded before handle_attempt was entered is in the
\* trace that its evaluation reads (dispatcher.py:122-124).
PredecessorsSeen ==
    \A c, b \in Calls :
        call[c].at = "append" =>
            Cardinality({i \in 1 .. call[c].saw : trace[i].call = b})
                >= call[c].known[b]

Overlapped(a, b) == a \notin call[b].after /\ b \notin call[a].after

\* A call in progress, or over.
Begun(c) == call[c].at # "idle"

\* A result stands beside the call that produced it, unless the two calls
\* overlapped, or async_wrapper named the rewritten tool (update_trace_result).
ResultsExplained ==
    \A i \in DOMAIN trace :
        LET a == trace[i].call
            b == trace[i].result
        IN b \notin {NoCall, a} => Overlapped(a, b) \/ Coroutine(b)

\* The result of a call that had the session to itself is where the next call
\* looks for it: in the newest of the call's entries for the tool the agent
\* asked for (guarded_call, dispatcher.py:181-182).
ResultsArrive ==
    \A c \in Calls :
        LET own == {i \in DOMAIN trace :
                        trace[i].call = c /\ trace[i].tool = ToolOf[call[c].asked]}
            alone == \A b \in Calls \ {c} :
                         Begun(b) => ~Overlapped(b, c) /\ ~Coroutine(b)
        IN  /\ call[c].at = "done" /\ call[c].value = c
            /\ ~Coroutine(c) /\ ~config.flaky /\ alone
            => \E i \in own : /\ \A j \in own : j <= i
                              /\ trace[i].result = c

\* Every call comes to its tool or to an end, however its rewrites, its
\* revalidations and its approvals nest, and guarded_call ends with the record
\* of a result.
EveryCallEnds ==
    \A c \in Calls :
        Begun(c) ~> \/ call[c].at \in {"run", "unguarded"}
                    \/ /\ call[c].at = "done"
                       /\ \/ Coroutine(c) \/ config.flaky
                          \/ "result" = Last(recorded[c])

\* The abstract life of a call, which this specification implements.
Phase ==
    [c \in Calls |->
        IF call[c].at = "idle" THEN "new"
        ELSE IF call[c].at \in {"run", "unguarded"} THEN "running"
        ELSE IF call[c].at \in {"backfill", "result"} THEN "closing"
        ELSE IF call[c].at = "done" THEN "ended"
        ELSE "open"]

Lifecycle == INSTANCE CallLifecycle WITH
    phase <- Phase,
    records <- recorded,
    bypass <- IF config.flaky THEN config.coroutines ELSE {},
    lax <- IF config.flaky THEN Calls ELSE config.coroutines

\* A call is judged and recorded before its tool is called, its tool is called
\* at most once, and nothing but its result follows (guarded_call, async_wrapper).
CallsFollowLifecycle == Lifecycle!Spec

=============================================================================
