------------------------------ MODULE Recorders ------------------------------
(***************************************************************************)
(* What is remembered of a call, and by whom.  Pipeline.handle_attempt     *)
(* appends it to the session's trace, hands it to the graph writer and to  *)
(* the slow path, and logs it; handle_result hands it on and logs it once  *)
(* more.  The graph writer's thread, the loops of the slow path and the    *)
(* AuditLoop work behind the callers' backs, and Guard.close,              *)
(* Guard.clear_session and the stop of a runtime come from anywhere.       *)
(*                                                                         *)
(* A thread makes its calls one after the other, of any sessions; several  *)
(* threads may have calls of one session under way, and nothing locks what *)
(* lies between two steps of a call.  The evaluation is an arbitrary       *)
(* choice here (PolicyLanguage has it), and so is what becomes of the call *)
(* between attempt and result (GuardedCall).                               *)
(***************************************************************************)
EXTENDS SlowPath, GraphWriter

CONSTANTS
    Thread,         \* the threads
    MaxCalls,       \* bound on the calls of each thread
    Verdict,        \* what the policy service may decide
    TraceCap,       \* TRACE_LOG_CAP
    MaxHops,        \* max_hops of exists_path
    LocalGraph,     \* whether the graph service is this process's GraphWriter
    LocalAudit,     \* whether the audit service is this process's AuditLogWriter
    Looped,         \* whether a server runs an AuditLoop
    Clearable,      \* whether somebody calls clear_session
    MaxStops,       \* bound on the stops of an AgentGuardRuntime made of the Guard
    Label           \* the labels of resources

\* A call is named by its thread and its number.
ASSUME CallerAssumption ==
    /\ {LocalGraph, LocalAudit, Looped, Clearable} \subseteq BOOLEAN
    /\ MaxStops \in Nat /\ TraceCap \in Nat \ {0}
    /\ MaxCalls \in [Thread -> Nat \ {0}]
    /\ \A t \in Thread : \A n \in 1 .. MaxCalls[t] : <<t, n>> \in Call \cap Task
    /\ \A c \in Call : c = <<c[1], c[2]>> /\ c[1] \in Thread /\ c[2] \in Nat \ {0}

VARIABLES
    pc,             \* where a thread is in its call
    made,           \* how many calls a thread has finished
    decision,       \* the decision on a thread's call
    trace,          \* the trace of each session: calls
    stats,          \* telemetry: the calls counted, and those refused
    closing,        \* how far Guard.close has come
    stops,          \* on_stop of DynamicRuleActor and GraphActor, in turn
    gone,           \* history: calls the trace has lost, to its cap or to a clear
    before          \* history: the calls handed to the graph writer when a call
                    \* was appended to its trace

callerVars == <<pc, made, decision, trace, stats, closing, stops, gone, before>>
vars == <<auditVars, slowVars, graphVars, callerVars>>

CallOf(t) == <<t, made[t] + 1>>

\* How many calls a thread has handed to the graph writer, and the calls that a
\* writer of this process was handed.
Submitted(t) ==
    made[t] + IF pc[t] \in {"submitted", "dispatched", "logged", "resulted"} THEN 1 ELSE 0
HandedOn == {c \in Call : LocalGraph /\ c[2] <= Submitted(c[1])}

Init ==
    /\ AuditInit /\ SlowInit /\ GraphInit
    /\ pc = [t \in Thread |-> "idle"]
    /\ made = [t \in Thread |-> 0]
    /\ decision = [t \in Thread |-> "none"]
    /\ trace = [s \in Sessions |-> <<>>]
    /\ stats = [total |-> 0, refused |-> 0]
    /\ closing = "open" /\ stops = 0
    /\ gone = {} /\ before = [c \in Call |-> {}]

-----------------------------------------------------------------------------
(* A call, as Pipeline.guarded_call takes it through the recorders.        *)

\* handle_attempt, up to append_trace: a full trace loses its oldest entry.
Attempt(t, verdict) ==
    /\ pc[t] = "idle" /\ made[t] < MaxCalls[t]
    /\ pc' = [pc EXCEPT ![t] = "traced"]
    /\ decision' = [decision EXCEPT ![t] = verdict]
    /\ LET s == SessionOf[CallOf(t)]
           full == Len(trace[s]) = TraceCap
       IN /\ trace' = [trace EXCEPT ![s] = Append(IF full THEN Tail(@) ELSE @, CallOf(t))]
          /\ gone' = IF full THEN gone \cup {Head(trace[s])} ELSE gone
    /\ before' = [before EXCEPT ![CallOf(t)] = HandedOn]
    /\ UNCHANGED <<made, stats, closing, stops, auditVars, slowVars, graphVars>>

\* The submit of the graph service and the log of the audit service, either of
\* which may be one that is elsewhere.
Recorded(item) == IF LocalGraph THEN GraphSubmit(item) ELSE UNCHANGED graphVars
Audited(record) == IF LocalAudit THEN Log(record) ELSE UNCHANGED auditVars

\* self._graph_writer.submit
ToGraph(t) ==
    /\ pc[t] = "traced" /\ pc' = [pc EXCEPT ![t] = "submitted"]
    /\ Recorded(<<CallOf(t), "attempt">>)
    /\ UNCHANGED <<made, decision, trace, stats, closing, stops, gone, before, auditVars, slowVars>>

\* self._slow.submit
ToSlowPath(t) ==
    /\ pc[t] = "submitted" /\ pc' = [pc EXCEPT ![t] = "dispatched"]
    /\ SlowSubmit(CallOf(t))
    /\ UNCHANGED <<made, decision, trace, stats, closing, stops, gone, before, auditVars, graphVars>>

\* PipelineStats.record, as far as it counts.
Counted(verdict) ==
    [total |-> stats.total + 1,
     refused |-> stats.refused + IF verdict = "deny" THEN 1 ELSE 0]

\* self._audit.log, and the telemetry after it.
LogAttempt(t) ==
    /\ pc[t] = "dispatched" /\ pc' = [pc EXCEPT ![t] = "logged"]
    /\ Audited([call |-> CallOf(t), decision |-> decision[t]])
    /\ stats' = Counted(decision[t])
    /\ UNCHANGED <<made, decision, trace, closing, stops, gone, before, slowVars, graphVars>>

\* handle_result, when the tool has run or was refused.
ResultToGraph(t) ==
    /\ pc[t] = "logged" /\ pc' = [pc EXCEPT ![t] = "resulted"]
    /\ Recorded(<<CallOf(t), "result">>)
    /\ UNCHANGED <<made, decision, trace, stats, closing, stops, gone, before, auditVars, slowVars>>

LogResult(t) ==
    /\ pc[t] = "resulted" /\ pc' = [pc EXCEPT ![t] = "idle"]
    /\ Audited([call |-> CallOf(t), decision |-> "none"])
    /\ made' = [made EXCEPT ![t] = @ + 1]
    /\ UNCHANGED <<decision, trace, stats, closing, stops, gone, before, slowVars, graphVars>>

-----------------------------------------------------------------------------

\* flush joins the queue: it returns when nothing is unfinished.
Flush(t) ==
    /\ LocalGraph /\ pc[t] = "idle" /\ made[t] = MaxCalls[t]
    /\ pc' = [pc EXCEPT ![t] = "flushing"]
    /\ UNCHANGED <<made, decision, trace, stats, closing, stops, gone, before,
                   auditVars, slowVars, graphVars>>

Flushed(t) ==
    /\ pc[t] = "flushing" /\ unfinished = 0 /\ pc' = [pc EXCEPT ![t] = "flushed"]
    /\ UNCHANGED <<made, decision, trace, stats, closing, stops, gone, before,
                   auditVars, slowVars, graphVars>>

\* Guard.clear_session: it is given a session and clears the caches of all.
ClearSession ==
    /\ Clearable
    /\ trace' = [s \in Sessions |-> <<>>]
    /\ ClearRecent
    /\ gone' = gone \cup UNION {ToSet(trace[s]) : s \in Sessions}
    /\ UNCHANGED <<pc, made, decision, stats, closing, stops, before, auditVars, slowVars>>

\* Guard.close, one subsystem after another.
Close ==
    /\ \/ /\ closing = "open" /\ closing' = "detached"
          /\ IF attached THEN Detach ELSE UNCHANGED slowVars
          /\ UNCHANGED graphVars
       \/ /\ closing = "detached" /\ closing' = "sentinel"
          /\ IF LocalGraph THEN PutSentinel ELSE UNCHANGED graphVars
          /\ UNCHANGED slowVars
       \/ /\ closing = "sentinel" /\ closing' = "closed"
          /\ SlowClose /\ UNCHANGED graphVars
    /\ UNCHANGED <<pc, made, decision, trace, stats, stops, gone, before, auditVars>>

\* AgentGuardRuntime.stop, as often as it is started again: its actors close what
\* they share with the Guard, DynamicRuleActor the dispatcher and GraphActor, a
\* while later, the writer.
ActorStops ==
    /\ stops < 2 * MaxStops /\ stops' = stops + 1
    /\ \/ stops % 2 = 0 /\ SlowClose /\ UNCHANGED graphVars
       \/ /\ stops % 2 = 1 /\ UNCHANGED slowVars
          /\ IF LocalGraph THEN PutSentinel ELSE UNCHANGED graphVars
    /\ UNCHANGED <<pc, made, decision, trace, stats, closing, gone, before, auditVars>>

Caller(t) ==
    \/ \E verdict \in Verdict : Attempt(t, verdict)
    \/ ToGraph(t) \/ ToSlowPath(t) \/ LogAttempt(t)
    \/ ResultToGraph(t) \/ LogResult(t)
    \/ Flush(t) \/ Flushed(t)

Behind ==
    \/ WorkerStep /\ UNCHANGED <<auditVars, slowVars, callerVars>>
    \/ /\ \/ \E l \in DOMAIN loops : LoopRuns(l)
          \/ \E c \in Task : HookStep(c)
          \/ Elapse
       /\ UNCHANGED <<auditVars, graphVars, callerVars>>
    \/ /\ Looped
       /\ StartLoop \/ StopLoop \/ \E accepted \in BOOLEAN : Tick(accepted)
       /\ UNCHANGED <<slowVars, graphVars, callerVars>>

Next == (\E t \in Thread : Caller(t)) \/ ClearSession \/ Close \/ ActorStops \/ Behind

Spec == Init /\ [][Next]_vars

-----------------------------------------------------------------------------

\* The call is in the list of previous tools or has left it for newer ones, or
\* it is on its way there, or was lost by a full queue or a failing store.
Accounted(c) ==
    \/ c \in ToSet(recent[SessionOf[c]])
    \/ Len(recent[SessionOf[c]]) = RecentCap
    \/ c = CallOf(c[1]) /\ pc[c[1]] = "traced"
    \/ <<c, "attempt">> \in ToSet(queue) \cup lost
    \/ held = <<c, "attempt">> /\ worker \in {"writing", "pushing"}

\* The two histories of a session tell the same story, although nothing locks
\* what lies between append_trace and submit.  The previous tools are calls of
\* the trace, each once, as far as the trace has not lost them; a call that was
\* handed to the writer before another was appended to the trace is not listed
\* as the newer one, so that only calls that overlapped may stand in another
\* order than in the trace; and no call of the trace is missing from a list that
\* has room, unless it is on its way or was lost.
HistoriesAgree ==
    \A s \in Sessions :
        LET tools == recent[s] IN
        /\ ToSet(tools) \subseteq ToSet(trace[s]) \cup gone
        /\ \A i, j \in DOMAIN tools :
               i < j => tools[i] # tools[j] /\ tools[i] \notin before[tools[j]]
        /\ LocalGraph => \A c \in ToSet(trace[s]) : Accounted(c)

\* A flush that returns has waited for everything the thread submitted before:
\* each call is written to the graph, and listed unless newer ones or a clear
\* have taken it out -- or it was lost and is not waited for.
FlushedIsWritten ==
    \A t \in Thread : pc[t] = "flushed" =>
        \A n \in 1 .. made[t] : LET c == <<t, n>> IN
            \/ <<c, "attempt">> \in lost
            \/ /\ \A ref \in Refs[c] : <<c, ref.node>> \in edges
               /\ \/ c \in ToSet(recent[SessionOf[c]]) \cup gone
                  \/ Len(recent[SessionOf[c]]) = RecentCap

\* A bucket is given to the model at most once in a cooldown, however many
\* threads submit and however many event loops _ensure_loop has made.
OneSynthesisPerCooldown ==
    \A x, y \in synths :
        x # y /\ BucketOf[x[1]] = BucketOf[y[1]] => x[2] - y[2] >= Cooldown \/ y[2] - x[2] >= Cooldown

\* The updater passes a call over only if the caller has not logged the
\* decision yet, or if others have logged so much since that the hook's window
\* no longer shows it: submit precedes the log in handle_attempt.
PassedOverExplained ==
    [][ \A c \in Task : task[c].at # "missed" /\ task'[c].at = "missed" =>
            \A i \in DOMAIN logged :
                logged[i].call = c /\ logged[i].decision # "none" =>
                    Len(logged) - i >= Min({Window, BufferSize}) ]_vars

=============================================================================
