---------------------------- MODULE ActorRuntime ----------------------------
(***************************************************************************)
(* AgentGuardRuntime: the asynchronous path of one tool-call decision.     *)
(*                                                                         *)
(*   submit -> IngressLoop -> SessionActor -> PolicyActor -> DecisionActor *)
(*          -> GraphActor, AuditActor, DegradeActor, HumanReviewActor,     *)
(*             DynamicRuleActor (behind DynamicRuleLoop)                   *)
(*                                                                         *)
(* Everything runs on one asyncio loop.  EventBus.publish, BaseActor's     *)
(* receive and the handlers await nothing that suspends, so an actor's     *)
(* whole handling of a message is one step; the actors interleave between  *)
(* messages, and stop() interleaves with them at every task it awaits.     *)
(***************************************************************************)
EXTENDS Naturals, Sequences, FiniteSets

CONSTANTS
    Event,       \* the events submitted, of one session
    Attempt,     \* those of type TOOL_CALL_ATTEMPT or TOOL_CALL_REQUESTED
    Verdicts,    \* the actions the rules may decide
    NoVerdict,   \* the caller has no decision
    TraceMayFail,\* the StateCache may refuse an append to the trace
    Undumpable,  \* events with an argument model_dump(mode="json") cannot render
    MaxStarts    \* bound on the calls of start() that start the runtime

ASSUME RuntimeAssumption ==
    /\ Attempt \subseteq Event /\ Undumpable \subseteq Event
    /\ Verdicts \subseteq {"allow", "deny", "llm_check", "human_check", "degrade"}
    /\ NoVerdict \notin Verdicts
    /\ TraceMayFail \in BOOLEAN
    /\ MaxStarts \in Nat

Sink == {"graph", "audit", "degrade", "human_review", "dynamic_rule"}
Actor == {"session", "policy", "decision"} \cup Sink

Loop == {"ingress", "review_loop", "dynamic_rule_loop", "audit_loop", "decision_loop"}
Component == Actor \cup Loop

\* stop() goes through self._loops reversed, then self._actors reversed, and
\* waits once for each that has a task: a loop that is only a bus handler stops
\* together with the next component.
StopOrder ==
    <<{"ingress"}, {"review_loop"}, {"dynamic_rule_loop", "audit_loop"},
      {"decision_loop", "audit"}, {"degrade"}, {"human_review"},
      {"dynamic_rule"}, {"graph"}, {"decision"}, {"policy"}, {"session"}>>

VARIABLES
    starts,        \* how many times start() has started the runtime
    started,       \* AgentGuardRuntime._started
    stopping,      \* position in StopOrder that stop() awaits; 0 outside stop()
    running,       \* components whose _running flag is set
    subs,          \* how often each actor's handler is subscribed to its topic
    queue,         \* IngressLoop._queue
    future,        \* the Future of each submitted event
    mailbox,       \* BaseActor._mailbox
    counted,       \* DecisionLoop._total
    traceLog,      \* the session's trace in the StateCache
    graphOpen,     \* the GraphWriter's worker has not seen its sentinel
    out,           \* what each fan-out actor has handed on (audit records,
                   \* graph writes, tickets, degrade counts, slow-path events)
    verdict,       \* the Decision each caller received
    order,         \* history: the events in the order they were submitted
    known,         \* history: attempts answered before the event was submitted
    seen,          \* history: the trace SessionActor computed features from
    late           \* history: events submitted while the ingress was down

vars == <<starts, started, stopping, running, subs, queue, future, mailbox,
          counted, traceLog, graphOpen, out, verdict, order, known, seen, late>>

lifecycle == <<starts, started, stopping, running, subs, graphOpen>>

-----------------------------------------------------------------------------

Elements(s) == {s[i] : i \in 1..Len(s)}

Init ==
    /\ starts = 0
    /\ started = FALSE
    /\ stopping = 0
    /\ running = {}
    /\ subs = [a \in Actor |-> 0]
    /\ queue = <<>>
    /\ future = [e \in Event |-> "none"]
    /\ mailbox = [a \in Actor |-> <<>>]
    /\ counted = 0
    /\ traceLog = <<>>
    /\ graphOpen = TRUE
    /\ out = [s \in Sink |-> <<>>]
    /\ verdict = [e \in Event |-> NoVerdict]
    /\ order = <<>>
    /\ known = [e \in Event |-> {}]
    /\ seen = <<>>
    /\ late = {}

\* EventBus.publish: the message goes to the mailbox of every subscription.
Copies(a, m) == [i \in 1..subs[a] |-> m]

\* Mutant: a new message overtakes those already waiting.
Deliver_Newest(from, targets, m) ==
    mailbox' = [a \in Actor |->
                    (IF a \in targets THEN Copies(a, m) ELSE <<>>)
                        \o (IF a = from THEN Tail(mailbox[a]) ELSE mailbox[a])]

\* The actor `from` has taken its message; the messages it publishes reach the
\* actors of `targets`.
Deliver(from, targets, m) ==
    mailbox' = [a \in Actor |->
                    (IF a = from THEN Tail(mailbox[a]) ELSE mailbox[a])
                        \o (IF a \in targets THEN Copies(a, m) ELSE <<>>)]

-----------------------------------------------------------------------------
(* AgentGuardRuntime.start and stop.                                       *)

\* start() never suspends: each actor's task is created and subscribed, then
\* the loops.
Start ==
    /\ ~started
    /\ starts < MaxStarts
    /\ starts' = starts + 1
    /\ started' = TRUE
    /\ running' = Component
    /\ subs' = [a \in Actor |-> subs[a] + 1]
    /\ UNCHANGED <<stopping, queue, future, mailbox, traceLog, graphOpen, out,
                   verdict, order, known, seen, late, counted>>

\* stop() clears the _running flag of the first component, cancels its task
\* and awaits it.
StopBegin ==
    /\ started
    /\ stopping = 0
    /\ stopping' = 1
    /\ running' = running \ StopOrder[1]
    /\ UNCHANGED <<starts, started, subs, queue, future, mailbox, traceLog,
                   graphOpen, out, verdict, order, known, seen, late, counted>>

\* Mutant: DecisionActor has no on_stop either.
Unsubscribed_KeepsDecision(c) ==
    [a \in Actor |-> IF a \in c \ {"policy", "decision"} THEN subs[a] - 1 ELSE subs[a]]

\* on_stop: every actor unsubscribes, except PolicyActor, which has none.
Unsubscribed(c) ==
    [a \in Actor |-> IF a \in c \ {"policy"} THEN subs[a] - 1 ELSE subs[a]]

\* Mutant: stop() only cancels the ingress task.
Released_None(c) == future

\* The rest of IngressLoop.stop: callers still waiting get a RuntimeError.
Released(c) ==
    IF "ingress" \in c
    THEN [e \in Event |-> IF future[e] = "pending" THEN "shutdown" ELSE future[e]]
    ELSE future

\* The awaited task has ended: the component finishes its stop(), and stop()
\* goes on to the next one up to the task it awaits.
StopNext ==
    /\ stopping > 0
    /\ LET c == StopOrder[stopping] IN
        /\ subs' = Unsubscribed(c)
        /\ future' = Released(c)
        /\ graphOpen' = (graphOpen /\ "graph" \notin c)
    /\ IF stopping < Len(StopOrder)
       THEN /\ stopping' = stopping + 1
            /\ running' = running \ StopOrder[stopping + 1]
            /\ UNCHANGED started
       ELSE /\ stopping' = 0
            /\ started' = FALSE
            /\ UNCHANGED running
    /\ UNCHANGED <<starts, queue, mailbox, traceLog, out, verdict, order,
                   known, seen, late, counted>>

-----------------------------------------------------------------------------
(* IngressLoop.                                                            *)

\* submit(): possible at any time, whether or not the runtime runs.
Submit(e) ==
    /\ future[e] = "none"
    /\ future' = [future EXCEPT ![e] = "pending"]
    /\ queue' = Append(queue, e)
    /\ order' = Append(order, e)
    /\ known' = [known EXCEPT ![e] = {f \in Attempt : future[f] = "result"}]
    /\ late' = IF "ingress" \in running THEN late ELSE late \cup {e}
    /\ UNCHANGED <<lifecycle, mailbox, traceLog, out, verdict, seen, counted>>

\* Mutant: the timer belongs to the running ingress.
GiveUp_WhileStarted(e) ==
    /\ started
    /\ future[e] = "pending"
    /\ future' = [future EXCEPT ![e] = "cancelled"]
    /\ UNCHANGED <<lifecycle, queue, mailbox, traceLog, out, verdict, order,
                   known, seen, late, counted>>

\* asyncio.wait_for gives up and cancels the future.  What was published for
\* the call stays in the mailboxes.
GiveUp(e) ==
    /\ future[e] = "pending"
    /\ future' = [future EXCEPT ![e] = "cancelled"]
    /\ UNCHANGED <<lifecycle, queue, mailbox, traceLog, out, verdict, order,
                   known, seen, late, counted>>

\* Mutant: the call is published without looking at its future.
Ingress_Unchecked ==
    /\ "ingress" \in running
    /\ queue # <<>>
    /\ queue' = Tail(queue)
    /\ Deliver("ingress", {"session"}, [event |-> Head(queue), verdict |-> NoVerdict])
    /\ UNCHANGED <<lifecycle, future, traceLog, out, verdict, order, known,
                   seen, late, counted>>

\* _run takes the next call: a call already given up is skipped.
Ingress ==
    /\ "ingress" \in running
    /\ queue # <<>>
    /\ queue' = Tail(queue)
    /\ IF future[Head(queue)] = "pending"
       THEN Deliver("ingress", {"session"},
                    [event |-> Head(queue), verdict |-> NoVerdict])
       ELSE UNCHANGED mailbox
    /\ UNCHANGED <<lifecycle, future, traceLog, out, verdict, order, known,
                   seen, late, counted>>

-----------------------------------------------------------------------------
(* The actors.                                                             *)

Receives(a) == a \in running /\ mailbox[a] # <<>>
Received(a) == Head(mailbox[a])

\* reply and reply_error: only the first answer counts, and only if the caller
\* still waits.
Resolve(e, state) ==
    future' = IF future[e] = "pending" THEN [future EXCEPT ![e] = state] ELSE future

\* enrich_event and compute_fast_features: what they read of the session's trace.
Enriched == Elements(traceLog)

\* SessionActor: enrich the event and compute its features from the trace ...
SessionForwards ==
    /\ Receives("session")
    /\ LET m == Received("session") IN
        /\ seen' = [e \in DOMAIN seen \cup {m.event} |->
                      IF e = m.event THEN Enriched ELSE seen[e]]
        /\ Deliver("session", {"policy"}, m)
    /\ UNCHANGED <<lifecycle, queue, future, traceLog, out, verdict, order,
                   known, late, counted>>

\* ... or answer with the exception that raised.
SessionFails ==
    /\ Receives("session")
    /\ Resolve(Received("session").event, "failed")
    /\ Deliver("session", {}, Received("session"))
    /\ UNCHANGED <<lifecycle, queue, traceLog, out, verdict, order, known,
                   seen, late, counted>>

\* DecisionLoop, subscribed to make_decision while it runs.
Counted == counted' = IF "decision_loop" \in running THEN counted + 1 ELSE counted

\* PolicyActor: the rules decide, and DecisionLoop counts ...
PolicyDecides ==
    /\ Receives("policy")
    /\ \E v \in Verdicts :
        Deliver("policy", {"decision"}, [Received("policy") EXCEPT !.verdict = v])
    /\ Counted
    /\ UNCHANGED <<lifecycle, queue, future, traceLog, out, verdict, order, known,
                   seen, late>>

\* ... or the evaluation raises: _run_loop logs it and drops the message, and
\* the caller is left to its timeout.
PolicyFails ==
    /\ Receives("policy")
    /\ Deliver("policy", {}, Received("policy"))
    /\ UNCHANGED <<lifecycle, queue, future, traceLog, out, verdict, order,
                   known, seen, late, counted>>

\* Mutant: a human check is left to the reviewer, who is the only one told.
FanOut_ReviewOnly(v, slow) ==
    IF v = "human_check" THEN {"human_review"}
    ELSE {"audit", "graph"}
            \cup (IF v = "degrade" THEN {"degrade"} ELSE {})
            \cup (IF slow THEN {"dynamic_rule"} ELSE {})

\* DynamicRuleLoop, while it is subscribed, lets a slow-path event through to
\* DynamicRuleActor or suppresses it (risk threshold, denials and human checks,
\* cooldown).
SlowPath == IF "dynamic_rule_loop" \in running THEN BOOLEAN ELSE {FALSE}

\* The topics DecisionActor publishes on.
FanOut(v, slow) ==
    {"audit", "graph"}
        \cup (IF v = "degrade" THEN {"degrade"} ELSE {})
        \cup (IF v = "human_check" THEN {"human_review"} ELSE {})
        \cup (IF slow THEN {"dynamic_rule"} ELSE {})

\* Mutant: only the calls the rules let through unchanged are traced.
Traced_Allowed(m) ==
    traceLog' = IF m.event \in Attempt /\ m.verdict = "allow"
                THEN Append(traceLog, m.event) ELSE traceLog

\* append_trace, and the handler that swallows its failure.
Traced(m) ==
    \/ /\ m.event \in Attempt
       /\ traceLog' = Append(traceLog, m.event)
    \/ /\ m.event \notin Attempt \/ TraceMayFail
       /\ UNCHANGED traceLog

\* Mutant: in monitor mode the caller is told to go on, and the actors are
\* told what the rules decided.
Decide_AnswerAllow ==
    /\ Receives("decision")
    /\ LET m == Received("decision") IN
        /\ Traced(m)
        /\ Resolve(m.event, "result")
        /\ verdict' = IF future[m.event] = "pending"
                      THEN [verdict EXCEPT ![m.event] = "allow"] ELSE verdict
        /\ \E slow \in SlowPath : Deliver("decision", FanOut(m.verdict, slow), m)
    /\ UNCHANGED <<lifecycle, queue, out, order, known, seen, late, counted>>

\* DecisionActor: append to the trace, answer the caller, publish.
Decide ==
    /\ Receives("decision")
    /\ LET m == Received("decision") IN
        /\ Traced(m)
        /\ Resolve(m.event, "result")
        /\ verdict' = IF future[m.event] = "pending"
                      THEN [verdict EXCEPT ![m.event] = m.verdict] ELSE verdict
        /\ \E slow \in SlowPath : Deliver("decision", FanOut(m.verdict, slow), m)
    /\ UNCHANGED <<lifecycle, queue, out, order, known, seen, late, counted>>

\* Whether what an actor hands on arrives.  A full GraphWriter drops it, its
\* worker swallows a failing write, and nothing is written after its sentinel;
\* AuditLogWriter.log and enqueue dump the event, and _run_loop logs what that
\* raises; the degrade counters and SlowDispatcher.submit take all.
Takes(s, e) ==
    CASE s = "graph" -> IF graphOpen THEN BOOLEAN ELSE {FALSE}
      [] s \in {"audit", "human_review"} -> {e \notin Undumpable}
      [] OTHER -> {TRUE}

\* A fan-out actor hands the message on.
HandOn(s) ==
    /\ Receives(s)
    /\ \E taken \in Takes(s, Received(s).event) :
          out' = IF taken THEN [out EXCEPT ![s] = Append(@, Received(s))] ELSE out
    /\ Deliver(s, {}, Received(s))
    /\ UNCHANGED <<lifecycle, queue, future, traceLog, verdict, order, known,
                   seen, late, counted>>

-----------------------------------------------------------------------------

Session == SessionForwards \/ SessionFails
Policy == PolicyDecides \/ PolicyFails

Next ==
    \/ Start \/ StopBegin \/ StopNext
    \/ \E e \in Event : Submit(e) \/ GiveUp(e)
    \/ Ingress \/ Session \/ Policy \/ Decide
    \/ \E s \in Sink : HandOn(s)

Spec == Init /\ [][Next]_vars

\* The event loop reschedules every task that has work, wait_for's timer
\* fires, and a stop() under way goes on.  Nobody has to call submit, start or
\* stop.
FairSpec ==
    /\ Spec
    /\ WF_vars(Ingress) /\ WF_vars(Session) /\ WF_vars(Policy) /\ WF_vars(Decide)
    /\ \A s \in Sink : WF_vars(HandOn(s))
    /\ \A e \in Event : WF_vars(GiveUp(e))
    /\ WF_vars(StopNext)

-----------------------------------------------------------------------------
(* Properties.                                                             *)

\* A caller that has its decision and then submits the session's next call has
\* that call judged against a trace that holds the first one: the trace is
\* written before the reply.  (Two calls in flight together need not see each
\* other.)
TraceVisible == \A e \in DOMAIN seen : known[e] \subseteq seen[e]

\* The trace is chronological: whatever was skipped, failed or dropped on the
\* way, the calls that reach it stand in the order they were submitted in.
TraceInOrder ==
    \A i, j \in 1..Len(traceLog) :
        i < j => \E k, l \in 1..Len(order) :
                    k < l /\ order[k] = traceLog[i] /\ order[l] = traceLog[j]

IngressStopped == starts > 0 /\ "ingress" \notin running /\ stopping # 1

\* After a stop no caller is left hanging, wherever its call had got to: only
\* a call submitted to an ingress that is down may still wait.
ShutdownReleasesCallers ==
    IngressStopped => \A e \in Event : future[e] = "pending" => e \in late

Mentions(e) ==
    \/ \E a \in Actor : \E m \in Elements(mailbox[a]) : m.event = e
    \/ \E s \in Sink : \E m \in Elements(out[s]) : m.event = e
    \/ e \in Elements(traceLog)

\* A call whose caller gave up (or was released by a stop) before the ingress
\* took it leaves nothing behind: no trace, no audit record, no ticket.
GivenUpInTimeIsSilent ==
    [][\A e \in Elements(queue) :
            future[e] # "pending" => ~Mentions(e)']_vars

\* The events of the messages of a mailbox or of a sink, and how often one of
\* them is there.
EventsOf(s) == [i \in 1..Len(s) |-> s[i].event]
Times(e, s) == Cardinality({i \in 1..Len(s) : s[i] = e})

\* However often the runtime is stopped and started in the middle of a call, the
\* call is decided once per start at most: it stands no oftener in the trace,
\* the audit log, the graph, among the tickets.  With one start nothing is
\* decided, recorded or asked of a reviewer twice.  (PolicyActor keeps its
\* subscriptions over a stop, so that the number of starts is reached.)
DecidedOncePerStart ==
    \A e \in Event :
        /\ Times(e, traceLog) <= starts
        /\ \A s \in Sink : Times(e, EventsOf(out[s])) <= starts

\* What is recorded of a call that was answered, and what is still on its way
\* to the audit log, the graph, the reviewer, the counters and the slow path,
\* is the decision its caller acts on -- until a second start, after which
\* DecisionActor may be handed two decisions of a call.
RecordsAgree ==
    starts <= 1 =>
        \A e \in Event, s \in Sink :
            future[e] = "result" =>
                \A m \in Elements(mailbox[s]) \cup Elements(out[s]) :
                    m.event = e => m.verdict = verdict[e]

Recorded(e) ==
    LET r == [event |-> e, verdict |-> verdict[e]] IN
    /\ e \notin Undumpable =>
          /\ r \in Elements(out["audit"])
          /\ verdict[e] = "human_check" => r \in Elements(out["human_review"])
    /\ verdict[e] = "degrade" => r \in Elements(out["degrade"])

\* A decision a caller acts on gets its audit record and its ticket or degrade
\* count, although the caller is answered before any of them is published --
\* unless a stop intervenes, now or before a later start, or the event cannot be
\* dumped.  Of the graph nothing is promised: its writer may lose any event.
AnsweredIsRecorded ==
    \A e \in Event :
        (future[e] = "result" /\ started /\ stopping = 0 /\ starts = 1)
            ~> (Recorded(e) \/ stopping > 0)

\* Every submit() returns or raises, also when the rules raised on the way,
\* and also when the runtime is stopped or was never started.
EveryCallEnds == \A e \in Event : (future[e] = "pending") ~> (future[e] # "pending")

=============================================================================
