--------------------------- MODULE ApprovalBridge ---------------------------
(***************************************************************************)
(* Human review of a tool call: InMemoryApprovalBridge, its reviewers (the *)
(* ApprovalConsole behind POST /approvals/{id}/approve|deny), the          *)
(* ReviewLoop that answers overdue tickets, and the Enforcer thread that   *)
(* waits for a verdict in Enforcer._human_check.                           *)
(*                                                                         *)
(* The bridge's lock protects only the ticket table: the status of a       *)
(* ticket is read and written outside it.  A step is therefore one read    *)
(* or one write of a shared field, and the calls of different threads      *)
(* interleave between them.                                                *)
(***************************************************************************)
EXTENDS FiniteSets

CONSTANTS
    Ticket,          \* the tickets that human checks may create
    Blocking,        \* those an enforcer waits for (approval_mode "block")
    Degradable,      \* those whose decision carries a degrade profile
    Reviewer,        \* threads that call approve or deny through the console
    Watchdog,        \* the ReviewLoop task
    WatchdogAction,  \* ReviewLoop.on_timeout: "deny" or "approve"
    OnTimeout        \* EnforcerConfig.on_timeout: "deny", "allow" or "degrade"

ASSUME BridgeAssumption ==
    /\ Blocking \subseteq Ticket
    /\ Degradable \subseteq Ticket
    /\ Watchdog \notin Reviewer
    /\ WatchdogAction \in {"approve", "deny"}
    /\ OnTimeout \in {"deny", "allow", "degrade"}

VARIABLES
    tickets,         \* the keys of the ticket table
    status,          \* ApprovalTicket.status
    author,          \* whose resolved_action and note the ticket holds
    resolver,        \* ApprovalTicket.resolver: the event is set
    overdue,         \* tickets older than the ReviewLoop's timeout
    call,            \* the resolve() call each resolving thread is in
    scan,            \* tickets the ReviewLoop's current tick has still to visit
    waiter,          \* where the enforcer thread of a ticket is
    timedOut,        \* tickets whose enforcer stopped waiting at its timeout
    claims,          \* history: threads that found the ticket pending
    told             \* history: resolve() calls that returned True

vars == <<tickets, status, author, resolver, overdue, call, scan, waiter,
          timedOut, claims, told>>

-----------------------------------------------------------------------------

Resolving == Reviewer \cup {Watchdog}
Verb == {"approve", "deny"}
NoAuthor == [who |-> "nobody", action |-> "none"]
Author == [who : Resolving, action : Verb] \cup {NoAuthor}
Told == [who : Resolving, ticket : Ticket, action : Verb]

\* A thread is outside resolve(), or in it: past the check of the status,
\* past the write of the status, or past the writes of action and note.
Idle == [at |-> "idle"]
Call == {Idle} \cup
        [at : {"claimed", "ruled", "noted"}, ticket : Ticket, action : Verb]

Waiting == {"absent", "waiting", "awake", "expiring", "judging", "notApproved",
            "executed", "denied", "degraded", "expiredDeny", "expiredRun"}
Returned == {"executed", "denied", "degraded", "expiredDeny", "expiredRun"}

\* "approved" if action == "approve" else "denied"
Verdict(action) == IF action = "approve" THEN "approved" ELSE "denied"

Init ==
    /\ tickets = {}
    /\ status = [t \in Ticket |-> "pending"]
    /\ author = [t \in Ticket |-> NoAuthor]
    /\ resolver = [t \in Ticket |-> FALSE]
    /\ overdue = {}
    /\ call = [r \in Resolving |-> Idle]
    /\ scan = {}
    /\ waiter = [t \in Ticket |-> "absent"]
    /\ timedOut = {}
    /\ claims = [t \in Ticket |-> {}]
    /\ told = {}

-----------------------------------------------------------------------------
(* Creation of a ticket, and the passing of its time.                      *)

\* enqueue(): by Enforcer._human_check, which goes on to wait in "block" mode
\* and raises HumanApprovalPending in "suspend" mode, or by HumanReviewActor,
\* which does not wait either.
Enqueue(t) ==
    /\ t \notin tickets
    /\ tickets' = tickets \cup {t}
    /\ waiter' = IF t \in Blocking THEN [waiter EXCEPT ![t] = "waiting"]
                                   ELSE waiter
    /\ UNCHANGED <<status, author, resolver, overdue, call, scan, timedOut,
                   claims, told>>

\* created_ms falls behind the ReviewLoop's cutoff.
GrowOld(t) ==
    /\ t \in tickets \ overdue
    /\ overdue' = overdue \cup {t}
    /\ UNCHANGED <<tickets, status, author, resolver, call, scan, waiter,
                   timedOut, claims, told>>

-----------------------------------------------------------------------------
(* InMemoryApprovalBridge.resolve, one shared access at a time.            *)

\* The ticket is found, and its status is still "pending".  (Otherwise resolve
\* returns False and changes nothing.)
Claim(r, t, action) ==
    /\ call[r] = Idle
    /\ t \in tickets
    /\ status[t] = "pending"
    /\ call' = [call EXCEPT ![r] = [at |-> "claimed", ticket |-> t, action |-> action]]
    /\ claims' = [claims EXCEPT ![t] = @ \cup {r}]

\* Mutant: the event is set before the verdict is complete.
Rule_SignalFirst(r) ==
    /\ call[r].at = "claimed"
    /\ status' = [status EXCEPT ![call[r].ticket] = Verdict(call[r].action)]
    /\ resolver' = [resolver EXCEPT ![call[r].ticket] = TRUE]
    /\ call' = [call EXCEPT ![r].at = "ruled"]
    /\ UNCHANGED <<tickets, author, overdue, scan, waiter, timedOut, claims, told>>

\* ticket.status = ...
Rule(r) ==
    /\ call[r].at = "claimed"
    /\ status' = [status EXCEPT ![call[r].ticket] = Verdict(call[r].action)]
    /\ call' = [call EXCEPT ![r].at = "ruled"]
    /\ UNCHANGED <<tickets, author, resolver, overdue, scan, waiter, timedOut,
                   claims, told>>

\* ticket.resolved_action = action; ticket.note = note
Note(r) ==
    /\ call[r].at = "ruled"
    /\ author' = [author EXCEPT
                    ![call[r].ticket] = [who |-> r, action |-> call[r].action]]
    /\ call' = [call EXCEPT ![r].at = "noted"]
    /\ UNCHANGED <<tickets, status, resolver, overdue, scan, waiter, timedOut,
                   claims, told>>

\* ticket.resolver.set(); return True
Signal(r) ==
    /\ call[r].at = "noted"
    /\ resolver' = [resolver EXCEPT ![call[r].ticket] = TRUE]
    /\ told' = told \cup {[who |-> r, ticket |-> call[r].ticket,
                           action |-> call[r].action]}
    /\ call' = [call EXCEPT ![r] = Idle]
    /\ UNCHANGED <<tickets, status, author, overdue, scan, waiter, timedOut,
                   claims>>

\* ApprovalConsole.approve / deny, called by a reviewer for some ticket.
Review(r, t, action) ==
    /\ r \in Reviewer
    /\ Claim(r, t, action)
    /\ UNCHANGED <<tickets, status, author, resolver, overdue, scan, waiter,
                   timedOut, told>>

-----------------------------------------------------------------------------
(* ReviewLoop._tick.                                                       *)

\* Mutant: the age is compared the wrong way round.
Tick_YoungOnly ==
    /\ call[Watchdog] = Idle
    /\ scan = {}
    /\ scan' = {t \in tickets \ overdue : status[t] = "pending"}
    /\ UNCHANGED <<tickets, status, author, resolver, overdue, call, waiter,
                   timedOut, claims, told>>

\* The tick takes a snapshot of the pending tickets older than the cutoff ...
Tick ==
    /\ call[Watchdog] = Idle
    /\ scan = {}
    /\ scan' = {t \in tickets \cap overdue : status[t] = "pending"}
    /\ UNCHANGED <<tickets, status, author, resolver, overdue, call, waiter,
                   timedOut, claims, told>>

\* ... and resolves them one by one; those answered meanwhile are passed over.
Visit(t) ==
    /\ t \in scan
    /\ call[Watchdog] = Idle
    /\ scan' = scan \ {t}
    /\ IF status[t] = "pending"
       THEN Claim(Watchdog, t, WatchdogAction)
       ELSE UNCHANGED <<call, claims>>
    /\ UNCHANGED <<tickets, status, author, resolver, overdue, waiter,
                   timedOut, told>>

-----------------------------------------------------------------------------
(* InMemoryApprovalBridge.wait and the rest of Enforcer._human_check.      *)

MoveWaiter(t, from, to) ==
    /\ waiter[t] = from
    /\ waiter' = [waiter EXCEPT ![t] = to]

WaiterOnly == UNCHANGED <<tickets, author, resolver, overdue, call, scan,
                          claims, told>>

\* resolver.wait() returns because the event is set ...
WakeUp(t) ==
    /\ resolver[t]
    /\ MoveWaiter(t, "waiting", "awake")
    /\ UNCHANGED <<status, timedOut>>
    /\ WaiterOnly

\* Mutant: wait() without a timeout.
TimeOut_Never(t) == FALSE

\* ... or because approval_timeout_s has passed; the code does not ask which.
TimeOut(t) ==
    /\ ~resolver[t]
    /\ MoveWaiter(t, "waiting", "awake")
    /\ timedOut' = timedOut \cup {t}
    /\ UNCHANGED status
    /\ WaiterOnly

\* if ticket.status == "pending": ...
CheckPending(t) ==
    /\ MoveWaiter(t, "awake", IF status[t] = "pending" THEN "expiring" ELSE "judging")
    /\ UNCHANGED <<status, timedOut>>
    /\ WaiterOnly

\* ... ticket.status = "expired"
Expire(t) ==
    /\ MoveWaiter(t, "expiring", "judging")
    /\ status' = [status EXCEPT ![t] = "expired"]
    /\ UNCHANGED timedOut
    /\ WaiterOnly

\* Mutant: whatever is not denied runs.
JudgeApproved_UnlessDenied(t) ==
    /\ MoveWaiter(t, "judging", IF status[t] # "denied" THEN "executed" ELSE "notApproved")
    /\ UNCHANGED <<status, timedOut>>
    /\ WaiterOnly

\* if ticket.status == "approved": return self._allow(...)
JudgeApproved(t) ==
    /\ MoveWaiter(t, "judging", IF status[t] = "approved" THEN "executed" ELSE "notApproved")
    /\ UNCHANGED <<status, timedOut>>
    /\ WaiterOnly

TimeoutOutcome(t) ==
    IF OnTimeout = "allow" THEN "expiredRun"
    ELSE IF OnTimeout = "degrade" /\ t \in Degradable THEN "degraded"
    ELSE "expiredDeny"

\* if ticket.status == "denied": raise ...; then the on_timeout branches
JudgeDenied(t) ==
    /\ MoveWaiter(t, "notApproved",
                  IF status[t] = "denied" THEN "denied" ELSE TimeoutOutcome(t))
    /\ UNCHANGED <<status, timedOut>>
    /\ WaiterOnly

-----------------------------------------------------------------------------

ResolveStep(r) == Rule(r) \/ Note(r) \/ Signal(r)
WaiterStep(t) == \/ WakeUp(t) \/ TimeOut(t) \/ CheckPending(t) \/ Expire(t)
                 \/ JudgeApproved(t) \/ JudgeDenied(t)
WatchdogStep == Tick \/ (\E t \in Ticket : Visit(t)) \/ ResolveStep(Watchdog)

Next ==
    \/ \E t \in Ticket : Enqueue(t) \/ GrowOld(t) \/ WaiterStep(t)
    \/ \E r \in Reviewer, t \in Ticket, action \in Verb : Review(r, t, action)
    \/ \E r \in Reviewer : ResolveStep(r)
    \/ WatchdogStep

Spec == Init /\ [][Next]_vars

\* A blocked enforcer thread has a timeout and keeps running; the ReviewLoop
\* task is rescheduled every poll_interval_s.  Reviewers owe nothing, not even
\* the end of a call they have begun.
FairSpec ==
    /\ Spec
    /\ \A t \in Ticket : WF_vars(WaiterStep(t))
    /\ WF_vars(WatchdogStep)

-----------------------------------------------------------------------------
(* Properties.                                                             *)

TypeOK ==
    /\ tickets \subseteq Ticket
    /\ status \in [Ticket -> {"pending", "approved", "denied", "expired"}]
    /\ author \in [Ticket -> Author]
    /\ resolver \in [Ticket -> BOOLEAN]
    /\ overdue \subseteq Ticket
    /\ call \in [Resolving -> Call]
    /\ scan \subseteq Ticket
    /\ waiter \in [Ticket -> Waiting]
    /\ timedOut \subseteq Ticket
    /\ claims \in [Ticket -> SUBSET Resolving]
    /\ told \subseteq Told

\* The approve verdict was written to t: by a call that returned, or by one
\* that has still to signal it.
ApproveRuled(t) ==
    \/ \E x \in told : x.ticket = t /\ x.action = "approve"
    \/ \E r \in Resolving : /\ call[r].at \in {"ruled", "noted"}
                            /\ call[r].ticket = t
                            /\ call[r].action = "approve"

\* A call held for review runs as approved only if somebody approved it,
\* whatever other resolvers, the watchdog and the timeout did meanwhile
\* (Enforcer._human_check reads the status, not the verdict it was woken for).
ExecutedOnlyOnApproval ==
    \A t \in Ticket : waiter[t] = "executed" => ApproveRuled(t)

Outcome(action) == IF action = "approve" THEN "executed" ELSE "denied"

\* When one thread resolved the ticket and the enforcer did not time out, the
\* enforcer acts on that thread's verdict, and the note it quotes is that
\* thread's: resolve() writes the whole verdict before it sets the event.
VerdictReachesCaller ==
    \A t \in Ticket :
        /\ waiter[t] \in Returned
        /\ t \notin timedOut
        /\ \A r, s \in claims[t] : r = s
        => \E x \in told : /\ x.ticket = t
                           /\ waiter[t] = Outcome(x.action)
                           /\ author[t] = [who |-> x.who, action |-> x.action]

\* A ticket somebody was told he resolved accepts no further resolver: the
\* console's "ticket not found or already resolved" (routes.py), for calls
\* that do not overlap.
SettledTicketRefuses ==
    [][\A t \in Ticket : (\E x \in told : x.ticket = t)
                          => claims'[t] = claims[t]]_vars

\* An enforcer thread never stays blocked in wait(), even when every reviewer
\* is gone.
WaiterReturns ==
    \A t \in Ticket : waiter[t] = "waiting" ~> waiter[t] \in Returned

\* The ReviewLoop answers every overdue ticket, those nobody waits for
\* included: "Without this loop a crashed reviewer can hang an agent
\* indefinitely" (review_loop.py).
OverdueIsAnswered ==
    \A t \in Ticket : t \in overdue ~> status[t] # "pending"

=============================================================================
