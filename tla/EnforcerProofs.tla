--------------------------- MODULE EnforcerProofs ---------------------------
(***************************************************************************)
(* Proofs about what the Enforcer asks before a call runs: ApprovalBridge, *)
(* for every set of tickets and reviewers and every timeout policy; and    *)
(* RateLimiter, for every set of limits, of requests and any clock.        *)
(***************************************************************************)
EXTENDS ApprovalBridge, RateLimiter, FiniteSetTheorems, TLAPS

-----------------------------------------------------------------------------
(* Type correctness.                                                       *)

\* The ticket table, the tickets' fields and the threads' program counters
\* keep their types: resolve(), wait() and _tick() write nothing else.
THEOREM TypeCorrect == Spec => []TypeOK
<1>1. Init => TypeOK
  BY DEF Init, TypeOK, Resolving, Author, NoAuthor, Idle, Call, Waiting
<1>2. TypeOK /\ [Next]_vars => TypeOK'
  <2> SUFFICES ASSUME TypeOK, [Next]_vars PROVE TypeOK'
    OBVIOUS
  <2> USE DEF TypeOK
  <2>1. ASSUME NEW r \in Resolving, NEW t \in Ticket, NEW action \in Verb,
               Claim(r, t, action)
        PROVE  /\ call' \in [Resolving -> Call]
               /\ claims' \in [Ticket -> SUBSET Resolving]
    BY <2>1 DEF Claim, Call
  <2>2. ASSUME NEW t \in Ticket, Enqueue(t) PROVE TypeOK'
    BY <2>2 DEF Enqueue, Waiting
  <2>3. ASSUME NEW t \in Ticket, GrowOld(t) PROVE TypeOK'
    BY <2>3 DEF GrowOld
  <2>4. ASSUME NEW t \in Ticket, WaiterStep(t) PROVE TypeOK'
    <3>1. waiter' \in [Ticket -> Waiting]
      BY <2>4 DEF WaiterStep, MoveWaiter, WakeUp, TimeOut, CheckPending, Expire,
         JudgeApproved, JudgeDenied, TimeoutOutcome, Waiting
    <3>2. /\ status' \in [Ticket -> {"pending", "approved", "denied", "expired"}]
          /\ timedOut' \subseteq Ticket
          /\ UNCHANGED <<tickets, author, resolver, overdue, call, scan, claims, told>>
      BY <2>4 DEF WaiterStep, WaiterOnly, WakeUp, TimeOut, CheckPending, Expire,
         JudgeApproved, JudgeDenied
    <3> QED BY <3>1, <3>2
  <2>5. ASSUME NEW r \in Reviewer, NEW t \in Ticket, NEW action \in Verb,
               Review(r, t, action)
        PROVE  TypeOK'
    BY <2>5, <2>1 DEF Review, Resolving
  <2>6. ASSUME NEW r \in Resolving, ResolveStep(r) PROVE TypeOK'
    <3>1. /\ call[r] \in Call
          /\ call[r].at \in {"claimed", "ruled", "noted"}
          /\ call[r].ticket \in Ticket
          /\ call[r].action \in Verb
      BY <2>6 DEF ResolveStep, Rule, Note, Signal, Call, Idle
    <3>2. CASE Rule(r)
      BY <3>1, <3>2 DEF Rule, Call, Idle, Verdict
    <3>3. CASE Note(r)
      BY <3>1, <3>3 DEF Note, Call, Idle, Author
    <3>4. CASE Signal(r)
      BY <3>1, <3>4 DEF Signal, Call, Idle, Told
    <3> QED BY <2>6, <3>2, <3>3, <3>4 DEF ResolveStep
  <2>7. CASE Tick
    BY <2>7 DEF Tick
  <2>8. ASSUME NEW t \in Ticket, Visit(t) PROVE TypeOK'
    BY <2>8, <2>1, BridgeAssumption DEF Visit, Resolving, Verb
  <2>9. CASE UNCHANGED vars
    BY <2>9 DEF vars
  <2> QED
    BY <2>2, <2>3, <2>4, <2>5, <2>6, <2>7, <2>8, <2>9
    DEF Next, WatchdogStep, Resolving
<1> QED BY <1>1, <1>2, PTL DEF Spec

-----------------------------------------------------------------------------
(* The inductive invariant.  Everything rests on the order of the writes   *)
(* in resolve(): the status leaves "pending" before anything else of the   *)
(* verdict is visible, and never comes back.                               *)

\* Thread r is inside a resolve() of t that has written the status.
RuledBy(r, t) == call[r].at \in {"ruled", "noted"} /\ call[r].ticket = t

\* At most one thread has found t pending.
Single(t) == \A r, s \in claims[t] : r = s

\* An approved ticket has an approving resolver.
ApprovedInv == \A t \in Ticket :
    status[t] = "approved" \/ waiter[t] = "executed" => ApproveRuled(t)

\* A thread in resolve() is among those that found its ticket pending.
ClaimsInv == \A r \in Resolving :
    call[r].at # "idle" => r \in claims[call[r].ticket]

\* A verdict under way has been written to the status.
RuledInv == \A r \in Resolving, t \in Ticket :
    RuledBy(r, t) => status[t] # "pending"

\* A resolver that was told TRUE is a claimant, has settled the ticket and
\* has set its event.
ToldInv == \A x \in told :
    /\ x.who \in claims[x.ticket]
    /\ status[x.ticket] # "pending"
    /\ resolver[x.ticket]
    /\ call[x.who].at # "idle" => call[x.who].ticket # x.ticket

\* Only resolve() sets the event.
ResolverInv == \A t \in Ticket :
    resolver[t] => \E x \in told : x.ticket = t

\* An enforcer that went past wait() without timing out was woken by the
\* event, so that it finds a status other than "pending".
WaiterInv == \A t \in Ticket :
    waiter[t] \notin {"absent", "waiting"} /\ t \notin timedOut
        => resolver[t] /\ waiter[t] # "expiring"

\* What a single resolver has written so far is what the ticket shows.
VerdictInv == \A t \in Ticket : Single(t) /\ t \notin timedOut =>
    /\ \A r \in Resolving : RuledBy(r, t) =>
          /\ status[t] = Verdict(call[r].action)
          /\ call[r].at = "noted" => author[t] = [who |-> r, action |-> call[r].action]
    /\ \A x \in told : x.ticket = t =>
          /\ status[t] = Verdict(x.action)
          /\ author[t] = [who |-> x.who, action |-> x.action]
          /\ waiter[t] = "notApproved" => x.action = "deny"
          /\ waiter[t] \in Returned => waiter[t] = Outcome(x.action)

IInv == /\ ApprovedInv
        /\ ClaimsInv
        /\ RuledInv
        /\ ToldInv
        /\ ResolverInv
        /\ WaiterInv
        /\ VerdictInv

\* No ticket exists and no thread is in resolve().
LEMMA InitIInv == Init => IInv
BY DEF Init, IInv, ApprovedInv, ClaimsInv, RuledInv, ToldInv, ResolverInv,
   WaiterInv, VerdictInv, RuledBy, Idle

\* A thread enters resolve(): nothing of a verdict is written yet.
LEMMA ClaimPreserves ==
    ASSUME TypeOK, IInv, NEW r \in Resolving, NEW t \in Ticket, NEW action \in Verb,
           Claim(r, t, action),
           UNCHANGED <<status, author, resolver, waiter, timedOut, told>>
    PROVE  IInv'
<1> USE DEF TypeOK
<1>1. /\ call[r] = Idle /\ status[t] = "pending"
      /\ call' = [call EXCEPT ![r] = [at |-> "claimed", ticket |-> t, action |-> action]]
      /\ claims' = [claims EXCEPT ![t] = @ \cup {r}]
  BY DEF Claim
<1>2. ApprovedInv'
  BY <1>1 DEF IInv, ApprovedInv, ApproveRuled, Idle
<1>3. ClaimsInv'
  BY <1>1 DEF IInv, ClaimsInv, Call, Idle
<1>4. \A q \in Resolving, u \in Ticket :
          /\ RuledBy(q, u)' => RuledBy(q, u)
          /\ RuledBy(q, u)' => call'[q] = call[q]
  BY <1>1 DEF RuledBy, Call, Idle
<1>5. RuledInv'
  BY <1>4 DEF IInv, RuledInv
<1>6. ToldInv'
  BY <1>1 DEF IInv, ToldInv, Told, Call, Idle
<1>7. ResolverInv' /\ WaiterInv'
  BY DEF IInv, ResolverInv, WaiterInv
<1>8. \A u \in Ticket : Single(u)' => Single(u)
  BY <1>1 DEF Single
<1>9. VerdictInv'
  BY <1>4, <1>8 DEF IInv, VerdictInv
<1> QED BY <1>2, <1>3, <1>5, <1>6, <1>7, <1>9 DEF IInv

\* The status is written.
LEMMA RulePreserves ==
    ASSUME TypeOK, IInv, NEW r \in Resolving, Rule(r)
    PROVE  IInv'
<1> USE DEF TypeOK
<1>1. PICK t \in Ticket, a \in Verb :
      /\ call[r] = [at |-> "claimed", ticket |-> t, action |-> a]
      /\ call' = [call EXCEPT ![r] = [at |-> "ruled", ticket |-> t, action |-> a]]
      /\ status' = [status EXCEPT ![t] = Verdict(a)]
      /\ UNCHANGED <<author, resolver, waiter, timedOut, claims, told>>
  <2>1. call[r] \in Call /\ call[r].at = "claimed"
    BY DEF Rule
  <2>2. PICK t \in Ticket, a \in Verb : call[r] = [at |-> "claimed", ticket |-> t, action |-> a]
    BY <2>1 DEF Call, Idle
  <2>3. [call[r] EXCEPT !.at = "ruled"] = [at |-> "ruled", ticket |-> t, action |-> a]
    BY <2>2
  <2> QED BY <2>1, <2>2, <2>3 DEF Rule
<1>2. /\ \A q \in Resolving \ {r} : call'[q] = call[q]
      /\ call'[r].at = "ruled" /\ call'[r].ticket = t /\ call'[r].action = a
      /\ \A u \in Ticket \ {t} : status'[u] = status[u]
      /\ status'[t] = Verdict(a) /\ status'[t] # "pending"
      /\ r \in claims[t]
  BY <1>1 DEF IInv, ClaimsInv, Verdict
<1>3. ApprovedInv'
  <2>1. \A u \in Ticket : ApproveRuled(u) => ApproveRuled(u)'
    BY <1>1, <1>2 DEF ApproveRuled
  <2>2. status'[t] = "approved" => ApproveRuled(t)'
    BY <1>1, <1>2 DEF ApproveRuled, Verdict
  <2> QED BY <1>1, <1>2, <2>1, <2>2 DEF IInv, ApprovedInv
<1>4. ClaimsInv'
  BY <1>1, <1>2 DEF IInv, ClaimsInv
<1>5. RuledInv'
  BY <1>1, <1>2 DEF IInv, RuledInv, RuledBy
<1>6. ToldInv'
  BY <1>1, <1>2 DEF IInv, ToldInv, Told
<1>7. ResolverInv' /\ WaiterInv'
  BY <1>1 DEF IInv, ResolverInv, WaiterInv
<1>8. VerdictInv'
  <2> SUFFICES ASSUME NEW u \in Ticket, Single(u)', (u \notin timedOut)'
               PROVE  /\ \A q \in Resolving : RuledBy(q, u)' =>
                            /\ status'[u] = Verdict(call'[q].action)
                            /\ call'[q].at = "noted" =>
                                  author'[u] = [who |-> q, action |-> call'[q].action]
                      /\ \A x \in told' : x.ticket = u =>
                            /\ status'[u] = Verdict(x.action)
                            /\ author'[u] = [who |-> x.who, action |-> x.action]
                            /\ waiter'[u] = "notApproved" => x.action = "deny"
                            /\ waiter'[u] \in Returned => waiter'[u] = Outcome(x.action)
    BY DEF VerdictInv
  <2>1. Single(u) /\ u \notin timedOut
    BY <1>1 DEF Single
  <2>2. CASE u # t
    <3>1. \A q \in Resolving : RuledBy(q, u)' => RuledBy(q, u) /\ call'[q] = call[q]
      BY <1>2, <2>2 DEF RuledBy
    <3> QED BY <1>1, <1>2, <2>1, <2>2, <3>1 DEF IInv, VerdictInv
  <2>3. CASE u = t
    <3>1. \A q \in Resolving : RuledBy(q, u)' => q = r
      BY <1>1, <1>2, <2>1, <2>3 DEF RuledBy, IInv, ClaimsInv, Single
    <3>2. \A x \in told : x.ticket # u
      BY <1>1, <1>2, <2>1, <2>3 DEF IInv, ToldInv, Single
    <3> QED BY <1>1, <1>2, <2>3, <3>1, <3>2
  <2> QED BY <2>2, <2>3
<1> QED BY <1>3, <1>4, <1>5, <1>6, <1>7, <1>8 DEF IInv

\* The author and the note are written.
LEMMA NotePreserves ==
    ASSUME TypeOK, IInv, NEW r \in Resolving, Note(r)
    PROVE  IInv'
<1> USE DEF TypeOK
<1>1. PICK t \in Ticket, a \in Verb :
      /\ call[r] = [at |-> "ruled", ticket |-> t, action |-> a]
      /\ call' = [call EXCEPT ![r] = [at |-> "noted", ticket |-> t, action |-> a]]
      /\ author' = [author EXCEPT ![t] = [who |-> r, action |-> a]]
      /\ UNCHANGED <<status, resolver, waiter, timedOut, claims, told>>
  <2>1. call[r] \in Call /\ call[r].at = "ruled"
    BY DEF Note
  <2>2. PICK t \in Ticket, a \in Verb : call[r] = [at |-> "ruled", ticket |-> t, action |-> a]
    BY <2>1 DEF Call, Idle
  <2>3. [call[r] EXCEPT !.at = "noted"] = [at |-> "noted", ticket |-> t, action |-> a]
    BY <2>2
  <2> QED BY <2>1, <2>2, <2>3 DEF Note
<1>2. /\ \A q \in Resolving \ {r} : call'[q] = call[q]
      /\ call'[r].at = "noted" /\ call'[r].ticket = t /\ call'[r].action = a
      /\ \A u \in Ticket \ {t} : author'[u] = author[u]
      /\ author'[t] = [who |-> r, action |-> a]
      /\ r \in claims[t]
  BY <1>1 DEF IInv, ClaimsInv
<1>3. \A q \in Resolving, u \in Ticket :
          /\ RuledBy(q, u)' => RuledBy(q, u)
          /\ call'[q].action = call[q].action
  <2>1. \A q \in Resolving \ {r}, u \in Ticket : RuledBy(q, u)' => RuledBy(q, u)
    BY <1>2 DEF RuledBy
  <2>2. \A u \in Ticket : RuledBy(r, u)' => RuledBy(r, u)
    BY <1>1, <1>2 DEF RuledBy
  <2>3. \A q \in Resolving \ {r} : call'[q].action = call[q].action
    BY <1>2
  <2>4. call'[r].action = call[r].action
    BY <1>1, <1>2
  <2> QED BY <2>1, <2>2, <2>3, <2>4
<1>4. ApprovedInv'
  <2>1. \A u \in Ticket : ApproveRuled(u) => ApproveRuled(u)'
    BY <1>1, <1>2 DEF ApproveRuled
  <2> QED BY <1>1, <2>1 DEF IInv, ApprovedInv
<1>5. ClaimsInv'
  BY <1>1, <1>2 DEF IInv, ClaimsInv
<1>6. RuledInv'
  BY <1>1, <1>3 DEF IInv, RuledInv
<1>7. ToldInv'
  BY <1>1, <1>2 DEF IInv, ToldInv, Told
<1>8. ResolverInv' /\ WaiterInv'
  BY <1>1 DEF IInv, ResolverInv, WaiterInv
<1>9. VerdictInv'
  <2> SUFFICES ASSUME NEW u \in Ticket, Single(u)', (u \notin timedOut)'
               PROVE  /\ \A q \in Resolving : RuledBy(q, u)' =>
                            /\ status'[u] = Verdict(call'[q].action)
                            /\ call'[q].at = "noted" =>
                                  author'[u] = [who |-> q, action |-> call'[q].action]
                      /\ \A x \in told' : x.ticket = u =>
                            /\ status'[u] = Verdict(x.action)
                            /\ author'[u] = [who |-> x.who, action |-> x.action]
                            /\ waiter'[u] = "notApproved" => x.action = "deny"
                            /\ waiter'[u] \in Returned => waiter'[u] = Outcome(x.action)
    BY DEF VerdictInv
  <2>1. Single(u) /\ u \notin timedOut
    BY <1>1 DEF Single
  <2>2. CASE u # t
    <3>1. \A q \in Resolving : RuledBy(q, u)' => RuledBy(q, u) /\ call'[q] = call[q]
      BY <1>2, <2>2 DEF RuledBy
    <3> QED BY <1>1, <1>2, <2>1, <2>2, <3>1 DEF IInv, VerdictInv
  <2>3. CASE u = t
    <3>1. \A q \in Resolving : RuledBy(q, u)' => q = r
      BY <1>1, <1>2, <2>1, <2>3 DEF RuledBy, IInv, ClaimsInv, Single
    <3>2. \A x \in told : x.ticket # u
      BY <1>1, <1>2, <2>1, <2>3 DEF IInv, ToldInv, Single
    <3>3. status[t] = Verdict(a)
      BY <1>1, <2>1, <2>3 DEF IInv, VerdictInv, RuledBy
    <3> QED BY <1>1, <1>2, <2>3, <3>1, <3>2, <3>3
  <2> QED BY <2>2, <2>3
<1> QED BY <1>4, <1>5, <1>6, <1>7, <1>8, <1>9 DEF IInv

\* The event is set and resolve() returns True.
LEMMA SignalPreserves ==
    ASSUME TypeOK, IInv, NEW r \in Resolving, Signal(r)
    PROVE  IInv'
<1> USE DEF TypeOK
<1>1. PICK t \in Ticket, a \in Verb :
      /\ call[r] = [at |-> "noted", ticket |-> t, action |-> a]
      /\ call' = [call EXCEPT ![r] = Idle]
      /\ resolver' = [resolver EXCEPT ![t] = TRUE]
      /\ told' = told \cup {[who |-> r, ticket |-> t, action |-> a]}
      /\ UNCHANGED <<status, author, waiter, timedOut, claims>>
  <2>1. call[r] \in Call /\ call[r].at = "noted"
    BY DEF Signal
  <2>2. PICK t \in Ticket, a \in Verb : call[r] = [at |-> "noted", ticket |-> t, action |-> a]
    BY <2>1 DEF Call, Idle
  <2>3. call[r].ticket = t /\ call[r].action = a
    BY <2>2
  <2> QED BY <2>2, <2>3, Zenon DEF Signal
<1>2. /\ \E x \in told' : x.ticket = t
      /\ a = "approve" => \E x \in told' : x.ticket = t /\ x.action = "approve"
      /\ told \subseteq told'
  <2> DEFINE y == [who |-> r, ticket |-> t, action |-> a]
  <2>1. y \in told' /\ y.ticket = t /\ y.action = a
    BY <1>1
  <2> QED BY <1>1, <2>1
<1>3. /\ \A q \in Resolving \ {r} : call'[q] = call[q]
      /\ call'[r].at = "idle"
      /\ \A u \in Ticket \ {t} : resolver'[u] = resolver[u]
      /\ resolver'[t]
      /\ RuledBy(r, t)
      /\ r \in claims[t]
      /\ status[t] # "pending"
  BY <1>1 DEF IInv, ClaimsInv, RuledInv, RuledBy, Idle
<1>4. \A q \in Resolving, u \in Ticket :
          RuledBy(q, u)' => RuledBy(q, u) /\ call'[q] = call[q]
  BY <1>3 DEF RuledBy
<1>5. ApprovedInv'
  <2>1. \A u \in Ticket : ApproveRuled(u) => ApproveRuled(u)'
    BY <1>1, <1>2, <1>3 DEF ApproveRuled
  <2> QED BY <1>1, <2>1 DEF IInv, ApprovedInv
<1>6. ClaimsInv'
  BY <1>1, <1>3 DEF IInv, ClaimsInv
<1>7. RuledInv'
  BY <1>1, <1>4 DEF IInv, RuledInv
<1>8. ToldInv'
  BY <1>1, <1>3 DEF IInv, ToldInv, Told
<1>9. ResolverInv'
  BY <1>2, <1>3 DEF IInv, ResolverInv
<1>10. WaiterInv'
  BY <1>1, <1>3 DEF IInv, WaiterInv
<1>11. VerdictInv'
  <2> SUFFICES ASSUME NEW u \in Ticket, Single(u)', (u \notin timedOut)'
               PROVE  /\ \A q \in Resolving : RuledBy(q, u)' =>
                            /\ status'[u] = Verdict(call'[q].action)
                            /\ call'[q].at = "noted" =>
                                  author'[u] = [who |-> q, action |-> call'[q].action]
                      /\ \A x \in told' : x.ticket = u =>
                            /\ status'[u] = Verdict(x.action)
                            /\ author'[u] = [who |-> x.who, action |-> x.action]
                            /\ waiter'[u] = "notApproved" => x.action = "deny"
                            /\ waiter'[u] \in Returned => waiter'[u] = Outcome(x.action)
    BY DEF VerdictInv
  <2>1. Single(u) /\ u \notin timedOut
    BY <1>1 DEF Single
  <2>2. \A q \in Resolving : RuledBy(q, u)' =>
            /\ status'[u] = Verdict(call'[q].action)
            /\ call'[q].at = "noted" =>
                  author'[u] = [who |-> q, action |-> call'[q].action]
    BY <1>1, <1>4, <2>1 DEF IInv, VerdictInv
  <2>3. \A x \in told : x.ticket = u =>
            /\ status'[u] = Verdict(x.action)
            /\ author'[u] = [who |-> x.who, action |-> x.action]
            /\ waiter'[u] = "notApproved" => x.action = "deny"
            /\ waiter'[u] \in Returned => waiter'[u] = Outcome(x.action)
    BY <1>1, <2>1 DEF IInv, VerdictInv
  <2>4. CASE u = t
    <3>1. status[t] = Verdict(a) /\ author[t] = [who |-> r, action |-> a]
      BY <1>1, <1>3, <2>1, <2>4 DEF IInv, VerdictInv
    <3>2. \A x \in told : x.ticket # t
      BY <1>1, <1>3, <2>1, <2>4 DEF IInv, ToldInv, Single
    <3>3. waiter[t] \in {"absent", "waiting"}
      BY <2>1, <2>4, <3>2 DEF IInv, WaiterInv, ResolverInv
    <3> QED BY <1>1, <2>2, <2>3, <2>4, <3>1, <3>3 DEF Returned
  <2>5. CASE u # t
    BY <1>1, <2>2, <2>3, <2>5
  <2> QED BY <2>4, <2>5
<1> QED BY <1>5, <1>6, <1>7, <1>8, <1>9, <1>10, <1>11 DEF IInv

\* One step of the waiting enforcer.
LEMMA WaiterPreserves ==
    ASSUME TypeOK, IInv, NEW t \in Ticket, WaiterStep(t)
    PROVE  IInv'
<1> USE DEF TypeOK
<1>1. /\ UNCHANGED <<author, resolver, call, claims, told>>
      /\ \A u \in Ticket \ {t} : waiter'[u] = waiter[u] /\ status'[u] = status[u]
      /\ timedOut \subseteq timedOut'
      /\ \A u \in Ticket \ {t} : u \in timedOut' => u \in timedOut
      /\ \A u \in Ticket : status'[u] # "pending" \/ status'[u] = status[u]
      /\ \A u \in Ticket : status'[u] = "approved" => status[u] = "approved"
  BY DEF WaiterStep, WaiterOnly, MoveWaiter, WakeUp, TimeOut, CheckPending, Expire,
     JudgeApproved, JudgeDenied
<1>2. \A u \in Ticket : /\ ApproveRuled(u)' <=> ApproveRuled(u)
                        /\ Single(u)' <=> Single(u)
                        /\ \A q \in Resolving : RuledBy(q, u)' <=> RuledBy(q, u)
  BY <1>1 DEF ApproveRuled, Single, RuledBy
<1>3. ApprovedInv'
  <2>1. waiter'[t] = "executed" => waiter[t] = "executed" \/ status[t] = "approved"
    BY DEF WaiterStep, MoveWaiter, WakeUp, TimeOut, CheckPending, Expire,
       JudgeApproved, JudgeDenied, TimeoutOutcome
  <2> QED BY <1>1, <1>2, <2>1 DEF IInv, ApprovedInv
<1>4. ClaimsInv'
  BY <1>1 DEF IInv, ClaimsInv
<1>5. RuledInv'
  BY <1>1, <1>2 DEF IInv, RuledInv
<1>6. ToldInv'
  BY <1>1 DEF IInv, ToldInv, Told
<1>7. ResolverInv'
  BY <1>1 DEF IInv, ResolverInv
<1>8. WaiterInv'
  <2>1. waiter'[t] \notin {"absent", "waiting"} /\ t \notin timedOut'
            => resolver[t] /\ waiter'[t] # "expiring"
    <3>1. CASE WakeUp(t)
      BY <3>1 DEF WakeUp, MoveWaiter
    <3>2. CASE TimeOut(t)
      BY <3>2 DEF TimeOut, MoveWaiter
    <3>3. CASE CheckPending(t)
      <4>1. waiter[t] = "awake" /\ timedOut' = timedOut
        BY <3>3 DEF CheckPending, MoveWaiter
      <4>2. t \notin timedOut => resolver[t] /\ status[t] # "pending"
        BY <4>1 DEF IInv, WaiterInv, ResolverInv, ToldInv
      <4> QED BY <3>3, <4>1, <4>2 DEF CheckPending, MoveWaiter
    <3>4. CASE Expire(t)
      BY <3>4 DEF Expire, MoveWaiter, IInv, WaiterInv
    <3>5. CASE JudgeApproved(t)
      BY <3>5 DEF JudgeApproved, MoveWaiter, IInv, WaiterInv
    <3>6. CASE JudgeDenied(t)
      BY <3>6 DEF JudgeDenied, MoveWaiter, TimeoutOutcome, IInv, WaiterInv
    <3> QED BY <3>1, <3>2, <3>3, <3>4, <3>5, <3>6 DEF WaiterStep
  <2> QED BY <1>1, <2>1 DEF IInv, WaiterInv
<1>9. VerdictInv'
  <2> SUFFICES ASSUME NEW u \in Ticket, Single(u), u \notin timedOut'
               PROVE  /\ \A q \in Resolving : RuledBy(q, u) =>
                            /\ status'[u] = Verdict(call[q].action)
                            /\ call[q].at = "noted" =>
                                  author[u] = [who |-> q, action |-> call[q].action]
                      /\ \A x \in told : x.ticket = u =>
                            /\ status'[u] = Verdict(x.action)
                            /\ author[u] = [who |-> x.who, action |-> x.action]
                            /\ waiter'[u] = "notApproved" => x.action = "deny"
                            /\ waiter'[u] \in Returned => waiter'[u] = Outcome(x.action)
    BY <1>1, <1>2 DEF VerdictInv
  <2>1. u \notin timedOut
    BY <1>1
  <2>2. CASE u # t
    BY <1>1, <2>1, <2>2 DEF IInv, VerdictInv
  <2>3. CASE u = t
    <3>1. status'[t] = status[t]
      BY <2>1, <2>3 DEF IInv, WaiterInv, WaiterStep, MoveWaiter, WakeUp, TimeOut,
         CheckPending, Expire, JudgeApproved, JudgeDenied
    <3>2. ASSUME NEW x \in told, x.ticket = t
          PROVE  /\ waiter'[t] = "notApproved" => x.action = "deny"
                 /\ waiter'[t] \in Returned => waiter'[t] = Outcome(x.action)
      <4>1. /\ status[t] = Verdict(x.action)
            /\ waiter[t] = "notApproved" => x.action = "deny"
            /\ x.action \in Verb
        BY <2>1, <2>3, <3>2 DEF IInv, VerdictInv, Told
      <4>2. CASE JudgeApproved(t)
        BY <4>1, <4>2 DEF JudgeApproved, MoveWaiter, Verdict, Outcome, Returned, Verb
      <4>3. CASE JudgeDenied(t)
        <5>1. waiter'[t] = "denied" /\ x.action = "deny"
          BY <4>1, <4>3 DEF JudgeDenied, MoveWaiter, Verdict
        <5> QED BY <5>1 DEF Outcome
      <4>4. CASE WakeUp(t) \/ TimeOut(t) \/ CheckPending(t) \/ Expire(t)
        BY <4>4 DEF WakeUp, TimeOut, CheckPending, Expire, MoveWaiter, Returned
      <4> QED BY <4>2, <4>3, <4>4 DEF WaiterStep
    <3> QED BY <1>1, <2>1, <2>3, <3>1, <3>2 DEF IInv, VerdictInv
  <2> QED BY <2>2, <2>3
<1> QED BY <1>3, <1>4, <1>5, <1>6, <1>7, <1>8, <1>9 DEF IInv

\* Steps that touch neither a ticket nor a call to resolve().
LEMMA UnchangedPreserves ==
    ASSUME TypeOK, IInv,
           UNCHANGED <<status, author, resolver, call, timedOut, claims, told>>,
           \A t \in Ticket : waiter'[t] = waiter[t] \/ waiter'[t] = "waiting"
    PROVE  IInv'
<1>1. \A u \in Ticket : /\ ApproveRuled(u)' <=> ApproveRuled(u)
                        /\ Single(u)' <=> Single(u)
                        /\ \A q \in Resolving : RuledBy(q, u)' <=> RuledBy(q, u)
  BY DEF ApproveRuled, Single, RuledBy
<1>2. ApprovedInv' /\ ClaimsInv' /\ RuledInv'
  BY <1>1 DEF IInv, ApprovedInv, ClaimsInv, RuledInv
<1>3. ToldInv' /\ ResolverInv' /\ WaiterInv'
  BY DEF IInv, ToldInv, ResolverInv, WaiterInv
<1>4. VerdictInv'
  BY <1>1 DEF IInv, VerdictInv, Returned
<1> QED BY <1>2, <1>3, <1>4 DEF IInv

\* Every action of every thread is one of the steps above.
LEMMA StepIInv == TypeOK /\ IInv /\ [Next]_vars => IInv'
<1> SUFFICES ASSUME TypeOK, IInv, [Next]_vars PROVE IInv'
  OBVIOUS
<1>1. ASSUME NEW t \in Ticket, Enqueue(t) PROVE IInv'
  BY <1>1, UnchangedPreserves DEF Enqueue, TypeOK
<1>2. ASSUME NEW t \in Ticket, GrowOld(t) PROVE IInv'
  BY <1>2, UnchangedPreserves DEF GrowOld
<1>3. ASSUME NEW t \in Ticket, WaiterStep(t) PROVE IInv'
  BY <1>3, WaiterPreserves
<1>4. ASSUME NEW r \in Reviewer, NEW t \in Ticket, NEW action \in Verb,
             Review(r, t, action)
      PROVE  IInv'
  BY <1>4, ClaimPreserves DEF Review, Resolving
<1>5. ASSUME NEW r \in Resolving, ResolveStep(r) PROVE IInv'
  BY <1>5, RulePreserves, NotePreserves, SignalPreserves DEF ResolveStep
<1>6. CASE Tick
  BY <1>6, UnchangedPreserves DEF Tick
<1>7. ASSUME NEW t \in Ticket, Visit(t) PROVE IInv'
  <2>1. CASE status[t] = "pending"
    <3>1. WatchdogAction \in Verb /\ Watchdog \in Resolving
      BY BridgeAssumption DEF Verb, Resolving
    <3> QED BY <1>7, <2>1, <3>1, ClaimPreserves DEF Visit
  <2>2. CASE status[t] # "pending"
    BY <1>7, <2>2, UnchangedPreserves DEF Visit
  <2> QED BY <2>1, <2>2
<1>8. CASE UNCHANGED vars
  BY <1>8, UnchangedPreserves DEF vars
<1> QED
  BY <1>1, <1>2, <1>3, <1>4, <1>5, <1>6, <1>7, <1>8
  DEF Next, WatchdogStep, Resolving

\* The invariant holds throughout, for any tickets, reviewers and policies.
LEMMA Invariance == Spec => []IInv
<1>1. TypeOK /\ IInv /\ [Next]_vars => IInv'
  BY StepIInv
<1> QED BY InitIInv, <1>1, TypeCorrect, PTL DEF Spec

-----------------------------------------------------------------------------
(* The theorems.                                                           *)

\* A call held for review never runs as approved unless some resolver wrote an
\* approval, with any number of resolvers racing each other and the timeout.
THEOREM ApprovalNeeded == Spec => []ExecutedOnlyOnApproval
<1>1. IInv => ExecutedOnlyOnApproval
  BY DEF IInv, ApprovedInv, ExecutedOnlyOnApproval
<1> QED BY <1>1, Invariance, PTL

\* A verdict that nobody contests and that beats the timeout is the one the
\* enforcer acts on.
THEOREM VerdictDelivered == Spec => []VerdictReachesCaller
<1>1. IInv => VerdictReachesCaller
  BY DEF IInv, WaiterInv, ResolverInv, VerdictInv, Single, Returned,
     VerdictReachesCaller
<1> QED BY <1>1, Invariance, PTL

\* Once somebody was told that he resolved a ticket, resolve() refuses.
THEOREM SettledRefuses == Spec => SettledTicketRefuses
<1>1. IInv /\ TypeOK /\ [Next]_vars =>
        [\A t \in Ticket : (\E x \in told : x.ticket = t) => claims'[t] = claims[t]]_vars
  <2> SUFFICES ASSUME IInv, TypeOK, [Next]_vars,
                      NEW t \in Ticket, NEW x \in told, x.ticket = t
               PROVE  claims'[t] = claims[t]
    OBVIOUS
  <2>1. status[t] # "pending"
    BY DEF IInv, ToldInv
  <2>2. ASSUME NEW r \in Resolving, NEW u \in Ticket, NEW action \in Verb,
               Claim(r, u, action)
        PROVE  claims'[t] = claims[t]
    BY <2>1, <2>2 DEF Claim, TypeOK
  <2>3. ASSUME NEW u \in Ticket, Visit(u) PROVE claims'[t] = claims[t]
    BY <2>1, <2>3 DEF Visit, Claim, TypeOK
  <2>4. ASSUME NEW r \in Resolving, ResolveStep(r) PROVE claims'[t] = claims[t]
    BY <2>4 DEF ResolveStep, Rule, Note, Signal
  <2>5. ASSUME NEW u \in Ticket, Enqueue(u) \/ GrowOld(u) \/ WaiterStep(u)
        PROVE  claims'[t] = claims[t]
    BY <2>5 DEF Enqueue, GrowOld, WaiterStep, WaiterOnly, WakeUp, TimeOut,
       CheckPending, Expire, JudgeApproved, JudgeDenied
  <2>6. ASSUME NEW r \in Reviewer, NEW u \in Ticket, NEW action \in Verb,
               Review(r, u, action)
        PROVE  claims'[t] = claims[t]
    BY <2>2, <2>6 DEF Review, Resolving
  <2>7. CASE Tick
    BY <2>7 DEF Tick
  <2>8. CASE UNCHANGED vars
    BY <2>8 DEF vars
  <2> QED BY <2>3, <2>4, <2>5, <2>6, <2>7, <2>8 DEF Next, WatchdogStep, Resolving
<1> QED BY <1>1, Invariance, TypeCorrect, PTL DEF Spec, SettledTicketRefuses

-----------------------------------------------------------------------------
(* The rate limiter.                                                       *)

\* A subset of a finite set is finite and not larger (the library's fact in
\* the form the steps below use).
LEMMA SmallerSet ==
    ASSUME NEW T, IsFiniteSet(T), NEW S \in SUBSET T
    PROVE  /\ IsFiniteSet(S)
           /\ Cardinality(S) \in Nat /\ Cardinality(T) \in Nat
           /\ Cardinality(S) <= Cardinality(T)
BY FS_Subset, FS_CardinalityType

\* An element more makes a set larger by one at most.
LEMMA OneMore ==
    ASSUME NEW S, IsFiniteSet(S), NEW x, NEW n \in Nat, Cardinality(S) < n
    PROVE  Cardinality(S \cup {x}) <= n
<1>1. Cardinality(S) \in Nat
  BY FS_CardinalityType
<1>2. Cardinality(S \cup {x}) = IF x \in S THEN Cardinality(S) ELSE Cardinality(S) + 1
  BY FS_AddElement
<1> QED BY <1>1, <1>2

\* Where the requests and the slots stand: a slot was given at a limit the
\* request has left, its stamp was read before it was given; the list of a
\* key holds slots given for that key.
SlotsPlaced ==
    /\ IsFiniteSet(granted)
    /\ \A s \in granted :
          /\ s.ix \in DOMAIN Asked[s.who] /\ s.ix < ask[s.who].ix
          /\ s.stamp <= s.taken /\ s.taken <= clock
    /\ \A r \in Request : ask[r].stamp <= clock /\ (ask[r].at = "held" => AtLimit(r))
    /\ \A k \in Key : \A s \in counters[k] : LimitOf(s).key = k

\* What the pruning takes away is older than the window of some limit of the
\* key, counted back from now.
PrunedIsOld ==
    \A s \in granted :
        s \notin counters[LimitOf(s).key] =>
            \E l \in Limits : l.key = LimitOf(s).key /\ s.stamp + l.window < clock

\* Every obligation a request asks is one of the limits.
LEMMA AskedLimits ==
    ASSUME NEW r \in Request, NEW i \in DOMAIN Asked[r]
    PROVE  /\ Asked[r][i] \in Limits
           /\ Asked[r][i].key \in Key
           /\ Asked[r][i].max \in Nat /\ Asked[r][i].window \in Nat
<1>1. Asked[r] \in Seq(Limits)
  BY LimiterAssumption
<1>2. Asked[r][i] \in Limits
  BY <1>1
<1> QED BY <1>2, LimiterAssumption DEF Key

\* The limiter's variables keep their types.
THEOREM LimiterTypeCorrect == LimiterSpec => []LimiterTypeOK
<1>1. LimiterInit => LimiterTypeOK
  BY LimiterAssumption DEF LimiterInit, LimiterTypeOK, Asking, Time
<1>2. LimiterTypeOK /\ [LimiterNext]_limiterVars => LimiterTypeOK'
  <2> SUFFICES ASSUME LimiterTypeOK, [LimiterNext]_limiterVars PROVE LimiterTypeOK'
    OBVIOUS
  <2> USE DEF LimiterTypeOK
  <2>1. ASSUME NEW r \in Request, ReadClock(r) PROVE LimiterTypeOK'
    BY <2>1 DEF ReadClock, Asking
  <2>2. ASSUME NEW r \in Request, Grant(r) PROVE LimiterTypeOK'
    <3>1. NewSlot(r) \in Slot /\ Kept(r) \subseteq counters[Current(r).key]
      BY DEF NewSlot, Slot, Asking, Kept
    <3>2. ask' \in [Request -> Asking]
      <4>1. ask[r].ix + 1 \in Nat
        BY DEF Asking
      <4> QED BY <2>2, <4>1 DEF Grant, Asking
    <3>3. counters' \in [Key -> SUBSET granted']
      <4> SUFFICES ASSUME NEW k \in Key PROVE counters'[k] \subseteq granted'
        BY <2>2 DEF Grant
      <4>1. counters[k] \subseteq granted
        OBVIOUS
      <4>2. counters'[k] = IF k = Current(r).key THEN Kept(r) \cup {NewSlot(r)} ELSE counters[k]
        BY <2>2 DEF Grant
      <4>3. granted' = granted \cup {NewSlot(r)}
        BY <2>2 DEF Grant
      <4> QED BY <3>1, <4>1, <4>2, <4>3
    <3> QED BY <2>2, <3>1, <3>2, <3>3 DEF Grant
  <2>3. ASSUME NEW r \in Request, Refuse(r) PROVE LimiterTypeOK'
    <3>1. Kept(r) \subseteq counters[Current(r).key]
      BY DEF Kept
    <3>2. counters' \in [Key -> SUBSET granted]
      <4> SUFFICES ASSUME NEW k \in Key PROVE counters'[k] \subseteq granted
        BY <2>3 DEF Refuse
      <4>1. counters[k] \subseteq granted
        OBVIOUS
      <4>2. counters'[k] = IF k = Current(r).key THEN Kept(r) ELSE counters[k]
        BY <2>3 DEF Refuse
      <4> QED BY <3>1, <4>1, <4>2
    <3> QED BY <2>3, <3>2 DEF Refuse, Asking
  <2>4. ASSUME NEW r \in Request, CheckTarget(r) PROVE LimiterTypeOK'
    BY <2>4 DEF CheckTarget, Asking
  <2>5. CASE TimePasses
    BY <2>5, LimiterAssumption DEF TimePasses, Time
  <2>6. CASE UNCHANGED limiterVars
    BY <2>6 DEF limiterVars
  <2> QED BY <2>1, <2>2, <2>3, <2>4, <2>5, <2>6 DEF LimiterNext
<1> QED BY <1>1, <1>2, PTL DEF LimiterSpec

\* One step keeps the slots in their places.
LEMMA SlotsPlacedStep ==
    ASSUME LimiterTypeOK, SlotsPlaced, [LimiterNext]_limiterVars
    PROVE  SlotsPlaced'
<1> USE DEF LimiterTypeOK
<1>1. ASSUME NEW r \in Request, ReadClock(r) PROVE SlotsPlaced'
  <2>1. /\ ask' = [ask EXCEPT ![r].at = "held", ![r].stamp = clock]
        /\ UNCHANGED <<clock, counters, granted>> /\ AtLimit(r)
    BY <1>1 DEF ReadClock
  <2>2. \A q \in Request : ask'[q].ix = ask[q].ix
    BY <2>1 DEF Asking
  <2>3. \A s \in granted : s.who \in Request
    BY DEF Slot
  <2>4. \A q \in Request : ask'[q].stamp <= clock /\ (ask'[q].at = "held" => AtLimit(q)')
    BY <2>1, <2>2 DEF SlotsPlaced, AtLimit, Asking, Time
  <2> QED BY <2>1, <2>2, <2>3, <2>4 DEF SlotsPlaced, LimitOf
<1>2. ASSUME NEW r \in Request, Grant(r) PROVE SlotsPlaced'
  <2>1. /\ ask' = [ask EXCEPT ![r].at = "between", ![r].ix = @ + 1]
        /\ granted' = granted \cup {NewSlot(r)} /\ clock' = clock
        /\ counters' = [counters EXCEPT ![Current(r).key] = Kept(r) \cup {NewSlot(r)}]
        /\ AtLimit(r)
    BY <1>2 DEF Grant, SlotsPlaced
  <2>2. ask[r].ix \in Nat /\ ask[r].stamp \in Nat /\ ask[r].stamp <= clock
    BY DEF Asking, Time, SlotsPlaced
  <2>3. \A s \in granted : s.who \in Request /\ s.ix \in Nat
    BY DEF Slot
  <2>4. \A q \in Request : ask[q].ix \in Nat /\ ask'[q].ix = IF q = r THEN ask[q].ix + 1 ELSE ask[q].ix
    BY <2>1 DEF Asking
  <2>5. /\ NewSlot(r).who = r /\ NewSlot(r).ix = ask[r].ix
        /\ NewSlot(r).stamp = ask[r].stamp /\ NewSlot(r).taken = clock
    BY DEF NewSlot
  <2>6. IsFiniteSet(granted')
    BY <2>1, FS_AddElement DEF SlotsPlaced
  <2>7. ASSUME NEW s \in granted'
        PROVE  /\ s.ix \in DOMAIN Asked[s.who] /\ s.ix < ask'[s.who].ix
               /\ s.stamp <= s.taken /\ s.taken <= clock'
    <3>1. CASE s \in granted
      <4>1. s.ix < ask[s.who].ix
        BY <3>1 DEF SlotsPlaced
      <4>2. s.ix < ask'[s.who].ix
        BY <3>1, <4>1, <2>3, <2>4
      <4> QED BY <3>1, <4>2, <2>1 DEF SlotsPlaced
    <3>2. CASE s = NewSlot(r)
      <4>1. s.ix \in DOMAIN Asked[s.who]
        BY <3>2, <2>1, <2>5 DEF AtLimit
      <4>2. s.ix < ask'[s.who].ix
        BY <3>2, <2>2, <2>4, <2>5
      <4>3. s.stamp <= s.taken /\ s.taken <= clock'
        BY <3>2, <2>1, <2>2, <2>5, LimiterAssumption DEF Time
      <4> QED BY <4>1, <4>2, <4>3
    <3> QED BY <2>1, <3>1, <3>2
  <2>8. \A q \in Request : ask'[q].stamp <= clock' /\ (ask'[q].at = "held" => AtLimit(q)')
    BY <2>1, <2>4 DEF SlotsPlaced, AtLimit, Asking
  <2>9. ASSUME NEW k \in Key, NEW s \in counters'[k] PROVE LimitOf(s).key = k
    <3>1. counters'[k] = IF k = Current(r).key THEN Kept(r) \cup {NewSlot(r)} ELSE counters[k]
      BY <2>1
    <3>2. LimitOf(NewSlot(r)) = Current(r)
      BY <2>5 DEF LimitOf, Current
    <3>3. Kept(r) \subseteq counters[Current(r).key]
      BY DEF Kept
    <3> QED BY <3>1, <3>2, <3>3 DEF SlotsPlaced
  <2>10. \A k \in Key : \A s \in counters'[k] : LimitOf(s)'.key = k
    BY <2>9 DEF LimitOf
  <2> QED BY <2>6, <2>7, <2>8, <2>10 DEF SlotsPlaced
<1>3. ASSUME NEW r \in Request, Refuse(r) PROVE SlotsPlaced'
  <2>1. /\ ask' = [ask EXCEPT ![r].at = "refused"]
        /\ UNCHANGED <<clock, granted>>
        /\ counters' = [counters EXCEPT ![Current(r).key] = Kept(r)]
    BY <1>3 DEF Refuse
  <2>2. \A q \in Request : ask'[q].ix = ask[q].ix /\ ask'[q].stamp = ask[q].stamp
    BY <2>1 DEF Asking
  <2>3. \A s \in granted : s.who \in Request
    BY DEF Slot
  <2>4. \A q \in Request : ask'[q].stamp <= clock /\ (ask'[q].at = "held" => AtLimit(q)')
    BY <2>1, <2>2 DEF SlotsPlaced, AtLimit, Asking
  <2>5. ASSUME NEW k \in Key PROVE counters'[k] \subseteq counters[k]
    BY <2>1 DEF Kept
  <2> QED BY <2>1, <2>2, <2>3, <2>4, <2>5 DEF SlotsPlaced, LimitOf
<1>4. ASSUME NEW r \in Request, CheckTarget(r) PROVE SlotsPlaced'
  <2>1. /\ ask' = [ask EXCEPT ![r].at = IF r \in Barred THEN "refused" ELSE "admitted"]
        /\ UNCHANGED <<clock, counters, granted>>
    BY <1>4 DEF CheckTarget
  <2>2. \A q \in Request : ask'[q].ix = ask[q].ix /\ ask'[q].stamp = ask[q].stamp
    BY <2>1 DEF Asking
  <2>3. \A s \in granted : s.who \in Request
    BY DEF Slot
  <2>4. \A q \in Request : ask'[q].stamp <= clock /\ (ask'[q].at = "held" => AtLimit(q)')
    BY <2>1, <2>2 DEF SlotsPlaced, AtLimit, Asking
  <2> QED BY <2>1, <2>2, <2>3, <2>4 DEF SlotsPlaced, LimitOf
<1>5. CASE TimePasses
  <2>1. /\ clock \in Nat /\ clock' = clock + 1 /\ UNCHANGED <<ask, counters, granted>>
    BY <1>5, LimiterAssumption DEF TimePasses, Time
  <2>2. \A s \in granted : s.taken \in Nat
    BY LimiterAssumption DEF Slot, Time
  <2>3. \A r \in Request : ask[r].stamp \in Nat
    BY LimiterAssumption DEF Asking, Time
  <2>4. \A s \in granted : s.taken <= clock'
    BY <2>1, <2>2 DEF SlotsPlaced
  <2>5. \A r \in Request : ask[r].stamp <= clock'
    BY <2>1, <2>3 DEF SlotsPlaced
  <2> QED BY <2>1, <2>4, <2>5 DEF SlotsPlaced, LimitOf, AtLimit
<1>6. CASE UNCHANGED limiterVars
  BY <1>6 DEF limiterVars, SlotsPlaced, LimitOf, AtLimit
<1> QED BY <1>1, <1>2, <1>3, <1>4, <1>5, <1>6 DEF LimiterNext

\* A request that prunes its list at its own limit drops what is older than
\* that limit's window.
LEMMA DroppedIsOld ==
    ASSUME LimiterTypeOK, SlotsPlaced, NEW r \in Request, ask[r].at = "held",
           NEW s \in counters[Current(r).key], s \notin Kept(r)
    PROVE  /\ Current(r) \in Limits
           /\ s.stamp + Current(r).window < clock
<1>1. Current(r) \in Limits /\ Current(r).key \in Key /\ Current(r).window \in Nat
  BY AskedLimits DEF SlotsPlaced, AtLimit, Current
<1>2. ~(s.stamp + Current(r).window >= ask[r].stamp)
  BY DEF Kept
<1>3. s \in Slot
  BY <1>1 DEF LimiterTypeOK
<1>4. s.stamp \in Nat /\ ask[r].stamp \in Nat /\ ask[r].stamp <= clock /\ clock \in Nat
  BY <1>3, LimiterAssumption DEF Slot, Time, LimiterTypeOK, Asking, SlotsPlaced
<1> QED BY <1>1, <1>2, <1>4

\* One step keeps what was pruned old.
LEMMA PrunedIsOldStep ==
    ASSUME LimiterTypeOK, SlotsPlaced, PrunedIsOld, [LimiterNext]_limiterVars
    PROVE  PrunedIsOld'
<1> SUFFICES ASSUME NEW s \in granted', s \notin counters'[LimitOf(s).key]
             PROVE  \E l \in Limits : l.key = LimitOf(s).key /\ s.stamp + l.window < clock'
  BY DEF PrunedIsOld, LimitOf
<1> USE DEF LimiterTypeOK
<1>1. CASE s \in granted /\ s \notin counters[LimitOf(s).key]
  <2>1. PICK l \in Limits : l.key = LimitOf(s).key /\ s.stamp + l.window < clock
    BY <1>1 DEF PrunedIsOld
  <2>2. clock \in Nat /\ (clock' = clock \/ clock' = clock + 1)
    <3>1. clock \in Nat
      BY LimiterAssumption DEF Time
    <3>2. clock' = clock \/ clock' = clock + 1
      BY DEF LimiterNext, ReadClock, Grant, Refuse, CheckTarget, TimePasses, limiterVars
    <3> QED BY <3>1, <3>2
  <2>3. s.stamp \in Nat /\ l.window \in Nat
    BY <1>1, LimiterAssumption DEF Slot, Time
  <2>4. s.stamp + l.window < clock'
    BY <2>1, <2>2, <2>3
  <2> QED BY <2>1, <2>4
<1>2. CASE s \in granted /\ s \in counters[LimitOf(s).key]
  <2>1. PICK r \in Request : /\ ask[r].at = "held" /\ clock' = clock
                             /\ \/ counters' = [counters EXCEPT ![Current(r).key] = Kept(r) \cup {NewSlot(r)}]
                                \/ counters' = [counters EXCEPT ![Current(r).key] = Kept(r)]
    BY <1>2 DEF LimiterNext, ReadClock, Grant, Refuse, CheckTarget, TimePasses, limiterVars
  <2>2. LimitOf(s).key \in Key
    <3>1. s.who \in Request /\ s.ix \in DOMAIN Asked[s.who]
      BY <1>2 DEF Slot, SlotsPlaced
    <3> QED BY <3>1, AskedLimits DEF LimitOf
  <2>3. s \notin Kept(r) /\ LimitOf(s).key = Current(r).key
    BY <2>1, <2>2, <1>2
  <2>4. s.stamp + Current(r).window < clock /\ Current(r) \in Limits
    BY <2>1, <2>3, <1>2, DroppedIsOld
  <2> QED BY <2>1, <2>3, <2>4
<1>3. CASE s \notin granted
  <2>1. PICK r \in Request : Grant(r)
    BY <1>3 DEF LimiterNext, ReadClock, Refuse, CheckTarget, TimePasses, limiterVars
  <2>2. s = NewSlot(r)
    BY <1>3, <2>1 DEF Grant
  <2>3. LimitOf(s) = Current(r)
    BY <2>2 DEF LimitOf, NewSlot, Current
  <2>4. Current(r).key \in Key
    BY <2>1, AskedLimits DEF Grant, SlotsPlaced, AtLimit, Current
  <2>5. s \in counters'[Current(r).key]
    BY <2>1, <2>2, <2>4 DEF Grant
  <2> QED BY <2>3, <2>5
<1> QED BY <1>1, <1>2, <1>3

\* A limit that gives a slot still holds in its list every slot it gave in a
\* stretch of time that the new one falls into: neither this pruning nor an
\* earlier one reached back so far.
LEMMA StretchIsKept ==
    ASSUME LimiterTypeOK, SlotsPlaced, PrunedIsOld,
           NEW r \in Request, ask[r].at = "held",
           NEW t \in Time, NEW w \in Time, NEW d \in Time,
           SafeWindow(Current(r).key, w), t <= clock, clock + d <= t + w
    PROVE  GivenWithin(Current(r), t, w, d) \subseteq Kept(r)
<1> SUFFICES ASSUME NEW s \in GivenWithin(Current(r), t, w, d)
             PROVE  s \in Kept(r)
  OBVIOUS
<1> USE DEF LimiterTypeOK
<1>1. /\ s \in granted /\ LimitOf(s) = Current(r)
      /\ t <= s.taken /\ s.taken <= s.stamp + d
  BY DEF GivenWithin
<1>2. /\ t \in Nat /\ w \in Nat /\ d \in Nat /\ clock \in Nat
      /\ s.stamp \in Nat /\ s.taken \in Nat
  BY <1>1, LimiterAssumption DEF Time, Slot
<1>3. clock <= s.stamp + w
  BY <1>1, <1>2
<1>4. ASSUME NEW l \in Limits, l.key = Current(r).key
      PROVE  l.window \in Nat /\ clock <= s.stamp + l.window
  <2>1. l.window \in Nat /\ w <= l.window
    BY <1>4, LimiterAssumption DEF SafeWindow
  <2> QED BY <2>1, <1>2, <1>3
<1>5. s \in counters[Current(r).key]
  <2> SUFFICES ASSUME s \notin counters[Current(r).key] PROVE FALSE
    OBVIOUS
  <2>1. PICK l \in Limits : l.key = Current(r).key /\ s.stamp + l.window < clock
    BY <1>1 DEF PrunedIsOld
  <2>2. l.window \in Nat /\ clock <= s.stamp + l.window
    BY <1>4, <2>1
  <2> QED BY <2>1, <2>2, <1>2
<1>6. s.stamp + Current(r).window >= ask[r].stamp
  <2>1. Current(r) \in Limits
    BY AskedLimits DEF SlotsPlaced, AtLimit, Current
  <2>2. Current(r).window \in Nat /\ clock <= s.stamp + Current(r).window
    BY <1>4, <2>1
  <2>3. ask[r].stamp \in Nat /\ ask[r].stamp <= clock
    BY LimiterAssumption DEF Asking, Time, SlotsPlaced
  <2> QED BY <2>2, <2>3, <1>2
<1> QED BY <1>5, <1>6 DEF Kept

\* One step keeps every limit within its maximum.
LEMMA RollingLimitStep ==
    ASSUME LimiterTypeOK, SlotsPlaced, PrunedIsOld, RollingLimit,
           [LimiterNext]_limiterVars
    PROVE  RollingLimit'
<1>1. CASE granted' = granted
  BY <1>1 DEF RollingLimit, GivenWithin, LimitOf
<1>2. ASSUME NEW r \in Request, Grant(r) PROVE RollingLimit'
  <2> SUFFICES ASSUME NEW l \in Limits, NEW t \in Time, NEW w \in Time, NEW d \in Time,
                      SafeWindow(l.key, w)
               PROVE  Cardinality(GivenWithin(l, t, w, d)') <= l.max
    BY DEF RollingLimit, SafeWindow
  <2>1. PICK G : G = GivenWithin(l, t, w, d)
    OBVIOUS
  <2>2. PICK x : x = NewSlot(r)
    OBVIOUS
  <2>3. PICK H : H = GivenWithin(l, t, w, d)'
    OBVIOUS
  <2>4. H \subseteq G \cup {x}
    BY <1>2, <2>1, <2>2, <2>3 DEF Grant, GivenWithin, LimitOf
  <2>5. IsFiniteSet(G) /\ IsFiniteSet(Kept(r))
    <3>1. AtLimit(r) /\ IsFiniteSet(granted)
      BY <1>2 DEF Grant, SlotsPlaced
    <3>2. Current(r).key \in Key
      BY <3>1, AskedLimits DEF AtLimit, Current
    <3>3. G \in SUBSET granted /\ Kept(r) \in SUBSET granted
      BY <2>1, <3>2 DEF GivenWithin, Kept, LimiterTypeOK
    <3> QED BY <3>1, <3>3, SmallerSet
  <2>6. Cardinality(G) <= l.max /\ l.max \in Nat
    BY <2>1, LimiterAssumption DEF RollingLimit
  <2>7. CASE x \notin H
    <3>1. H \in SUBSET G
      BY <2>4, <2>7
    <3>2. /\ Cardinality(H) \in Nat /\ Cardinality(G) \in Nat
          /\ Cardinality(H) <= Cardinality(G)
      BY <3>1, <2>5, SmallerSet
    <3> QED BY <2>3, <2>6, <3>2
  <2>8. CASE x \in H
    <3>1. l = Current(r) /\ t <= clock /\ clock + d <= t + w
      BY <1>2, <2>2, <2>3, <2>8 DEF GivenWithin, LimitOf, NewSlot, Current
    <3>2. ask[r].at = "held"
      BY <1>2 DEF Grant
    <3>3. G \in SUBSET Kept(r)
      BY <2>1, <3>1, <3>2, StretchIsKept
    <3>4. /\ Cardinality(G) \in Nat /\ Cardinality(Kept(r)) \in Nat
          /\ Cardinality(G) <= Cardinality(Kept(r))
      BY <2>5, <3>3, SmallerSet
    <3>5. ~(Cardinality(Kept(r)) >= l.max)
      BY <1>2, <3>1 DEF Grant, Full
    <3>6. Cardinality(G) < l.max
      BY <2>6, <3>4, <3>5
    <3>7. Cardinality(G \cup {x}) <= l.max
      BY <2>5, <2>6, <3>6, OneMore
    <3>8. IsFiniteSet(G \cup {x}) /\ H \in SUBSET (G \cup {x})
      BY <2>4, <2>5, FS_AddElement
    <3>9. /\ Cardinality(H) \in Nat /\ Cardinality(G \cup {x}) \in Nat
          /\ Cardinality(H) <= Cardinality(G \cup {x})
      BY <3>8, SmallerSet
    <3> QED BY <2>3, <2>6, <3>7, <3>9
  <2> QED BY <2>7, <2>8
<1> QED BY <1>1, <1>2
      DEF LimiterNext, ReadClock, Refuse, CheckTarget, TimePasses, limiterVars

\* The slots that bear witness for a refusal.
Cause(r) ==
    {s \in granted : /\ LimitOf(s).key = Current(r).key
                     /\ s.stamp + Current(r).window >= ask[r].stamp}

\* One step keeps the cause of every refusal.
LEMMA RefusedWithCauseStep ==
    ASSUME LimiterTypeOK, SlotsPlaced, RefusedWithCause, [LimiterNext]_limiterVars
    PROVE  RefusedWithCause'
<1> SUFFICES ASSUME NEW r \in Request, ask'[r].at = "refused", AtLimit(r)'
             PROVE  Cardinality(Cause(r)') >= Current(r)'.max
  BY DEF RefusedWithCause, Cause
<1> USE DEF LimiterTypeOK
<1>1. CASE ~Refuse(r)
  <2>1. ask'[r] = ask[r] /\ granted \subseteq granted' /\ IsFiniteSet(granted')
    <3>1. ~ReadClock(r) /\ ~Grant(r)
      BY DEF ReadClock, Grant, Asking
    <3>2. ~CheckTarget(r)
      BY DEF CheckTarget, AtLimit, Asking
    <3>3. ask'[r] = ask[r]
      <4>1. ASSUME NEW q \in Request, q # r,
                   ReadClock(q) \/ Grant(q) \/ Refuse(q) \/ CheckTarget(q)
            PROVE  ask'[r] = ask[r]
        BY <4>1 DEF ReadClock, Grant, Refuse, CheckTarget
      <4> QED BY <1>1, <3>1, <3>2, <4>1 DEF LimiterNext, TimePasses, limiterVars
    <3>4. \/ granted' = granted
          \/ \E q \in Request : granted' = granted \cup {NewSlot(q)}
      BY DEF LimiterNext, ReadClock, Grant, Refuse, CheckTarget, TimePasses, limiterVars
    <3> QED BY <3>3, <3>4, FS_AddElement DEF SlotsPlaced
  <2>2. Current(r)' = Current(r) /\ AtLimit(r) /\ ask[r].at = "refused"
    BY <2>1 DEF Current, AtLimit
  <2>3. Cause(r) \in SUBSET Cause(r)'
    BY <2>1, <2>2 DEF Cause, LimitOf
  <2>4. IsFiniteSet(Cause(r)')
    <3>1. Cause(r)' \in SUBSET granted'
      BY DEF Cause
    <3> QED BY <2>1, <3>1, SmallerSet
  <2>5. /\ Cardinality(Cause(r)) \in Nat /\ Cardinality(Cause(r)') \in Nat
        /\ Cardinality(Cause(r)) <= Cardinality(Cause(r)')
    BY <2>3, <2>4, SmallerSet
  <2>6. Cardinality(Cause(r)) >= Current(r).max
    BY <2>2 DEF RefusedWithCause, Cause
  <2>7. Current(r).max \in Nat
    BY <2>2, AskedLimits DEF AtLimit, Current
  <2> QED BY <2>2, <2>5, <2>6, <2>7
<1>2. CASE Refuse(r)
  <2>1. /\ ask[r].at = "held" /\ AtLimit(r) /\ granted' = granted
        /\ ask'[r].ix = ask[r].ix /\ ask'[r].stamp = ask[r].stamp
    BY <1>2 DEF Refuse, SlotsPlaced, Asking
  <2>2. Current(r)' = Current(r) /\ Current(r).key \in Key /\ Current(r).max \in Nat
    BY <2>1, AskedLimits DEF Current, AtLimit
  <2>3. Kept(r) \in SUBSET Cause(r)'
    <3>1. \A s \in Kept(r) : s \in granted /\ LimitOf(s).key = Current(r).key
      BY <2>2 DEF Kept, SlotsPlaced
    <3> QED BY <3>1, <2>1, <2>2 DEF Kept, Cause, LimitOf
  <2>4. IsFiniteSet(Cause(r)')
    <3>1. Cause(r)' \in SUBSET granted
      BY <2>1 DEF Cause
    <3>2. IsFiniteSet(granted)
      BY DEF SlotsPlaced
    <3> QED BY <3>1, <3>2, SmallerSet
  <2>5. /\ Cardinality(Kept(r)) \in Nat /\ Cardinality(Cause(r)') \in Nat
        /\ Cardinality(Kept(r)) <= Cardinality(Cause(r)')
    BY <2>3, <2>4, SmallerSet
  <2>6. Cardinality(Kept(r)) >= Current(r).max
    BY <1>2 DEF Refuse, Full
  <2> QED BY <2>2, <2>5, <2>6
<1> QED BY <1>1, <1>2

\* The inductive invariant of the rate limiter.
LimiterInv == LimiterTypeOK /\ SlotsPlaced /\ PrunedIsOld /\ RollingLimit /\ RefusedWithCause

\* It holds initially and every step keeps it.
LEMMA LimiterInvariant == LimiterSpec => []LimiterInv
<1>1. LimiterInit => LimiterInv
  <2> SUFFICES ASSUME LimiterInit PROVE LimiterInv
    OBVIOUS
  <2>1. LimiterTypeOK
    BY LimiterAssumption DEF LimiterInit, LimiterTypeOK, Asking, Time
  <2>2. SlotsPlaced /\ PrunedIsOld
    BY FS_EmptySet DEF LimiterInit, SlotsPlaced, PrunedIsOld
  <2>3. RollingLimit
    <3>1. \A l, t, w, d : GivenWithin(l, t, w, d) = {}
      BY DEF LimiterInit, GivenWithin
    <3>2. \A l \in Limits : 0 <= l.max
      BY LimiterAssumption
    <3>3. Cardinality({}) = 0
      BY FS_EmptySet
    <3> QED BY <3>1, <3>2, <3>3 DEF RollingLimit
  <2>4. RefusedWithCause
    BY DEF LimiterInit, RefusedWithCause
  <2> QED BY <2>1, <2>2, <2>3, <2>4 DEF LimiterInv
<1>2. LimiterInv /\ LimiterTypeOK' /\ [LimiterNext]_limiterVars => LimiterInv'
  <2> SUFFICES ASSUME LimiterInv, LimiterTypeOK', [LimiterNext]_limiterVars PROVE LimiterInv'
    OBVIOUS
  <2>1. LimiterTypeOK /\ SlotsPlaced /\ PrunedIsOld /\ RollingLimit /\ RefusedWithCause
    BY DEF LimiterInv
  <2>2. SlotsPlaced'
    BY <2>1, SlotsPlacedStep
  <2>3. PrunedIsOld'
    BY <2>1, PrunedIsOldStep
  <2>4. RollingLimit'
    BY <2>1, RollingLimitStep
  <2>5. RefusedWithCause'
    BY <2>1, RefusedWithCauseStep
  <2> QED BY <2>2, <2>3, <2>4, <2>5 DEF LimiterInv
<1>3. LimiterSpec => []LimiterTypeOK
  BY LimiterTypeCorrect
<1> QED BY <1>1, <1>2, <1>3, PTL DEF LimiterSpec

\* However the threads interleave and however the limits share their keys, no
\* limit gives more than its maximum in a stretch of the shortest window of
\* its key, less the delay between the clock and the lock (check_rate_limit).
THEOREM LimitsRoll == LimiterSpec => []RollingLimit
<1>1. LimiterInv => RollingLimit
  BY DEF LimiterInv
<1> QED BY <1>1, LimiterInvariant, PTL

\* A refusal by a limit is always due to as many slots, given for its key, as
\* the maximum allows (check_rate_limit).
THEOREM RefusalsHaveCause == LimiterSpec => []RefusedWithCause
<1>1. LimiterInv => RefusedWithCause
  BY DEF LimiterInv
<1> QED BY <1>1, LimiterInvariant, PTL

=============================================================================
