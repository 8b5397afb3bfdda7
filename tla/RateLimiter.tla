----------------------------- MODULE RateLimiter -----------------------------
(***************************************************************************)
(* The rate_limit obligations of an allowed call:                          *)
(* ActionExecutor.check_rate_limit, asked by Enforcer._allow and by the    *)
(* coroutine wrapper, with the target check that follows it.               *)
(*                                                                         *)
(* A limit keeps the timestamps of the slots it gave in a list, under the  *)
(* key (session, rule_id).  One call of the method goes through its limits *)
(* in order: it reads the clock, takes the lock, drops what is older than  *)
(* the window, and refuses or appends.  The clock is read outside the      *)
(* lock, so that threads may count in another order than they read, and    *)
(* several limits may share one key, so that each drops what is too old    *)
(* for its own window.                                                     *)
(***************************************************************************)
EXTENDS Naturals, Sequences, FiniteSets

CONSTANTS
    Request,     \* the allowed calls that ask, each one once
    Limits,      \* rate_limit obligations: a key, a maximum and a window
    Asked,       \* the limits each request asks, in order
    Barred,      \* requests whose target is in no require_target_in list
    MaxTime      \* bound: the clock stops there

ASSUME LimiterAssumption ==
    /\ \A l \in Limits : l.max \in Nat /\ l.window \in Nat
    /\ Asked \in [Request -> Seq(Limits)]
    /\ MaxTime \in Nat

VARIABLES
    clock,       \* time.time()
    ask,         \* where each request is: the limit it is at, the time it read
    counters,    \* _RATE_COUNTERS: the slots a key's list still holds
    granted      \* history: every slot any list ever held

limiterVars == <<clock, ask, counters, granted>>

-----------------------------------------------------------------------------

Key == {l.key : l \in Limits}
Time == 0..MaxTime

\* An element of a list: the request and the place of its limit that
\* appended it, the timestamp it is, and (history) the time it was appended.
Slot == [who : Request, ix : Nat, stamp : Time, taken : Time]
LimitOf(s) == Asked[s.who][s.ix]

\* Between two limits, or held up between the clock and the lock, or done.
Asking == [at : {"between", "held", "admitted", "refused"}, ix : Nat, stamp : Time]

\* The limit a request is at, when it is at one.
Current(r) == Asked[r][ask[r].ix]
AtLimit(r) == ask[r].ix \in DOMAIN Asked[r]

\* Mutant: an entry that is exactly as old as the window is dropped.
Kept_Exclusive(r) ==
    {s \in counters[Current(r).key] : s.stamp + Current(r).window > ask[r].stamp}

\* What the list of the request's limit keeps: t >= now - window.
Kept(r) ==
    {s \in counters[Current(r).key] : s.stamp + Current(r).window >= ask[r].stamp}

Full(r) == Cardinality(Kept(r)) >= Current(r).max

NewSlot(r) ==
    [who |-> r, ix |-> ask[r].ix, stamp |-> ask[r].stamp, taken |-> clock]

-----------------------------------------------------------------------------

LimiterInit ==
    /\ clock = 0
    /\ ask = [r \in Request |-> [at |-> "between", ix |-> 1, stamp |-> 0]]
    /\ counters = [k \in Key |-> {}]
    /\ granted = {}

\* now = time.time(), before the lock.
ReadClock(r) ==
    /\ ask[r].at = "between" /\ AtLimit(r)
    /\ ask' = [ask EXCEPT ![r].at = "held", ![r].stamp = clock]
    /\ UNCHANGED <<clock, counters, granted>>

\* Under the lock, with room: the request takes a slot and goes on.
Grant(r) ==
    /\ ask[r].at = "held"
    /\ ~Full(r)
    /\ counters' = [counters EXCEPT ![Current(r).key] = Kept(r) \cup {NewSlot(r)}]
    /\ granted' = granted \cup {NewSlot(r)}
    /\ ask' = [ask EXCEPT ![r].at = "between", ![r].ix = @ + 1]
    /\ UNCHANGED clock

\* Under the lock, with none: the call is denied.  What its earlier limits
\* gave it stays taken.
Refuse(r) ==
    /\ ask[r].at = "held"
    /\ Full(r)
    /\ counters' = [counters EXCEPT ![Current(r).key] = Kept(r)]
    /\ ask' = [ask EXCEPT ![r].at = "refused"]
    /\ UNCHANGED <<clock, granted>>

\* After the last limit, the target check lets the call run or denies it.
CheckTarget(r) ==
    /\ ask[r].at = "between" /\ ~AtLimit(r)
    /\ ask' = [ask EXCEPT ![r].at = IF r \in Barred THEN "refused" ELSE "admitted"]
    /\ UNCHANGED <<clock, counters, granted>>

TimePasses ==
    /\ clock < MaxTime
    /\ clock' = clock + 1
    /\ UNCHANGED <<ask, counters, granted>>

LimiterNext ==
    \/ \E r \in Request : ReadClock(r) \/ Grant(r) \/ Refuse(r) \/ CheckTarget(r)
    \/ TimePasses

LimiterSpec == LimiterInit /\ [][LimiterNext]_limiterVars

-----------------------------------------------------------------------------
(* Properties.                                                             *)

\* What the method keeps: the list of a key is of slots given for that key,
\* and every request is at one of its limits or past the last.
LimiterTypeOK ==
    /\ clock \in Time
    /\ ask \in [Request -> Asking]
    /\ granted \subseteq Slot
    /\ counters \in [Key -> SUBSET granted]

\* The slots a limit gave between t and t + w, w shortened by a delay d, to
\* requests that were held up between clock and lock for no longer than d.
GivenWithin(l, t, w, d) ==
    {s \in granted : /\ LimitOf(s) = l
                     /\ t <= s.taken /\ s.taken + d <= t + w
                     /\ s.taken <= s.stamp + d}

\* w is no longer than any window that prunes the list of this key.
SafeWindow(k, w) == \A l \in Limits : l.key = k => w <= l.window

\* The rolling limit: in no stretch of time of the length of the shortest
\* window of its key does a limit give more than its maximum, however the
\* threads interleave; a delay between reading the clock and taking the
\* lock shortens the stretch by as much (check_rate_limit).
RollingLimit ==
    \A l \in Limits : \A t, w, d \in Time :
        SafeWindow(l.key, w) => Cardinality(GivenWithin(l, t, w, d)) <= l.max

\* A limit that refuses a call has given its maximum of slots in the window
\* before the time the call read: a pruned, doubled or forgotten entry never
\* denies a call (check_rate_limit).
RefusedWithCause ==
    \A r \in Request :
        ask[r].at = "refused" /\ AtLimit(r) =>
            Cardinality({s \in granted :
                            /\ LimitOf(s).key = Current(r).key
                            /\ s.stamp + Current(r).window >= ask[r].stamp})
                >= Current(r).max

=============================================================================
