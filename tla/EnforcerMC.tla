----------------------------- MODULE EnforcerMC -----------------------------
(***************************************************************************)
(* The two places where threads meet in the enforcer, the approval bridge  *)
(* and the rate limiter, on small sets of tickets and of limits.           *)
(*                                                                         *)
(* They share no state and no property speaks of both, so how they         *)
(* interleave tells nothing apart: a behaviour of the run is one of the    *)
(* bridge, with the limiter at rest, or one of the limiter.                *)
(***************************************************************************)
EXTENDS ApprovalBridge, RateLimiter

\* `RATE_LIMIT(max=1, window="1s"), RATE_LIMIT(max=2, window="5s")` on one
\* rule are two limits of one key; quota is the limit of another rule.
Burst == [key |-> "shared", max |-> 1, window |-> 1]
Hourly == [key |-> "shared", max |-> 2, window |-> 5]
Quota == [key |-> "quota", max |-> 1, window |-> 2]

MCLimits == {Burst, Hourly, Quota}

\* Requests of both rules: one is refused by its target check, one asks a
\* limit of each rule, one both limits of the same.
MCAsked == <<<<Quota>>, <<Quota, Burst>>, <<Burst, Hourly>>>>

EnforcerInit == Init /\ LimiterInit

\* Nothing has been asked of the limiter, or of the bridge, yet.
LimiterResting ==
    /\ clock = 0
    /\ \A r \in Request : ask[r].at = "between" /\ ask[r].ix = 1
BridgeResting == tickets = {}

EnforcerNext ==
    \/ LimiterResting /\ Next /\ UNCHANGED limiterVars
    \/ BridgeResting /\ LimiterNext /\ UNCHANGED vars

EnforcerSpec ==
    /\ EnforcerInit
    /\ [][EnforcerNext]_<<vars, limiterVars>>
    /\ \A t \in Ticket : WF_vars(WaiterStep(t))
    /\ WF_vars(WatchdogStep)

=============================================================================
