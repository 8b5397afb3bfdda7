--------------------------- MODULE GuardedCallMC ---------------------------
(***************************************************************************)
(* Instances of GuardedCall for TLC: an e-mail is sent, drafted or drafted *)
(* with masked arguments, and a rule of each kind applies to it.  Sending  *)
(* degrades to drafting, drafting to drafting with masked arguments.       *)
(***************************************************************************)
EXTENDS GuardedCall, TLC

CONSTANTS c1, c2

MCForms == {"send", "draft", "masked"}
MCAsked == (c1 :> {"draft"}) @@ (c2 :> {"send", "draft"})
MCToolOf == [send |-> "email.send", draft |-> "email.draft",
             masked |-> "email.draft"]
MCRank == [send |-> 2, draft |-> 1, masked |-> 0]

MCActionOf ==
    [mask |-> "ALLOW", block |-> "DENY", ask |-> "LLM_CHECK",
     review |-> "HUMAN_CHECK", toDraft |-> "DEGRADE", toMasked |-> "DEGRADE"]
MCRules == DOMAIN MCActionOf

Unchanged == [f \in MCForms |-> f]
Drafting == [Unchanged EXCEPT !["send"] = "draft"]
Masking == [Unchanged EXCEPT !["draft"] = "masked"]
MCRewrite ==
    [mask |-> Masking, block |-> Unchanged, ask |-> Unchanged,
     review |-> Drafting, toDraft |-> Drafting, toMasked |-> Masking]

Enforcing(approval, onTimeout, coroutines, flaky) ==
    [mode |-> "enforce", approval |-> approval, onTimeout |-> onTimeout,
     coroutines |-> coroutines, flaky |-> flaky]

Degrading == Enforcing("block", "degrade", {}, FALSE)
WithCoroutine == Enforcing("block", "allow", {c2}, TRUE)
Suspending == Enforcing("suspend", "deny", {}, FALSE)
Monitoring == [Enforcing("block", "deny", {c2}, FALSE) EXCEPT !.mode = "monitor"]
DryRunning == [Enforcing("block", "deny", {}, FALSE) EXCEPT !.mode = "dry_run"]

MCConfigs == {Degrading, WithCoroutine, Suspending, Monitoring, DryRunning}

=============================================================================
