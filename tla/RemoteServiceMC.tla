-------------------------- MODULE RemoteServiceMC --------------------------
(***************************************************************************)
(* One call, since calls do not write what another one reads, two          *)
(* registrations and two agents; an operator who changes the label twice,  *)
(* an agent that changes its session once, a server  that may restart.     *)
(***************************************************************************)
EXTENDS RemoteService

MCLabels == {"internal", "privileged"}
MCActionsFor ==
    [internal |-> {"ALLOW", "LLM_CHECK", "DEGRADE"},
     privileged |-> {"DENY", "HUMAN_CHECK"}]

Enforcing ==
    [failOpen |-> TRUE, mode |-> "enforce", async |-> FALSE,
     persistent |-> FALSE, installed |-> {"litellm"}, wanted |-> ""]
MCConfigs ==
    {Enforcing,
     [Enforcing EXCEPT !.failOpen = FALSE, !.persistent = TRUE,
                       !.wanted = "openai"],
     [Enforcing EXCEPT !.failOpen = FALSE, !.async = TRUE, !.mode = "dry_run",
                       !.installed = {"openai"}],
     [Enforcing EXCEPT !.mode = "dry_run", !.persistent = TRUE,
                       !.installed = {}, !.wanted = "litellm"],
     [Enforcing EXCEPT !.failOpen = FALSE, !.async = TRUE, !.persistent = TRUE],
     [Enforcing EXCEPT !.mode = "monitor", !.async = TRUE,
                       !.installed = {"openai"}]}

=============================================================================
