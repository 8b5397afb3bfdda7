--------------------------- MODULE RemoteService ---------------------------
(***************************************************************************)
(* A guard in remote mode and the runtime server it asks: the calls that   *)
(* RemotePipeline sends to POST /v1/evaluate, the tool that Guard.register *)
(* reports to POST /tools, the labels that an operator gives it by PATCH,  *)
(* and the language model that settles an LLM_CHECK on the server.         *)
(*                                                                         *)
(* There is one tool, of one SDK process with several threads; its owner   *)
(* is the agent of the session.  A request may be answered, refused, or    *)
(* outlived by its sender, who gives up while the server goes on with it.  *)
(* A label stands for the four label fields of a tool.                     *)
(***************************************************************************)
EXTENDS Naturals, FiniteSets

CONSTANTS
    Calls,           \* tool calls, in threads of the SDK process
    Regs,            \* registrations of the tool, in the order 1, 2, ...
    Agents,          \* principals that a session may have
    Labels,          \* labels of a tool
    Declared,        \* the one in the code of the tool
    Gate,            \* one under which the rules let nothing through
    ActionsFor,      \* the actions an evaluation may yield, by label
    Configs,         \* guards and servers looked at, see ConfigSpace
    MaxPatches,      \* bounds on what an operator does, on what the agent
    MaxSwitches,     \* does with its session,
    MaxRestarts      \* and on the server's restarts

Actions == {"ALLOW", "DENY", "LLM_CHECK", "HUMAN_CHECK", "DEGRADE"}
Libraries == {"litellm", "openai"}

ConfigSpace ==
    [failOpen : BOOLEAN,
     mode : {"enforce", "monitor", "dry_run"},
     async : BOOLEAN,                \* the tool is `async def`
     persistent : BOOLEAN,           \* PostgresToolCatalogStore
     installed : SUBSET Libraries,
     wanted : Libraries \cup {""}]   \* AGENTGUARD_LLM_BACKEND

NoAgent == "nobody"
NoLabel == "not registered"

ASSUME RemoteAssumption ==
    /\ Regs \subseteq Nat
    /\ Declared \in Labels /\ Gate \in Labels
    /\ ActionsFor \in [Labels -> SUBSET Actions]
    /\ ActionsFor[Gate] \cap {"ALLOW", "LLM_CHECK", "DEGRADE"} = {}
    /\ Configs \subseteq ConfigSpace
    /\ {MaxPatches, MaxSwitches, MaxRestarts} \subseteq Nat
    /\ NoAgent \notin Agents
    /\ NoLabel \notin Labels

VARIABLES
    config,          \* chosen once
    session,         \* the principal of the current session, the one behind it,
                     \* and whether Guard.start holds a token of it
    call,            \* the calls, in the SDK
    request,         \* their requests, at the server
    reg,             \* the registrations
    catalog,         \* the label of the tool's entry, by owner
    given,           \* history: the label an operator has given, by owner
    lost,            \* history: owners whose label something has undone
    spent            \* patches, switches and restarts so far

vars == <<config, session, call, request, reg, catalog, given, lost, spent>>

-----------------------------------------------------------------------------
(* The language model.                                                     *)

\* LLMBackend.from_env prefers litellm, and raises if neither is installed.
PrefersLitellm(env) ==
    LET uses == IF env.wanted = "" THEN "litellm" \in env.installed
                ELSE env.wanted = "litellm"
    IN  uses \/ "openai" \notin env.installed

ServerStarts(env) ==
    env.installed # {} \/ env.wanted = "litellm"

\* LLMBackend: litellm is used only where it is installed, openai is imported
\* when it is needed.
Speaks(env) ==
    IF PrefersLitellm(env) /\ "litellm" \in env.installed THEN TRUE
    ELSE "openai" \in env.installed

Words == {"allow", "deny", "other"}

\* Contents of an answer: the fields of it, and the word it begins with.
Texts == [decision : Words \cup {"absent"}, reason : BOOLEAN, starts : Words]
NoText == [decision |-> "none", reason |-> FALSE, starts |-> "none"]

\* LLMBackend.chat: a text, nothing, or an exception.
Contents(env) == IF Speaks(env) THEN Texts \cup {NoText} ELSE {NoText}

\* The two verdicts that are not left to a human.
Verdict == [allow |-> "ALLOW", deny |-> "DENY", other |-> "HUMAN_CHECK",
            absent |-> "HUMAN_CHECK"]

\* Mutant: the word is looked at when the decision is not one of the words.
Parse_Fallback(text) ==
    IF text = NoText THEN "HUMAN_CHECK"
    ELSE IF text.decision \in {"allow", "deny"} THEN Verdict[text.decision]
    ELSE Verdict[text.starts]

\* _parse_llm_review_response: a text with either field goes by the decision
\* field, another one by its first word.
Parse(text) ==
    IF text = NoText THEN "HUMAN_CHECK"
    ELSE IF text.decision # "absent" \/ text.reason THEN Verdict[text.decision]
    ELSE Verdict[text.starts]

-----------------------------------------------------------------------------

NoRequest == [at |-> "none", by |-> NoAgent, action |-> "ALLOW",
              first |-> "ALLOW", text |-> NoText]

Init ==
    /\ config \in {g \in Configs : ServerStarts(g)}
    /\ session = [now |-> NoAgent, outer |-> NoAgent, token |-> FALSE]
    /\ call = [c \in Calls |-> [at |-> "idle", gated |-> FALSE]]
    /\ request = [c \in Calls |-> NoRequest]
    /\ reg = [r \in Regs |-> [at |-> "new", owner |-> NoAgent, found |-> NoLabel,
                              waited |-> FALSE]]
    /\ catalog = [a \in Agents |-> NoLabel]
    /\ given = [a \in Agents |-> NoLabel]
    /\ lost = {}
    /\ spent = [patches |-> 0, switches |-> 0, restarts |-> 0]

Spend(what, most) ==
    /\ spent[what] < most
    /\ spent' = [spent EXCEPT ![what] = @ + 1]

-----------------------------------------------------------------------------
(* The session of the SDK process.                                         *)

\* Guard.start: a session started before is ended first.
Start(a) ==
    /\ Spend("switches", MaxSwitches)
    /\ session' = [now |-> a, token |-> TRUE,
                   outer |-> IF session.token THEN session.outer ELSE session.now]
    /\ UNCHANGED <<config, call, request, reg, catalog, given, lost>>

\* Guard.end_session
End ==
    /\ session.token
    /\ session' = [now |-> session.outer, outer |-> NoAgent, token |-> FALSE]
    /\ UNCHANGED <<config, call, request, reg, catalog, given, lost, spent>>

\* Guard.set_principal: of the session there is, or of a new one.
SetPrincipal(a) ==
    /\ Spend("switches", MaxSwitches)
    /\ session' = [session EXCEPT !.now = a]
    /\ UNCHANGED <<config, call, request, reg, catalog, given, lost>>

-----------------------------------------------------------------------------
(* Registration: Guard.register, and POST /tools.                          *)

\* _record_tool_registration, _report_tool_registration: the owner is the agent
\* of the session; upsert_tool waits for the answer.
Register(r) ==
    /\ reg[r].at = "new" /\ session.now # NoAgent
    /\ \A q \in Regs : q < r => reg[q].at # "new" /\ ~reg[q].waited
    /\ reg' = [reg EXCEPT ![r] = [@ EXCEPT !.at = "sent", !.owner = session.now,
                                           !.waited = TRUE]]
    /\ UNCHANGED <<config, session, call, request, catalog, given, lost, spent>>

\* upsert_tool of the server: the entry there is.
FindTool(r) ==
    /\ reg[r].at = "sent"
    /\ reg' = [reg EXCEPT ![r] = [@ EXCEPT !.at = "found",
                                           !.found = catalog[reg[r].owner]]]
    /\ UNCHANGED <<config, session, call, request, catalog, given, lost, spent>>

\* What an operator has given, and is not in the catalog any more.
Undone(cat) ==
    {a \in Agents : given[a] # NoLabel /\ cat[a] # given[a]}

\* Calls that nothing promises to be held, because the label is undone.
Ungate(owners) ==
    [c \in Calls |-> IF request[c].at = "sent" /\ request[c].by \in owners
                     THEN [call[c] EXCEPT !.gated = FALSE] ELSE call[c]]

\* The store's upsert_tool: an entry is put in or replaced as a whole.
Upserted(a, label) == [catalog EXCEPT ![a] = label]

\* upsert_tool of the server and of the store: the labels that were found are
\* kept, even where they have been changed since.
StoreTool(r) ==
    /\ reg[r].at = "found"
    /\ LET a == reg[r].owner
           found == reg[r].found
           label == IF found = NoLabel THEN Declared ELSE found
           next == Upserted(a, label)
           crossed == IF found # catalog[a] THEN Undone(next) ELSE {}
       IN  /\ catalog' = next
           /\ lost' = lost \cup crossed
           /\ call' = Ungate(crossed)
    /\ reg' = [reg EXCEPT ![r] = [@ EXCEPT !.at = "stored", !.found = NoLabel]]
    /\ UNCHANGED <<config, session, request, given, spent>>

\* upsert_tool returns: the answer has come, or the sender has given up, and
\* only says so in the log.
Registered(r) ==
    /\ reg[r].waited
    /\ reg' = [reg EXCEPT ![r].waited = FALSE]
    /\ UNCHANGED <<config, session, call, request, catalog, given, lost, spent>>

\* The store's update_tool_labels: of an entry there is, and only its labels.
UpdateLabels(a, label) ==
    /\ catalog[a] # NoLabel
    /\ catalog' = [catalog EXCEPT ![a] = label]

\* PATCH /agents/{agent_id}/tools/{tool_name}/labels
PatchLabels(a, label) ==
    /\ Spend("patches", MaxPatches)
    /\ UpdateLabels(a, label)
    /\ given' = [given EXCEPT ![a] = label]
    /\ lost' = lost \ {a}
    /\ call' = IF label = Gate THEN call ELSE Ungate({a})
    /\ UNCHANGED <<config, session, request, reg>>

\* InMemoryToolCatalogStore has nothing, PostgresToolCatalogStore has it all.
Kept == IF config.persistent THEN catalog ELSE [a \in Agents |-> NoLabel]

\* The server comes up again; nobody registers the tool once more.
Restart ==
    /\ Spend("restarts", MaxRestarts)
    /\ request' = [c \in Calls |->
                      IF request[c].at \in {"sent", "reviewed", "answered"}
                      THEN [request[c] EXCEPT !.at = "gone"] ELSE request[c]]
    /\ reg' = [r \in Regs |-> IF reg[r].at \in {"sent", "found"}
                              THEN [reg[r] EXCEPT !.at = "stored", !.found = NoLabel]
                              ELSE reg[r]]
    /\ catalog' = Kept
    /\ lost' = lost \cup Undone(catalog')
    /\ call' = Ungate(Undone(catalog'))
    /\ UNCHANGED <<config, session, given>>

-----------------------------------------------------------------------------
(* Calls: wrap_tool, RemotePipeline and RemoteGuardClient.                 *)

\* A call of the agent of the session, whose label of an operator's still stands.
Gated == session.now \in Agents \ lost /\ given[session.now] = Gate

\* The event of the call, by the principal of the session, goes out.
Send(c) ==
    /\ call[c].at = "idle"
    /\ request' = [request EXCEPT ![c] = [NoRequest EXCEPT !.at = "sent",
                                                           !.by = session.now]]
    /\ call' = [call EXCEPT ![c] = [at |-> "waits", gated |-> Gated]]
    /\ UNCHANGED <<config, session, reg, catalog, given, lost, spent>>

\* Mutant: the labels of the event are kept where it has any.
LabelOf_Event(c) == Declared

\* _apply_catalog_tool_labels
LabelOf(c) ==
    LET a == request[c].by IN
    IF a \in Agents /\ catalog[a] # NoLabel THEN catalog[a] ELSE Declared

\* POST /v1/evaluate: the labels, then _evaluate, without a pause between.
Evaluate(c) ==
    /\ request[c].at = "sent"
    /\ \E action \in ActionsFor[LabelOf(c)] :
           request' = [request EXCEPT
                          ![c].action = action, ![c].first = action,
                          ![c].at = IF action = "LLM_CHECK" THEN "reviewed"
                                                            ELSE "answered"]
    /\ UNCHANGED <<config, session, call, reg, catalog, given, lost, spent>>

\* _finalize_remote_decision, resolve_remote_decision: in a thread of its own.
Review(c) ==
    /\ request[c].at = "reviewed"
    /\ \E text \in Contents(config) :
           request' = [request EXCEPT ![c].text = text, ![c].at = "answered",
                                      ![c].action = Parse(text)]
    /\ UNCHANGED <<config, session, call, reg, catalog, given, lost, spent>>

Lets(c, at) == [call EXCEPT ![c].at = at]

\* Where guarded_call and async_wrapper take a call with a decision.
Obey(action) ==
    CASE config.async /\ config.mode = "dry_run" -> "dryRun"
      [] ~config.async /\ action = "LLM_CHECK" -> "pending"
      [] config.mode = "monitor" -> "ran"
      [] config.mode # "monitor" /\ action = "DENY" -> "refused"
      [] config.mode # "monitor" /\ action = "HUMAN_CHECK" -> "pending"
      [] OTHER -> "ran"

\* The answer comes while the client waits for it.
Answered(c) ==
    /\ call[c].at = "waits" /\ request[c].at = "answered"
    /\ call' = Lets(c, Obey(request[c].action))
    /\ request' = [request EXCEPT ![c].at = "delivered"]
    /\ UNCHANGED <<config, session, reg, catalog, given, lost, spent>>

\* _FAIL_OPEN_DECISION, _FAIL_CLOSED_DECISION
Fallback == IF config.failOpen THEN "ALLOW" ELSE "DENY"

\* evaluate raises: guarded_call hands the exception on, and async_wrapper runs
\* the tool without a decision, in every mode and whatever fail_open is, since
\* RemotePipeline has no attribute of that name.
Unheard == IF config.async THEN "unjudged" ELSE "failed"

\* The event cannot be made JSON: model_dump stands outside the client's try.
CannotSend(c) ==
    /\ call[c].at = "idle"
    /\ call' = [call EXCEPT ![c] = [at |-> Unheard, gated |-> Gated]]
    /\ UNCHANGED <<config, session, request, reg, catalog, given, lost, spent>>

\* The answer breaks off with an error of http.client, which is no OSError; the
\* server goes on.
BreaksOff(c) ==
    /\ call[c].at = "waits"
    /\ call' = Lets(c, Unheard)
    /\ UNCHANGED <<config, session, request, reg, catalog, given, lost, spent>>

\* The server cannot be reached or answers with an error or too late, or the
\* answer is none: the client decides by itself, and the server goes on.
GiveUp(c) ==
    /\ call[c].at = "waits"
    /\ call' = Lets(c, Obey(Fallback))
    /\ UNCHANGED <<config, session, request, reg, catalog, given, lost, spent>>

-----------------------------------------------------------------------------

Next ==
    \/ \E a \in Agents : Start(a) \/ SetPrincipal(a)
    \/ End
    \/ \E r \in Regs : Register(r) \/ FindTool(r) \/ StoreTool(r) \/ Registered(r)
    \/ \E a \in Agents, label \in Labels : PatchLabels(a, label)
    \/ Restart
    \/ \E c \in Calls :
           \/ Send(c) \/ Evaluate(c) \/ Review(c) \/ Answered(c)
           \/ GiveUp(c) \/ CannotSend(c) \/ BreaksOff(c)

Spec == Init /\ [][Next]_vars

-----------------------------------------------------------------------------
(* Properties                                                              *)

\* What a call runs by is what the server has answered.
Served(c) == request[c].at = "delivered"

\* The tool has been run, with a decision or without.
Ran(c) == call[c].at \in {"ran", "unjudged"}

\* Nothing has been heard of the server, and the client or the wrapper lets the
\* call run: fail_open is set, or the tool is `async def` and asking raised.
LetUnheard(c) ==
    ~Served(c) /\ (config.failOpen \/ (config.async /\ call[c].at = "unjudged"))

\* A tool runs only where its call was allowed or rewritten by the rules, or by
\* a language model that was asked and whose answer says so; or where nothing
\* was heard of the server and LetUnheard says why; or in monitor mode; and no
\* LLM_CHECK gets out of the server (RemotePipeline, RemoteGuardClient.evaluate,
\* async_wrapper, resolve_remote_decision).
RunsExplained ==
    \A c \in Calls :
        /\ Served(c) => request[c].action # "LLM_CHECK"
        /\ Ran(c) /\ config.mode # "monitor" =>
               \/ LetUnheard(c)
               \/ Served(c) /\ request[c].first \in {"ALLOW", "DEGRADE"}
               \/ /\ Served(c) /\ request[c].first = "LLM_CHECK"
                  /\ \/ request[c].text.decision = "allow"
                     \/ /\ request[c].text.decision = "absent"
                        /\ ~request[c].text.reason
                        /\ request[c].text.starts = "allow"

\* End to end: a call that was made by an agent whose tool an operator had put
\* behind a label that the rules let nothing through does not run, as long as
\* the label has stayed, unless the guard only watches or nothing was heard of
\* the server (patch_tool_labels, _apply_catalog_tool_labels, evaluate,
\* guarded_call, async_wrapper).
GatedCallsStop ==
    \A c \in Calls :
        call[c].gated /\ Ran(c) => config.mode = "monitor" \/ LetUnheard(c)

=============================================================================
