---------------------------- MODULE ToolAdapters ----------------------------
(***************************************************************************)
(* The framework adapters: how attach_autogen, attach_langchain,           *)
(* attach_openai_agents, attach_claude_agent, attach_dify, attach_openclaw *)
(* and install_middleware put guards on the tools of an agent, and what    *)
(* each guard makes of a decision.                                         *)
(*                                                                         *)
(* A tool has doors, the attributes that hold its callables; a framework   *)
(* enters one and may go on to another (run_json calls _func).  An install *)
(* puts layers around doors, tool after tool, and stops where registering  *)
(* a tool raises.  A call passes the layers on its way, each of which has  *)
(* it judged by the pipeline; what the pipeline decides is arbitrary here  *)
(* (see GuardedCall for the local one, RemoteService for the remote one).  *)
(***************************************************************************)
EXTENDS Naturals, Sequences

CONSTANTS
    Configs,         \* the frameworks and guards looked at, see ConfigSpace
    MaxInstalls      \* bound on the installs started

Frameworks == {"autogen", "autogenHook", "langchain", "openai", "mapping",
               "claude", "dify"}
\* "mapping": the dict registries of AutoGen 0.2 (function_map), OpenClaw,
\* ToolMiddleware and OpenAI agents.

\* The tools of a framework.  A shape is named for the class of the tool.
ShapesOf ==
    [autogen |-> {"FunctionTool", "BaseTool", "callable", "coroutine"},
     autogenHook |-> {"callable", "coroutine", "added"},
     langchain |-> {"StructuredTool", "AsyncTool", "DuckTool"},
     openai |-> {"InvokeTool", "callable", "coroutine"},
     mapping |-> {"callable", "coroutine"},
     claude |-> {"McpTool", "Builtin"}, dify |-> {"App"}]

ConfigSpace ==
    [framework : Frameworks,
     tools : Seq(UNION {ShapesOf[f] : f \in Frameworks}),  \* in their container's order
     remote : BOOLEAN,               \* Guard(remote_url=...)
     mode : {"enforce", "monitor", "dry_run"}]

ASSUME AdapterAssumption ==
    /\ \A g \in Configs :
           g \in ConfigSpace /\ \A i \in DOMAIN g.tools : g.tools[i] \in ShapesOf[g.framework]
    /\ MaxInstalls \in Nat

VARIABLES
    config,          \* chosen once
    session,         \* of Guard.start: "none", "open" or "ended"
    layers,          \* per tool and door, the guards around it, outermost first
    patched,         \* the tools with __agentguard_patched__
    registry,        \* the tools in Guard.registry
    hooked,          \* register_function is patched
    present,         \* the tools the framework knows
    install,         \* the install under way, and what became of those before
    call             \* the call under way

vars == <<config, session, layers, patched, registry, hooked, present,
          install, call>>
wrapping == <<layers, patched, registry, hooked, present>>

-----------------------------------------------------------------------------

Tools == DOMAIN config.tools
Shape(t) == config.tools[t]

Doors == {"func", "coroutine", "invoke", "run_json", "on_invoke_tool", "slot",
          "handler", "hook", "stream"}

\* The attributes that hold the callables of a tool.
DoorsOf ==
    [FunctionTool |-> {"func", "run_json"}, BaseTool |-> {"run_json"},
     StructuredTool |-> {"func", "invoke"},
     AsyncTool |-> {"func", "coroutine", "invoke"}, DuckTool |-> {"invoke"},
     InvokeTool |-> {"on_invoke_tool"}, callable |-> {"slot"},
     coroutine |-> {"slot"}, added |-> {"slot"}, McpTool |-> {"handler"},
     Builtin |-> {"hook"}, App |-> {"stream"}]

\* The ways a framework takes through the doors of a tool to its function.
Ways(shape) ==
    CASE shape = "FunctionTool" -> {<<"run_json", "func">>}
      [] shape = "StructuredTool" -> {<<"invoke", "func">>}
      [] shape = "AsyncTool" -> {<<"invoke", "func">>, <<"coroutine">>}
      [] OTHER -> {<<door>> : door \in DoorsOf[shape]}

\* __agentguard__
Guarded(t, door) == layers[t][door] # <<>>
Has(t, door) == door \in DoorsOf[Shape(t)]
Around(lays, t, door, layer) ==
    [lays EXCEPT ![t][door] = <<layer>> \o @]

\* wrap_tool
Wrapper(t) == IF Shape(t) = "coroutine" THEN "async_wrapper" ELSE "wrapper"

Idle == [at |-> "idle", tool |-> 0, todo |-> <<>>, judged |-> <<>>,
         args |-> "asked", raised |-> FALSE, stop |-> FALSE, ran |-> FALSE]

Init ==
    /\ config \in Configs
    /\ session = "none"
    /\ layers = [t \in Tools |-> [door \in Doors |-> <<>>]]
    /\ patched = {} /\ registry = {} /\ hooked = FALSE
    /\ present = {t \in Tools : Shape(t) # "added"}
    /\ install = [next |-> 0, begun |-> 0, ended |-> 0, raised |-> 0]
    /\ call = Idle

-----------------------------------------------------------------------------
(* Sessions.                                                               *)

\* Guard.start
Start ==
    /\ session = "none"
    /\ session' = "open"
    /\ UNCHANGED <<config, wrapping, install, call>>

\* Guard.end_session
End ==
    /\ session = "open"
    /\ session' = "ended"
    /\ UNCHANGED <<config, wrapping, install, call>>

\* _record_tool_registration: a remote guard raises without a session, and
\* where __agentguard__ is not a dict, after it has put the tool into registry.
Registers(t) ==
    config.remote => session = "open" /\ Shape(t) # "McpTool"

-----------------------------------------------------------------------------
(* install()                                                               *)

\* attach_*: an install begins.  Dify's wraps the streams of the app again.
Attach ==
    /\ install.next = 0 /\ install.begun < MaxInstalls
    /\ call.at = "idle"
    /\ install' = [install EXCEPT !.next = 1, !.begun = @ + 1]
    /\ UNCHANGED <<config, session, wrapping, call>>

\* What becomes of the install once a tool is done with.
Advance(ok) ==
    install' = IF ~ok THEN [install EXCEPT !.next = 0, !.raised = @ + 1]
               ELSE [install EXCEPT !.next = @ + 1]

\* A door is wrapped, the tool is registered, and the install goes on.
Wrap(t, door, layer) ==
    /\ layers' = Around(layers, t, door, layer)
    /\ registry' = registry \cup {t}
    /\ Advance(Registers(t))

Skip == UNCHANGED <<layers, patched, registry>> /\ Advance(TRUE)

\* _patch_tools_list, _patch_run_json: func or _func if it is not guarded,
\* else run_json, else the slot of a bare callable; __agentguard_patched__ is
\* set after the registration of a function, and before that of run_json.
PatchAutogen(t) ==
    \/ /\ t \in patched
       /\ Skip
    \/ /\ t \notin patched /\ Has(t, "func") /\ ~Guarded(t, "func")
       /\ Wrap(t, "func", Wrapper(t))
       /\ patched' = IF Registers(t) THEN patched \cup {t} ELSE patched
    \/ /\ t \notin patched /\ Has(t, "run_json")
       /\ Has(t, "func") => Guarded(t, "func")
       /\ Wrap(t, "run_json", "guarded_run_json")
       /\ patched' = patched \cup {t}
    \/ /\ t \notin patched /\ Has(t, "slot")
       /\ IF Guarded(t, "slot") THEN Skip
          ELSE Wrap(t, "slot", Wrapper(t)) /\ UNCHANGED patched

\* Mutant: invoke is wrapped although func was in this very install.
PatchLangChain_NoElse(t) ==
    LET funcToo == ~Guarded(t, "func") /\ Has(t, "func")
        sync == IF funcToo THEN Around(layers, t, "func", "wrapper") ELSE layers
    IN  /\ layers' = IF Guarded(t, "invoke") THEN sync
                     ELSE Around(sync, t, "invoke", "wrapper")
        /\ registry' = registry \cup {t}
        /\ Advance(Registers(t))
        /\ UNCHANGED patched

\* _patch_tool: func, then coroutine, and invoke where neither was wrapped now.
PatchLangChain(t) ==
    LET sync == Has(t, "func") /\ ~Guarded(t, "func")
        async == Has(t, "coroutine") /\ ~Guarded(t, "coroutine")
        one == IF sync THEN Around(layers, t, "func", "wrapper") ELSE layers
    IN  \/ /\ sync \/ async
           /\ layers' = IF async /\ (sync => Registers(t))
                        THEN Around(one, t, "coroutine", "async_wrapper")
                        ELSE one
           /\ registry' = registry \cup {t}
           /\ Advance(Registers(t))
           /\ UNCHANGED patched
        \/ /\ ~sync /\ ~async
           /\ IF Guarded(t, "invoke") THEN Skip
              ELSE Wrap(t, "invoke", "wrapper") /\ UNCHANGED patched

\* OpenAIAgentsAdapter.install on a list: on_invoke_tool is replaced; a bare
\* callable is wrapped and registered, and the list keeps the callable.
PatchOpenAI(t) ==
    \/ /\ Has(t, "on_invoke_tool")
       /\ IF Guarded(t, "on_invoke_tool") THEN Skip
          ELSE Wrap(t, "on_invoke_tool", "guarded_invoke") /\ UNCHANGED patched
    \/ /\ Has(t, "slot")
       /\ registry' = registry \cup {t}
       /\ Advance(Registers(t))
       /\ UNCHANGED <<layers, patched>>

\* The entry of a dict is replaced by the wrapped callable.
PatchMapping(t) ==
    IF Guarded(t, "slot") THEN Skip
    ELSE Wrap(t, "slot", Wrapper(t)) /\ UNCHANGED patched

\* _patch_mcp_tool
PatchMcp(t) ==
    /\ Has(t, "handler")
    /\ IF Guarded(t, "handler") THEN Skip
       ELSE Wrap(t, "handler", "guarded") /\ UNCHANGED patched

\* _inject_pretooluse_hook: another hook every time.
InjectHook(t) ==
    /\ Has(t, "hook")
    /\ layers' = Around(layers, t, "hook", "guard_pretooluse")
    /\ Advance(TRUE)
    /\ UNCHANGED <<patched, registry>>

\* DifyAdapter._wrap_app
PatchDify(t) ==
    /\ layers' = Around(layers, t, "stream", "observer")
    /\ Advance(TRUE)
    /\ UNCHANGED <<patched, registry>>

\* The next tool of the container.
PatchNext ==
    /\ install.next \in Tools
    /\ LET t == install.next IN
       \/ config.framework = "autogen" /\ PatchAutogen(t)
       \/ config.framework = "langchain" /\ PatchLangChain(t)
       \/ config.framework = "openai" /\ PatchOpenAI(t)
       \/ config.framework = "mapping" /\ PatchMapping(t)
       \/ config.framework = "claude" /\ (PatchMcp(t) \/ InjectHook(t))
       \/ config.framework = "dify" /\ PatchDify(t)
    /\ UNCHANGED <<config, session, hooked, present, call>>

\* _patch_register_function
PatchRegister ==
    /\ config.framework = "autogenHook" /\ install.next = 1
    /\ hooked' = TRUE
    /\ install' = [install EXCEPT !.next = 0, !.ended = @ + 1]
    /\ UNCHANGED <<config, session, layers, patched, registry, present, call>>

\* install() returns.
Attached ==
    /\ install.next # 0 /\ install.next \notin Tools
    /\ install' = [install EXCEPT !.next = 0, !.ended = @ + 1]
    /\ UNCHANGED <<config, session, wrapping, call>>

\* The framework's register_function, through the patched one if there is one:
\* where the registration raises, the framework does not get to know the tool.
AddFunction(t) ==
    /\ t \notin present /\ call.at = "idle" /\ install.next = 0
    /\ \/ /\ hooked
          /\ registry' = registry \cup {t}
          /\ IF Registers(t)
             THEN /\ layers' = Around(layers, t, "slot", "wrapper")
                  /\ present' = present \cup {t}
             ELSE UNCHANGED <<layers, present>>
       \/ /\ ~hooked
          /\ present' = present \cup {t}
          /\ UNCHANGED <<layers, registry>>
    /\ UNCHANGED <<config, session, patched, hooked, install, call>>

-----------------------------------------------------------------------------
(* What a layer makes of a decision.                                       *)

\* Decisions: the obligations of one mask arguments, rewrite the tool by a
\* profile or limit it; or there are none.
Decisions ==
    [action : {"ALLOW", "LLM_CHECK"}, obliges : {"nothing", "mask", "limit"}]
    \cup [action : {"DENY", "HUMAN_CHECK"}, obliges : {"nothing"}]
    \cup [action : {"DEGRADE"}, obliges : {"profile", "mask"}]

\* What the arguments are after apply_rewrites.
Rewritten(d) == IF d.obliges \in {"mask", "profile"} THEN "rewritten" ELSE "asked"

\* The arguments after _collect_rewritten_args: the masked fields alone.
Collected(d) == IF d.obliges = "mask" THEN "stripped" ELSE "asked"

\* The mode that an adapter sees: only RemotePipeline has the attribute.
SeenMode == IF config.remote THEN config.mode ELSE "enforce"
Lenient == SeenMode \in {"monitor", "dry_run"}

\* Refusals by check_rate_limit and check_require_target_in.
Limits(d) == IF d.obliges = "limit" THEN {"refused"} ELSE {}

\* wrapper: Pipeline.guarded_call (as in GuardedCall).
Enforcer(d) ==
    CASE config.mode = "monitor" -> {"asked"}
      [] config.mode = "dry_run" -> {"dryRun"}
      [] config.mode = "enforce" /\ d.action = "ALLOW" -> {Rewritten(d)} \cup Limits(d)
      [] config.mode = "enforce" /\ d.action = "DENY" -> {"refused"}
      [] OTHER -> {"asked", Rewritten(d), "refused", "pending"}

\* Mutant: the mode is looked at only where nothing else stops the call.
RemoteCall_ModeLast(d) ==
    CASE d.action \in {"LLM_CHECK", "HUMAN_CHECK"} -> {"pending"}
      [] d.action = "DENY" -> {"refused"}
      [] d.action = "DEGRADE" -> {Rewritten(d)}
      [] d.action = "ALLOW" -> {"asked"}

\* wrapper: RemotePipeline.guarded_call
RemoteCall(d) ==
    CASE d.action = "LLM_CHECK" -> {"pending"}
      [] d.action # "LLM_CHECK" /\ config.mode = "monitor" -> {"asked"}
      [] config.mode # "monitor" /\ d.action = "DENY" -> {"refused"}
      [] config.mode # "monitor" /\ d.action = "HUMAN_CHECK" -> {"pending"}
      [] config.mode # "monitor" /\ d.action = "DEGRADE" -> {Rewritten(d)}
      [] config.mode # "monitor" /\ d.action = "ALLOW" -> {"asked"}

\* Mutant: only a DEGRADE is rewritten.
AsyncWrapper_DegradeOnly(d) ==
    CASE SeenMode = "dry_run" -> {"dryRun"}
      [] SeenMode = "enforce" /\ d.action = "DENY" -> {"refused"}
      [] SeenMode = "enforce" /\ d.action = "HUMAN_CHECK" -> {"pending"}
      [] d.action = "DEGRADE" /\ SeenMode # "dry_run" -> {Rewritten(d)}
      [] d.action \in {"ALLOW", "LLM_CHECK"} /\ SeenMode # "dry_run" ->
             {"asked"} \cup Limits(d)
      [] OTHER -> {"asked"}

\* async_wrapper: the obligations count in monitor mode, too.
AsyncWrapper(d) ==
    CASE SeenMode = "dry_run" -> {"dryRun"}
      [] SeenMode = "enforce" /\ d.action = "DENY" -> {"refused"}
      [] SeenMode = "enforce" /\ d.action = "HUMAN_CHECK" -> {"pending"}
      [] SeenMode = "enforce" /\ d.action \notin {"DENY", "HUMAN_CHECK"} ->
             {Rewritten(d)} \cup Limits(d)
      [] SeenMode = "monitor" -> {Rewritten(d)}

\* Mutant: only HUMAN_CHECK is looked for.
GuardedRunJson_NoDeny(d) ==
    IF ~Lenient /\ d.action = "HUMAN_CHECK" THEN {"pending"} ELSE {"asked"}

\* _guarded_run_json
GuardedRunJson(d) ==
    CASE ~Lenient /\ d.action = "DENY" -> {"refused"}
      [] ~Lenient /\ d.action = "HUMAN_CHECK" -> {"pending"}
      [] OTHER -> {"asked"}

\* guarded_invoke
GuardedInvoke(d) ==
    CASE ~Lenient /\ d.action = "DENY" -> {"refused"}
      [] ~Lenient /\ d.action = "HUMAN_CHECK" -> {"pending"}
      [] ~Lenient /\ d.action \notin {"DENY", "HUMAN_CHECK"} -> {Rewritten(d)}
      [] Lenient -> {"asked"}

\* guarded, of an MCP tool: _apply_decision_or_raise knows no mode.
McpGuarded(d) ==
    CASE d.action = "DENY" -> {"refused"}
      [] d.action \in {"HUMAN_CHECK", "LLM_CHECK"} -> {"pending"}
      [] OTHER -> {Collected(d)}

\* guard_pretooluse: "ask" leaves it to the permission prompt of Claude Code.
GuardPreToolUse(d) ==
    CASE d.action = "DENY" -> {"refused"}
      [] d.action \in {"HUMAN_CHECK", "LLM_CHECK"} -> {"pending", "asked"}
      [] OTHER -> {Collected(d)}

Lets(layer, d) ==
    CASE layer = "wrapper" /\ ~config.remote -> Enforcer(d)
      [] layer = "wrapper" /\ config.remote -> RemoteCall(d)
      [] layer = "async_wrapper" -> AsyncWrapper(d)
      [] layer = "guarded_run_json" -> GuardedRunJson(d)
      [] layer = "guarded_invoke" -> GuardedInvoke(d)
      [] layer = "guarded" -> McpGuarded(d)
      [] layer = "guard_pretooluse" -> GuardPreToolUse(d)

\* What ends a call before its tool: DecisionDenied, HumanApprovalPending and
\* the report of a dry run.
Stopping == {"refused", "pending", "dryRun"}

-----------------------------------------------------------------------------
(* Calls, one at a time.                                                   *)

\* The layers on a way, outermost first.
OnWay(t, way) ==
    layers[t][way[1]] \o IF Len(way) = 2 THEN layers[t][way[2]] ELSE <<>>

\* The agent calls a tool.
Call(t) ==
    /\ call.at = "idle" /\ install.next = 0 /\ t \in present
    /\ \E way \in Ways(Shape(t)) :
           call' = [Idle EXCEPT !.at = IF Shape(t) = "App" THEN "streaming"
                                                           ELSE "layers",
                                !.tool = t, !.todo = OnWay(t, way)]
    /\ UNCHANGED <<config, session, wrapping, install>>

\* The next layer has the call judged, and does what it makes of the decision.
Judge ==
    /\ call.at = "layers" /\ call.todo # <<>>
    /\ \E d \in Decisions : \E effect \in Lets(Head(call.todo), d) :
           call' = [call EXCEPT
                       !.judged = Append(@, [layer |-> Head(call.todo),
                                             decision |-> d]),
                       !.todo = Tail(@),
                       !.at = IF effect \in Stopping THEN effect ELSE @,
                       !.args = IF effect \in Stopping \cup {"asked"}
                                THEN @ ELSE effect]
    /\ UNCHANGED <<config, session, wrapping, install>>

\* handle_attempt raises: async_wrapper, guarded_invoke (no pipeline has an
\* attribute fail_open) and the hook go on; the others let the call fail.
JudgeRaises ==
    /\ call.at = "layers" /\ call.todo # <<>>
    /\ call' = IF Head(call.todo) \in {"async_wrapper", "guarded_invoke",
                                       "guard_pretooluse"}
               THEN [call EXCEPT !.raised = TRUE, !.todo = Tail(@)]
               ELSE [call EXCEPT !.raised = TRUE, !.at = "failed"]
    /\ UNCHANGED <<config, session, wrapping, install>>

\* No layer is left, and the function of the tool runs.
Run ==
    /\ call.at = "layers" /\ call.todo = <<>>
    /\ call' = [call EXCEPT !.at = "ran", !.ran = TRUE]
    /\ UNCHANGED <<config, session, wrapping, install>>

\* The Dify server runs the tool, whatever has been observed of it, unless a
\* stop_message was there first.
RunRemotely ==
    /\ call.at = "streaming" /\ ~call.ran
    /\ call' = [call EXCEPT !.ran = TRUE]
    /\ UNCHANGED <<config, session, wrapping, install>>

\* _observe: handle_attempt on an event of the stream, whose exceptions count
\* for nothing; _maybe_stop_message where the app, the task and the user allow.
Observe ==
    /\ call.at = "streaming" /\ call.todo # <<>>
    /\ \/ \E d \in Decisions, able \in BOOLEAN :
              call' = [call EXCEPT
                          !.todo = Tail(@),
                          !.judged = Append(@, [layer |-> "observer",
                                                decision |-> d]),
                          !.stop = \/ @
                                   \/ /\ d.action \in {"DENY", "HUMAN_CHECK"}
                                      /\ config.mode = "enforce" /\ able]
       \/ call' = [call EXCEPT !.raised = TRUE, !.todo = Tail(@)]
    /\ UNCHANGED <<config, session, wrapping, install>>

\* The task of stop_message gets through.
Stop ==
    /\ call.at = "streaming" /\ call.stop
    /\ call' = [call EXCEPT !.at = IF call.ran THEN "ran" ELSE "stopped"]
    /\ UNCHANGED <<config, session, wrapping, install>>

\* The stream ends.
StreamEnds ==
    /\ call.at = "streaming" /\ call.todo = <<>> /\ call.ran
    /\ call' = [call EXCEPT !.at = "ran"]
    /\ UNCHANGED <<config, session, wrapping, install>>

\* The next call may come.
Over ==
    /\ call.at \notin {"idle", "layers", "streaming"}
    /\ call' = Idle
    /\ UNCHANGED <<config, session, wrapping, install>>

Next ==
    \/ Start \/ End
    \/ Attach \/ PatchNext \/ PatchRegister \/ Attached
    \/ \E t \in Tools : AddFunction(t) \/ Call(t)
    \/ Judge \/ JudgeRaises \/ Run
    \/ RunRemotely \/ Observe \/ Stop \/ StreamEnds
    \/ Over

Spec == Init /\ [][Next]_vars

-----------------------------------------------------------------------------
(* Properties                                                              *)

Judged(action, layer) ==
    \E i \in DOMAIN call.judged : /\ call.judged[i].layer = layer
                                  /\ call.judged[i].decision.action = action
Ran == call.at = "ran"

\* Where reviews are left out: by async_wrapper, run_json and on_invoke_tool
\* those of a language model; by the prompt of Claude Code they are answered,
\* by a local wrapper they are held (GuardedCall); Dify is only watched.
Unreviewed ==
    [LLM_CHECK |-> {"async_wrapper", "guarded_run_json", "guarded_invoke"},
     HUMAN_CHECK |-> {}]
Elsewhere == {"guard_pretooluse", "observer"}
                 \cup (IF config.remote THEN {} ELSE {"wrapper"})

\* In enforce mode, whichever adapter guards a tool and however often: a call
\* that any of its layers has seen denied does not run, unless its tool runs at
\* Dify, and one that is to be reviewed runs only where reviews are held by
\* somebody else or by nobody (install and the guards of every adapter).
VerdictsHold ==
    config.mode = "enforce" /\ Ran =>
        \A layer \in {call.judged[i].layer : i \in DOMAIN call.judged} :
            /\ Judged("DENY", layer) => layer = "observer"
            /\ \A review \in DOMAIN Unreviewed :
                   Judged(review, layer) =>
                       layer \in Unreviewed[review] \cup Elsewhere

\* A guard in monitor mode stops no call, except where an adapter has no mode
\* to look at: the guards for MCP tools and hooks; every asynchronous guard of
\* a local pipeline, which has no attribute `mode`; and a remote LLM_CHECK.
MonitorOnlyWatches ==
    config.mode = "monitor" /\ call.at \in {"refused", "pending"} =>
        LET last == call.judged[Len(call.judged)] IN
        \/ last.layer \in {"guarded", "guard_pretooluse"}
        \/ ~config.remote /\ last.layer # "wrapper"
        \/ last.layer = "wrapper" /\ last.decision.action = "LLM_CHECK"

\* What the tool is called with, in enforce mode: where an obligation masks an
\* argument the arguments asked for do not get through, except past run_json, a
\* wrapper whose remote decision is ALLOW (or whose review timed out), or Dify;
\* and only the guards of Claude lose the arguments that were not masked.
ArgumentsExplained ==
    config.mode = "enforce" /\ Ran =>
        /\ call.args = "stripped" =>
               \E i \in DOMAIN call.judged :
                   call.judged[i].layer \in {"guarded", "guard_pretooluse"}
        /\ call.args = "asked" =>
               \A i \in DOMAIN call.judged :
                   LET layer == call.judged[i].layer
                       d == call.judged[i].decision
                   IN  d.obliges = "mask" =>
                           \/ layer \in {"guarded_run_json", "observer"}
                           \/ layer = "wrapper" /\ config.remote
                               /\ d.action = "ALLOW"
                           \/ layer = "wrapper" /\ ~config.remote
                               /\ d.action # "ALLOW"
                           \/ layer = "guard_pretooluse"
                               /\ d.action = "LLM_CHECK"

\* The shapes for which another install adds another guard.
Rewrapped == {"StructuredTool", "AsyncTool", "Builtin", "App"}

\* Once an install has returned, every way to every tool leads through a guard,
\* and through one only, whatever installs failed before it or follow it:
\* except a callable in OpenAI's list, which stays as it is, a function AutoGen
\* knew before, a tool whose guards another install doubles, and an AutoGen
\* tool whose first registration failed (install, _record_tool_registration).
GuardedOnce ==
    install.ended > 0 /\ install.next = 0 =>
        \A t \in present : \A way \in Ways(Shape(t)) :
            LET guards == Len(OnWay(t, way)) IN
            /\ guards = 0 => \/ config.framework = "openai" /\ Has(t, "slot")
                             \/ config.framework = "autogenHook"
            /\ guards > 1 => \/ Shape(t) \in Rewrapped /\ install.begun > 1
                             \/ /\ Shape(t) = "FunctionTool"
                                /\ install.raised > 0

=============================================================================
