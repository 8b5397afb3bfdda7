# A verification development for AIDR-SDK (agentguard)

TLA+ models of the parts of `src/agentguard` that decide, hold, run and record
an agent's tool calls, checked with TLC on small instances and, for every safety
property but the policy language's, proved with TLAPS for every instance.

Paths below are relative to `src/agentguard/` unless they start with `src/`.

## 1. The system

A tool an agent may call is wrapped by a `Guard`. Before the tool runs, the call
becomes a `RuntimeEvent`; it is enriched with what the session did before, judged
by the rules that apply to the agent, recorded, and then enforced: run, refused,
rewritten, sent to a language model or held for a human. Two runtimes do this:
the synchronous `Pipeline` (`runtime/dispatcher.py`), in the thread of the
caller, and the asynchronous `AgentGuardRuntime` (`runtime/server.py`), a chain of
actors on one event loop behind the HTTP server. They share the state cache, the
graph writer, the audit log, the approval bridge and the rule router.

### Inventory

| Component | State | Operations | Talks to | What is hard | What makes it correct |
|---|---|---|---|---|---|
| **Approval bridge** `review/tickets.py`, console `review/api.py`, `runtime/loops/review_loop.py`, `degrade/planner.py:393-425` | ticket table; per ticket status, author of the verdict, note, event | enqueue, wait, resolve, pending; the loop's tick | enforcer threads wait; API threads and the ReviewLoop resolve | the lock covers the table only; verdict, timeout and several resolvers race | nothing runs as approved without an approval; an uncontested verdict arrives; nobody waits for ever |
| **Actor runtime** `runtime/server.py`, `runtime/event_bus.py`, `runtime/actors/`, `runtime/loops/` | ingress queue, futures, mailboxes, subscriptions, running flags | start, stop, submit, one handler per actor | publishes on topics; writes trace, audit log, graph, tickets | abandoned calls, swallowed errors, stop and restart in the middle of a call | the trace is in order and written before the answer; what was answered is recorded; every submit ends |
| **Rule router and Guard rule management** `policy/routing.py`, `policy/evaluator/matcher.py:188-196`, `sdk/guard.py:397-603`, `policy/rules/registry.py` | packs, bindings, cached list per agent, indexed view per agent | upsert, remove, bind, unbind, add, remove and reload rules; lookup | evaluations read; API, watcher and dynamic updater write | two caches, methods that are atomic and sequences of them that are not | a cached list is what the catalogue says; built-in rules always apply |
| **Evaluator** `policy/evaluator/` | the views | evaluate | router | rules that raise are skipped; priorities; merged obligations | the strictest action that matched wins |
| **Enforcer** `degrade/` | rate-limit windows | apply, allow, degrade, llm_check, human_check | approval bridge, language model, the tool | rewriting and revalidation nest with approvals; windows are shared by threads | a call runs only as judged; limits hold |
| **Pipeline and enrichment** `runtime/dispatcher.py`, `runtime/enrichment.py` | session signals | handle_attempt, guarded_call, handle_result | everything above | several threads of one session between their reads and appends | every attempt is recorded once and before the tool runs |
| **State cache** `storage/session_store.py`, `storage/redis_state_cache.py` | capped lists, sets, traces per session | append, read, back-fill of results | enrichment, graph writer | caps; a result back-filled by tool name | results are those of the call they stand by |
| **Audit** `audit/logger.py`, `runtime/loops/audit_loop.py` | ring buffer, dropped counter | log, recent, tick | both runtimes, dynamic updater | eviction before the drain | a drop is counted |
| **Graph writer** `graph/builder.py`, `storage/graph_store.py` | bounded queue, worker | submit, flush, close | both runtimes | full queue, submits after close, failing writes | what is accepted is written or known to be lost; histories of a session agree |
| **Slow path** `policy/rules/dynamic_store.py`, `runtime/loops/dynamic_rule_loop.py` | loop threads, hooks, cooldowns | submit, hook, synthesise, apply, close | audit log, Guard | runs behind the calls it learns from; a loop that has not come up is replaced | a risky decision is considered, at most once per cooldown |
| **Rule administration** `api/routes.py:475-1010`, `policy/rules/loaders.py`, `policy/rules/pack_loader.py`, `runtime/watchers.py`, `storage/postgres.py` | files and the snapshot of them, the remembered source, packs with their text, stored packs | reload, watch, create and delete agent rules, put and remove packs, restart | Guard, actor runtime, database | reads and replacements of a pack by several requests and reloads, none under a lock; four copies of the rules; configs that fail half-way | a rule is lost only where somebody meant it; files, memory, database and actors agree |
| **Policy language** `policy/dsl/` | none | parse, validate, compile, match traces | evaluator | trace patterns with gaps; predicates that raise | a text means what it says, and what can never fire is reported |
| **SDK wrappers** `sdk/wrappers.py`, `sdk/adapters/` | guards on the tools, registry, session | install, register, judge, run | frameworks, Pipeline, RemotePipeline | eight enforcement paths; installs that are repeated or fail half-way | a denied call does not run, whichever door it takes; one guard on every way |
| **Remote mode** `sdk/client.py`, `sdk/context.py`, `sdk/guard.py:54-115`, `api/routes.py:135-245, 425-471`, `storage/tool_catalog_store.py`, `llm/backend.py` | session, catalog, requests under way | evaluate, register a tool, patch its labels, review | HTTP, language model | timeouts, restarts, labels read and written back | a call runs only for a reason; a label an operator gives counts |
| Labels, telemetry, data models, frontend, examples | – | – | – | – | left out, see section 7 |

`PROJECT.json` lists every hazard at its line, with the properties that watch it
or the reason why none does yet.

## 2. Modules

| Module | Models | Composed of |
|---|---|---|
| `ApprovalBridge` | tickets, reviewers, ReviewLoop, waiting enforcer | bridge, `resolve` calls, loop and `_human_check` interleaved |
| `RateLimiter` | the rate limits an allowed call asks, with the clock read before the lock | threads interleaved in `check_rate_limit` |
| `EnforcerMC` | instances of the two for TLC | `ApprovalBridge`, `RateLimiter`, one at a time |
| `EnforcerProofs` | theorems about both | |
| `ActorRuntime` | the actor chain with start and stop | ingress, event bus, eight actors, DecisionLoop, DynamicRuleLoop, trace, sinks |
| `ActorRuntimeProofs` | theorems about it | |
| `RuleRouter` | packs, bindings, both caches, the Guard's methods | router, evaluator views, managing threads |
| `RuleRouterMC` | its instances for TLC | |
| `RuleRouterProofs` | theorems about it | |
| `GuardedCall` | `Pipeline`, `Enforcer` and both wrappers, for the calls of one session | pipeline, enforcer, trace, recorders; an approval's outcome is `ApprovalBridge`'s |
| `GuardedCallMC` | its instances for TLC | |
| `GuardedCallProofs` | theorems about it | |
| `CallLifecycle` | what every guarded call promises, abstractly | implemented by `GuardedCall` |
| `RuleSyntax` | tokens to rules: the recursive descent of `policy/dsl/parser.py` | |
| `RuleSemantics` | what a rule means: predicates, builtins, trace patterns, features (`compiler.py`, `trace_pattern.py`, `policy/evaluator/`, `enrichment.py`) | `RuleSyntax` |
| `RuleChecker` | the diagnostics of `policy/dsl/validator.py` | `RuleSemantics` |
| `PolicyLanguage`, `PolicyLanguageMC` | a text checked, loaded and evaluated over the calls of a session | `RuleChecker` |
| `GraphWriter` | the bounded queue, its worker, the execution graph | |
| `AuditTrail` | the ring buffer and the AuditLoop | |
| `SlowPath` | SlowDispatcher and DynamicRuleUpdater | `AuditTrail` |
| `Recorders`, `RecordersMC` | calls of several threads on their way through all three, with `Guard.close`, `clear_session` and the stop of an actor runtime | `GraphWriter`, `SlowPath` |
| `RecordersProofs` | theorems about all four | |
| `RuleAdmin`, `RuleAdminMC` | files, watcher, rule endpoints, pack config, database, actor views | |
| `RuleAdminProofs` | theorems about it | |
| `ToolAdapters`, `ToolAdaptersMC` | the framework adapters: what they wrap and what each guard does | |
| `ToolAdaptersProofs` | theorems about it | |
| `RemoteService`, `RemoteServiceMC` | remote mode and the server's side of it | |
| `RemoteServiceProofs` | theorems about it | |

### `ApprovalBridge`

One step is one access of a shared field, because `InMemoryApprovalBridge._lock`
protects the dictionary and nothing in the tickets. `resolve` is `Claim` (the
check), `Rule` (the status), `Note` (action and note) and `Signal` (the event, and
`return True`); `wait` is `WakeUp` or `TimeOut`, `CheckPending` and `Expire`;
`_human_check` then reads the status twice, `JudgeApproved` and `JudgeDenied`.
`Tick` takes the loop's snapshot and `Visit` answers its tickets one by one.
Tickets outside `Blocking` are those of suspend mode and of `HumanReviewActor`,
which nobody waits for. `claims`, `told` and `timedOut` are history.

### `RateLimiter`

An allowed call goes through its limits in order. `ReadClock` is `now = time.time()`, which
stands outside the lock, so that a thread may be held up with an old time; `Grant` and
`Refuse` are what follows under the lock, the pruning included; `CheckTarget` is the check of
`require_target_in` that comes last and may deny a call whose slots are taken. The list of a
key is a set of slots: whose they are and the timestamp appended. The key is the session and the
rule's id, so that limits of one rule share a list and prune it, each by its own window.
`taken` (when a slot was appended) and `granted` (every slot there ever was) are history. The clock
is assumed to be monotone; `time.time()` is so unless it is set back.

### `ActorRuntime`

All of it runs on one event loop, so a step is a handler from one suspension to
the next; a mailbox is unbounded and `publish` never suspends on it, which makes
each handler one step. `Decide` is the whole of `DecisionActor.handle`: trace,
answer, then the topics. A message in a mailbox stays there when its caller gave up (`GiveUp`) and when the actor is stopped. `HandOn` is the fan-out actors; `Takes` says
what becomes of what they hand on: the graph writer may lose any event (a full queue, a failing
write), while the audit log and the approval bridge raise on one that cannot be dumped
(`Undumpable`), which the actor's loop only logs. `stop()` awaits one component after
the other: `StopBegin` clears the first one's flag, `StopNext` finishes the
component whose task ended and goes on to the next; `StopOrder` groups those
without a task. Rules are a choice among `Verdicts`; an evaluation may raise
(`PolicyFails`), so may the enrichment (`SessionFails`) and, with `TraceMayFail`,
the append to the trace. A time is a nondeterministic step. `order`, `known`,
`seen`, `late`, `verdict` and `counted` are history (the last one is
`DecisionLoop`'s total).

### `RuleRouter`

The router's methods run under an `RLock` and are one step, with two exceptions the
code has: `unbind` writes the binding store before it takes the lock (`Unbind`,
`Pop`), and a cache miss (`Miss`, `Merge`) is two steps so that such an unbind can
fall between its reads. A Guard method is one step for each router call it makes,
ended by `Invalidate` (`FastEvaluator.invalidate`). A rule is an id and a body, a
pack a function from ids to bodies, and merging lets the pack merged last win
(`Resolve`); `Rank` is the order of `sorted()` with the built-in pack first.
`raced` and `overtaken` are history: evaluations that read the rules before a
management call that has ended since, and agents whose view such an evaluation
stored.

### `GuardedCall`

Each call of a session runs in a thread of its own (`wrap_tool`'s `wrapper`,
`Pipeline.guarded_call`) or, when its tool is `async def`, in a task (`async_wrapper`,
which enforces by itself). `call[c]` is the frames of such a call: the event the
agent asked for, the event now judged or enforced, the judgements so far, the depth
of `_degrade`. A *form* is a tool name with arguments and a *rule* the outcome of an
evaluation: its action, and by `Rewrite` what its obligations make of a form. `Rank`
says that rewriting comes to an end; the depth limit is a constant.

`Begin` enters `handle_attempt`; `Evaluate` reads the trace; `AppendTrace` writes it;
`Record` is the three calls to `GraphWriter`, `SlowDispatcher` and `AuditLogWriter`
and the return (one step, because no call reads them). `Enforce` is `apply`'s
choice of a branch and `LlmReview`, `Suspend`, `HumanVerdict`, `HumanTimeout`, `Allow`
and `Degrade` are its branches; `Degrade` sends the rewritten call back to `Evaluate`
and `Rejudged` says how `_degrade` goes on after that, which is not what `apply` does
with the same decision. `Return`, `Raise`, `Backfill` and `Result` are the tool and
`guarded_call`'s `finally` clause. `EnforceCoroutine` is the second path. The local
`Pipeline` has neither the attribute `mode` nor `fail_open` for which `async_wrapper`
asks it, so a coroutine is enforced in monitor mode too, and runs when
`handle_attempt` raises (`AttemptRaises`; with Redis behind it, the state cache may).
The configuration is chosen at `Init`. `known` and `after` are history. The trace's
cap of 256 entries and session signals are left out; the rate limiter's windows are
`RateLimiter`'s: here a limit may refuse (`OverLimit`) or not.

`CallLifecycle` says what both paths promise: a call is judged, each judgement is
recorded before the tool runs, the tool runs once at most, and the result's record is
the last thing. The mapping `Phase` forgets where inside `apply` a call is; `bypass` and
`lax` are the calls of which the code promises less (coroutines, and all calls
over a state cache that raises).

### `RuleSyntax`, `RuleSemantics`, `RuleChecker`, `PolicyLanguage`

A text is a sequence of tokens; how the lexer cuts it is left out. Every method of the
parser is an operator from a position to a value and the next position, and an error is
position 0. A parsed condition is a tagged tuple, and `Holds` is what the compiled closure
answers: "yes", "no", or "raises", since `FastEvaluator` skips a rule whose predicate
raises. Trace patterns are the backtracking search's set of chains (`Chains`) with the
one it returns (`Chosen`). `PolicyLanguage` then is a small machine: `Check`, `Load`,
`Attempt` for each call, `Return` for a result, and `Write` for the graph writer's
thread, since the list of previous tools comes later than the trace. These modules are
recursive and stay with TLC.

### `GraphWriter`, `AuditTrail`, `SlowPath`, `Recorders`

`GraphWriter` has `submit`, which drops an event when the queue is full, the worker in
three steps (`Take`, the write, the push onto the list of previous tools) and the sentinel
of `close`, whose `put` waits while the queue is full. `unfinished` is the count that `flush` joins;
the list of previous tools keeps `RecentCap` entries (32), the trace `TraceCap` (256). `AuditTrail` names a record
by its position, so that eviction, `recent` and what the AuditLoop's sink has got can be
told apart. In `SlowPath` `submit` makes another loop whenever the last one is not yet
running; a hook is a coroutine that reads the audit log (`LookUp`), decides under the
updater's lock (`Judge`) and waits for the model (`Synthesized`). `Recorders` takes each
thread's calls through `ToGraph`, `ToSlowPath` and `LogAttempt` in the order of
`handle_attempt`, between any two of which the calls of other threads, of the same session too, may fall,
while `Close` goes through `Guard.close`, `ClearSession` empties the
caches of every session, and `ActorStops` is the `stop()` of a runtime made of the same Guard: its
actors close the dispatcher and put the sentinel, and the calls go on.

### `RuleAdmin`

A call of the Guard is one step here (`RuleRouter` has its locks), but for `reload_rules`; a
request is as many steps as it makes calls: `Create` and `Delete` read a pack's blocks, `Ensure`,
`BindOwn` and `Replace` bring them back, `Store` writes the database, `Sync` tells the actors. A rule
remembers the text it came in, because a pack without a text of its own is rebuilt from
those; `label` says that a pack's source is only a name for where its rules came from.

`Poll` is the RuleWatcher's look at the files, which updates its snapshot. Its `WatcherReload` and a
request's `Reload` then go through `reload_rules` side by side: `Read` makes the source the
user's and reads it, `Install` replaces the default pack by what was read, `Refuse` leaves it, and
`Installed` tells the actor runtime. The endpoint is `async`, so it shares the event loop with the policy
actor (`LoopFree`); the watcher has a thread. `PutConfig`, `ConfigPack` and `BindConfig` are a pack
config that is applied by request, and `ConfigRefused` and `BindingRaises` its two ends half-way, after which no
actor is told. `BuildView` and `KeepView` are the two halves of `FastEvaluator._view_for` in the policy actor,
between which endpoints in other threads may change rules and have views forgotten (`Forget`).

`Restart` boots (`Booted`) from files and pack config, stores each pack that has rules under the text its
source reads as, and loads over them what else the database has, which may be the default pack
once its file is empty or when the server is given a list of paths. `touched`, `overlapped`, `adrift`,
`unsynced`, `raced` and `missed` are history and name the reasons why two copies of the rules may differ.

### `ToolAdapters`

A tool has doors, the attributes that hold its callables, and a framework takes a way
through them; an adapter puts layers around doors, tool by tool (`PatchAutogen`,
`PatchLangChain`, `PatchOpenAI`, `PatchMcp`, `InjectHook`, `PatchDify`, `PatchMapping`,
`PatchRegister`), and an install ends where a registration raises (`Registers`). A call passes
the layers on its way, and each is a function from a decision to what it may do
(`Enforcer`, `RemoteCall`, `AsyncWrapper`, `GuardedRunJson`, `GuardedInvoke`, `McpGuarded`,
`GuardPreToolUse`); `JudgeRaises` is the failing pipeline. Dify runs its tools itself and
is only observed. The decision is any; the local enforcer's inside is `GuardedCall`'s, the
remote decision's is `RemoteService`'s.

### `RemoteService`

`Send`, `Evaluate`, `Review` and `Answered` are a request's way to the server, its
evaluation with the labels of the catalog, the language model's answer and the way back;
`GiveUp` is every reason for which the client decides by `fail_open`, and the server goes on
regardless. `evaluate` may itself raise, where the event is no JSON (`CannotSend`) or the answer breaks off
(`BreaksOff`): `guarded_call` fails then, and `async_wrapper` runs the tool (`Unheard`). `Register`, `FindTool` and `StoreTool` are the registration, whose read and
write of the catalog are two steps; `PatchLabels` is the operator and `Restart` loses a
catalog that is in memory. `Parse` and `Verdict` read the model's answer. `given`, `lost`
and a call's `gated` are history: the label an operator gave, whether something has undone
it, and whether a call was sent under a label that lets nothing through.

## 3. Runs

| Run | Instance | Shows |
|---|---|---|
| `Enforcer` | a ticket with a waiting, degradable call and one nobody waits for; a reviewer; the loop denies; timeouts degrade; three requests, three limits of two keys | what is approved and delivered; two liveness properties; no limit gives too much (155 000 states) |
| `ActorRuntime` | two calls of a session, allow or human check, one start and stop | the order of the trace, its visibility, shutdown, abandoned calls; what is recorded is what was answered (3.0 million states) |
| `ActorRuntimeLive` | one call that goes to review or is degraded, failing traces, two starts | what is answered is recorded; every call ends; a call is decided once per start (430 000 states) |
| `RuleRouter` | built-in, default and one bound pack, one rule in two versions, two managing threads, one evaluation | freshness of both caches (1.4 million states) |
| `GuardedCall` | two calls, three forms, six outcomes, five configurations | what runs, was permitted and judged first; trace and results; `CallLifecycle`; every call ends (400 000 states) |
| `PolicyLanguage` | every condition up to two operators deep; texts for actions that contend, chains, traces, histories, labels and malformed texts; sessions of three calls | a text reads back; the strictest rule decides; which chain is bound; what can never fire is reported |
| `PolicyLanguageChain` | the documentation's chain | **violated**: `ChainIsFound` |
| `Recorders` | two threads of a session with two calls and one, a queue of one, a trace and a list of two, a store that raises, close, clear and a runtime's stop at any time | both histories of a session agree; flush (6.0 million states) |
| `RecordersSlow` | one call each, a hook with a cooldown, two loops, a ring buffer of two | one synthesis per cooldown; why a call is passed over (2.6 million states) |
| `RuleAdmin` | an agent, a named pack, a config of two packs, one of which may not compile, with a binding to a pack that may not be there; two requests and two edits, calls or restarts, three of all these; a database, a watcher, an actor runtime | files, memory, database and actors; no rule is lost unmeant (3.2 million states) |
| `ToolAdapters` | every framework with tools of each shape, local and remote, three modes, up to three installs | verdicts, modes and arguments through every guard; one guard on every way (160 000 states) |
| `RemoteService` | one call, two registrations, two agents, two patches, one switch of session, one restart, six guards and servers, one of them a coroutine's that fails closed | why a call runs; a gate holds (2.6 million states) |

### What the violation shows

**A chain that is not found** (`policy/dsl/trace_pattern.py:264-271`). Of all chains in the
session the search keeps the last one it completes, which is the tightest, and the
condition is asked of that one alone. `SecRead ->...?-> Sink` with the documented condition
does not fire on read, other call, send, because the chain that is kept binds the other
call; `docs/en/policies/dsl_basic_structure.md:526` says "A appears before B with zero or
more calls between them". `TightestChain` states which chain it is.

### Where the models follow the code against its words

These have no run of their own; the models do what the code does, and the property named
says how far it goes.

* Two threads that find a ticket pending are both told they resolved it
  (`review/tickets.py:65-71`, against the 404 of `api/routes.py:984`).
  `ExecutedOnlyOnApproval` still holds.
* `stop()` cancels an actor's task and forgets its mailbox (`runtime/actors/base.py:37`), so
  an answered decision may lack its audit record. So may one whose event cannot be dumped, since
  `_run_loop` swallows what `AuditLogWriter.log` raises; `AnsweredIsRecorded` shows there is no third way.
  The graph is promised nothing: its writer drops an event when its queue is full and swallows
  failing writes (`graph/builder.py:37-40, 56-61`).
* The list of previous tools and the trace of a session are not in one order: nothing locks
  `append_trace` and `submit` (`runtime/dispatcher.py:129-131`), and the list drops its oldest entry at 32, the
  trace at 256. `HistoriesAgree` says that only calls that overlapped may have changed places.
* After a second start `PolicyActor` is subscribed twice and decides every call twice
  (`policy_actor.py:54`). `DecidedOncePerStart` bounds it by the starts, and `RecordsAgree` says that up to the
  second start what is recorded of an answered call is what its caller was told.
* The stop of an actor runtime closes the graph writer and the dispatcher of a Guard that goes on
  (`runtime/actors/graph_actor.py:40`): nothing more is written, `flush` waits in vain, and the next call
  makes another loop. What holds all the same is `FlushedIsWritten`, `HistoriesAgree` and
  `OneSynthesisPerCooldown`.
* Limits of one rule keep their timestamps in one list, and the shorter window prunes what
  the longer one has to count (`degrade/transformers.py:78`): with `RATE_LIMIT(max=1, window="1s"),
  RATE_LIMIT(max=2, window="5s")` calls at 0, 2 and 4 s all pass, although
  `src/rules/00_dsl_examples.rules:214` says "Enforce a rolling call-rate limit (blocks when exceeded)".
  `RollingLimit` therefore speaks of the shortest window of a key (`SafeWindow`), less the time
  a thread is held up between the clock and the lock.
* An evaluator's view built before a change and stored after it stays out of date
  (`policy/evaluator/matcher.py:194`); `StaleViewsExplained` has the only ways.
* Of two concurrent additions to a pack one may be lost (`sdk/guard.py:416`); through the API,
  `AgentRulesSurvive` names when.
* A rewritten call that is then allowed runs without that decision's obligations
  (`degrade/planner.py:456`); `RunsAsPermitted` says which form runs.
* An LLM_CHECK is reviewed by nobody in `async_wrapper` (`sdk/wrappers.py:142`), AutoGen's
  `run_json` and OpenAI's `on_invoke_tool`; `VerdictsHold` shows these are all.
* No pipeline has an attribute `fail_open`, so an asynchronous guard whose pipeline raises
  runs the tool even with `Guard(fail_open=False)` (`wrappers.py:122`,
  `openai_agents.py:161`), although `sdk/guard.py:142-144` and `sdk/client.py:49-51` promise "strict fail-closed"
  for it. A remote one raises on an event that is no JSON and on an answer that breaks off
  (`client.py:76-88`): `RunsExplained` and `GatedCallsStop` name this exception (`LetUnheard`). The local one has no `mode` either, so such guards refuse in monitor mode. `MonitorOnlyWatches` lists what does.
* An MCP tool's guard hands on the masked fields alone (`claude_agent.py:361`):
  `ArgumentsExplained`.
* A remote guard that attaches to Claude tools raises after each of them, since their mark is no
  dict (`claude_agent.py:132`, `sdk/guard.py:736`); LangChain tools get a second guard on the
  next install: `GuardedOnce`.
* An inline reload replaces the remembered source even when it does not compile
  (`sdk/guard.py:531`), so that an empty one no longer reads the files that
  `api/routes.py:500` speaks of: `FilesFollowed` has `userSource.files`.
* Nothing locks `reload_rules` (`sdk/guard.py:527-543`): a request that has read the files before they changed
  may install them after the watcher's reload. After a restart on an emptied policy file the rules it had come back
  from the database (`storage/postgres.py:476-498`). `FilesFollowed` names both (`missed`).
* A pack config that fails half-way is answered 400 with some of its packs replaced and no actor told
  (`api/routes.py:662-669`), and a view of the policy actor that is built before it is told and kept after it stays
  (`policy/evaluator/matcher.py:194-195`): `ActorViewsExplained` names both (`unsynced`, `raced`).
* A label patched while the tool is being registered again may be undone
  (`api/routes.py:439-449`), and it counts only for the agent that registered the tool.

### Bounds, and why they are enough

Two tickets suffice because tickets share nothing but the loop's scan; what
interleaves on one ticket is a waiter, the loop and a reviewer, and the theorems
remove the bound on all three. Two events of one session are the least number
that can be out of order or overlap. One agent and one evaluation are enough for the router
because agents do not share cache entries; two managing threads are the least
number that interleave between router calls, and the theorems remove the bound.
Of the limits, two share a key with different windows and one stands alone; three requests are the
least that can overrun a limit in two ways, and the theorem removes the bounds. The
bridge and the limiter share no state and no property speaks of both, so `EnforcerMC` leaves
out how they interleave with one another.
`GuardedCall` has two calls because a result can only be mistaken for one other
call's; `c1` asks for a draft and `c2` for any form that degrades, so they may use one
tool or two. The forms degrade twice and `MaxRewriteDepth = 1`, so a call reaches the
limit and also ends before it; `HumanTimeout` starts `_degrade` again at depth 0. Its five
configurations are: block mode with timeouts that degrade; timeouts that allow,
with a coroutine and a state cache that raises; suspend mode; monitor mode, with a
coroutine; dry run.

`PolicyLanguage` looks at conditions two operators deep because precedence and nesting are
about one operator inside another, and at sessions of three calls because the longest
pattern has a gap of one between two; `TraceCap = 2` lets the trace forget. In `Recorders`
a queue of one is full while the worker holds another item, and three calls of two threads in one session
overrun a trace and a list of two and can overtake each other; in `RecordersSlow` a buffer of
two evicts a record before the hook looks, and `MaxLoops = 2` is the race of two loops. A runtime's stop is in `Recorders` only (`MaxStops = 0` in
`RecordersSlow` keeps it small): `CooldownHolds` proves the cooldown for any number of them.
In `ActorRuntimeLive` the second start is there for `EveryCallEnds` and `DecidedOncePerStart`;
`AnsweredIsRecorded` and the properties of `ActorRuntime` speak of the first one.
`RuleAdmin`'s two requests of two clients are the least that can overlap, of which one may be a reload that
meets the watcher's, and one pack of
each kind is enough because packs only meet where one wins (`Wins`). `MaxInAll = 3` of requests and others together
lets a change, a second one and what meets them happen; the theorems have no bound. The run's server is given one path
(`OnePath`); with a list the files' text is never stored, and the database may have the default pack at any boot. In `ToolAdapters` a third install follows
one that failed and one that returned. `RemoteService` has one call, since calls write
nothing that another one reads.

`MaxStarts`, `MaxStops`, `MaxLoops`, `MaxTime`, `MaxCalls`, `MaxRequests`, `MaxOthers`, `MaxInAll`, `MaxInstalls`,
`MaxPatches`, `MaxSwitches` and `MaxRestarts` are bounds that the code lacks. All
runs but `RuleRouter`'s end when calls, requests or bounds are used up, so they do not check for
deadlock; `RuleRouter`'s does.

## 4. Fairness

`ApprovalBridge`: a thread blocked in `Event.wait` has a timeout
(`approval_timeout_s` is a number) and threads are scheduled, so a waiter's next
step is weakly fair; the ReviewLoop sleeps `poll_interval_s` and catches every
exception of its tick, so its steps are too. Reviewers are not fair at all, not
even within a `resolve` they have begun. Time is not fair either: a ticket need not
grow old. `ActorRuntime`: the event loop resumes each task that has work, the timer
of `wait_for` fires, and a `stop()` that has begun goes on; nobody is obliged to
call `submit`, `start` or `stop`. `GuardedCall`: threads and tasks are scheduled, the
language model's client and the approval have timeouts; neither agent nor tool is
obliged to anything, so `EveryCallEnds` speaks of a call until its tool is running
and again from the tool's return. Weak fairness is enough everywhere: each step stays
enabled until it is taken or its purpose is gone. The other modules state safety only: what
they ask is which states and steps there may be, and a model, an operator or a
framework is obliged to nothing.

## 5. Proofs

TLAPS checks, for every value of the constants:

| Theorem | Says |
|---|---|
| `EnforcerProofs!TypeCorrect`, `ApprovalNeeded`, `VerdictDelivered`, `SettledRefuses` | `[]TypeOK`, `[]ExecutedOnlyOnApproval`, `[]VerdictReachesCaller`, `SettledTicketRefuses` |
| `EnforcerProofs!LimiterTypeCorrect`, `LimitsRoll`, `RefusalsHaveCause` | `[]LimiterTypeOK`, `[]RollingLimit`, `[]RefusedWithCause` |
| `ActorRuntimeProofs!TypeCorrect`, `ShutdownReleases`, `GivenUpIsSilent`, `TraceIsVisible`, `TraceIsInOrder` | `[]TypeOK`, `[]ShutdownReleasesCallers`, `GivenUpInTimeIsSilent`, `[]TraceVisible`, `[]TraceInOrder` |
| `ActorRuntimeProofs!DecidedOnce`, `RecordsDoAgree` | `[]DecidedOncePerStart`, `[]RecordsAgree` |
| `RuleRouterProofs!TypeCorrect`, `RouterCacheIsFresh`, `BuiltinAlwaysApplies`, `StaleViewsAreExplained` | `[]TypeOK`, `[]CacheFresh`, `[]BuiltinReachesEveryAgent`, `[]StaleViewsExplained` |
| `GuardedCallProofs!TypeCorrect`, `RefusalIsFinal`, `OnlyThePermittedRuns`, `ImplementsLifecycle` | `[]TypeOK`, `[]RefusedNeverRuns`, `[]RunsAsPermitted`, `CallsFollowLifecycle` |
| `GuardedCallProofs!PredecessorsAreSeen`, `ResultsAreExplained`, `ResultsDoArrive` | `[]PredecessorsSeen`, `[]ResultsExplained`, `[]ResultsArrive` |
| `RecordersProofs!TypeCorrect`, `HistoriesNeverDisagree`, `FlushWaits`, `CooldownHolds`, `MissesAreExplained` | `[]TypeOK`, `[]HistoriesAgree`, `[]FlushedIsWritten`, `[]OneSynthesisPerCooldown`, `PassedOverExplained` |
| `RuleAdminProofs!TypeCorrect`, `FilesAreFollowed`, `ViewsAreExplained`, `StoreIsFollowed`, `RulesSurvive` | `[]TypeOK`, `[]FilesFollowed`, `[]ActorViewsExplained`, `[]StoreFollows`, `AgentRulesSurvive` |
| `ToolAdaptersProofs!TypeCorrect`, `VerdictsAreKept`, `MonitorStopsNothing`, `ArgumentsAreExplained`, `ToolsAreGuardedOnce` | `[]TypeOK`, `[]VerdictsHold`, `[]MonitorOnlyWatches`, `[]ArgumentsExplained`, `[]GuardedOnce` |
| `RemoteServiceProofs!TypeCorrect`, `RunsAreExplained`, `GatedCallsAreStopped` | `[]TypeOK`, `[]RunsExplained`, `[]GatedCallsStop` |

The assumptions are the modules' own, each named where the constants are declared; TLC
evaluates all of them in every run of the module. They say what a constant may be:

* `BridgeAssumption`: policies the code accepts, and distinct threads.
* `LimiterAssumption`: maxima and windows are naturals, and each request asks a sequence of limits.
* `RuntimeAssumption`: attempts are events, verdicts are the five that `Decide` knows.
* `RouterAssumption`: an injective order of packs with the built-in one first.
* `CallAssumption`, `NothingAssumption`: rewrites that come to an end, and null values that
  are no call and no form.
* `GraphAssumption`, `AuditAssumption`, `SlowAssumption`, `CallerAssumption`: sizes and times
  are naturals, a rule is asked for every `EveryN > 0` decisions, calls are named by their thread and
  their number, the caps are not zero, and a runtime stops a natural number of times.
* `AdminAssumption`: the default pack is neither a named one nor one of the config, an
  agent's own pack is another, a text that does not parse is no rule id, and the config a server starts with
  compiles and binds to packs that are there.
* `AdapterAssumption`: a framework's tools have shapes that framework has (`ShapesOf`).
* `RemoteAssumption`: the gate's label leads to no allowing action, and there are null values
  for agents and labels.

Two theorems have a hypothesis besides, and each names a way in which the property does
fail. `TraceIsVisible` asks for `~TraceMayFail`: the handler of `DecisionActor` answers although
the append to the trace raised. `TraceIsInOrder` asks for `MaxStarts <= 1`: after a second
start `PolicyActor` is subscribed twice and a call enters the trace again, behind its successors.

**ApprovalBridge.** No property is inductive alone. That a call ran on an approval
says nothing of a thread about to judge a status written by somebody else:
`ApprovedInv` adds that an approved *status* has an approve verdict behind it.
`ClaimsInv` keeps the claimants of a ticket, `RuledInv` says that a verdict once
written is never pending again, `ToldInv` that a ticket somebody was told about is
settled, `ResolverInv` that a set event has such a resolver, and `WaiterInv` that a
waiter which did not time out saw the event. `VerdictInv` then follows the one
verdict of an uncontested ticket from the write of its status to the waiter's
return. One lemma per step preserves all of them.

**RateLimiter.** The bound is on what was *granted*, and the list forgets. `SlotsPlaced` says that a slot was
given at a limit its request has left, with a stamp read before it was given, and stands in no other key's list;
`PrunedIsOld`, that what a list has lost is older than some window of its key, counted
back from now. Hence `StretchIsKept`: of a stretch no longer than any window of the key, all slots are still in
the list when the last one is granted, and at that moment the list was not full.

**RuleRouter.** `CacheFresh` needs `MergeFresh`: the bindings an evaluation has read
while it holds the lock are still the agent's, unless an unbind is on its way to
the lock. `StaleViewsExplained` needs the same of what an evaluation is about to
store (`StoreExplained`). The lemma `LastMerged`, by well-founded induction's
instance for finite sets of packs, gives the winner of a merge; without it nothing
could be said of `Resolve`'s `CHOOSE`. Each invariant is also checked by TLC in the
run.

**GuardedCall.** What runs is permitted because of steps long past: which branch
`apply` took, and what each judgement in between said. `IInv` therefore says, for
every place a call can be at, what is known there. `JudgedInv`: between an
evaluation and the tool, the last judgement is of the form at hand. `AnswerInv`: an
answer is of the last judgement (`Rejudged` asks again), and at `allow`, `degrade`
and `human` it is one that leads there. `DenialInv`: no judgement of a call under
way is a DENY, save the last one until it is acted upon; without it nothing is known
of the earlier judgements of a rewritten call. `RanInv`: a call has run only at the
places after the tool. `RecordedInv`: whoever acts on a decision has recorded one;
the refinement needs it for `Run`. Calls touch one another only through the trace,
so `StepKeeps` reduces each step to the call that takes it, and one lemma per action
keeps the invariant of that call. For `ImplementsLifecycle`, `Simulation` shows that
moving `Phase` and the records of one call in one of seven ways is a step of
`CallLifecycle` or a stutter, and under `IInv` every action does (`...Simulates`).
Both modules' fairness is left out of the theorem.

What relates two calls has invariants of its own. `ResultsArrive` says nothing of a call
under way, and of the calls that ended before it began only that no thread of theirs
can touch the trace again; so `SessionInv` has the order of the trace's entries against the
calls that ended first (`OrderInv`, by way of `AfterInv` and `BegunInv`: who is in the trace has
begun), that the attempt a call asked for stays in the trace (`OwnInv`), and from the
back-fill on that a call which overlapped with none finds its result at the newest of its
entries (`ArrivedInv`). `LastPlace` gives the back-fill's `CHOOSE` a value.
`CountInv` counts: the attempts recorded of a call are at most its entries in the trace,
and what was recorded before `handle_attempt` is in what the evaluation reads. `QuietKeeps`
and `CountsKeep` settle the steps that leave the trace alone.

**ActorRuntime.** The queue, the mailboxes of three actors and the trace are one line (`Line`),
and a call moves along it from stage to stage or is dropped. `InLine` says that calls stand on
it in the order they were submitted in, whatever stages they stand at, and `MovedLined`, that no move of a
first call disturbs this; each handler is then one such move, a stop or an abandoned
call a drop. `SubscribedOnce` ties the subscriptions to the starts: it is what a second
start breaks. `AnsweredIsTraced` says that the trace is written before the answer.
`OnlySubmitted` and `QueueUnpublished` place a call in the queue or in the mailboxes,
never in both, so that a call given up in the queue is nowhere else.
`Counting` is for several starts. `Load` counts a call's copies from the PolicyActor to one of its ends, the trace
or a sink; each handler moves a copy on or makes as many as there are subscriptions.
`SubscribedWhileUp` says that all actors but PolicyActor are subscribed once while they are up,
`LoadBounded` that no load exceeds the starts and that it is zero as long as the call is
not past the SessionActor, and `AnsweredIsThrough` that with one start an answered call has left
the queue and the actors before the decision. TLC has checked the last two on both runs too.

**Recorders.** `SlowInv` has the ring buffer as the newest positions of all there ever were
(`BufferIsNewest`), from which the window of `recent` follows, and every synthesis as not
later than the time noted for its bucket (`SynthesesNoted`). `GraphInv` relates places: a call is in the trace of its session
or gone from it once it was appended (`TraceHolds`), and from the list of previous tools over the item the
worker holds to the queue, calls stand once each and none was handed on before the one it follows was appended
(`InLine`, with `HandedOn` and `before` for what had been handed on at that moment). No lock is needed for
that, since a thread hands on its calls after it appended them.
`UnfinishedCounted`, `Written` and `Placed` say that `flush` counts what is under way, that what is
in the list has its edges, and that no call is nowhere.

**RuleAdmin.** Each property has an invariant, because each speaks of other requests under way.
`FilesInv` follows two reloads that do not know of each other: `ReadInv` says what
each of them has read and when, and that the watcher has seen no newer files than it will read again;
`Coming`, that where the default pack is not the files' text, a reload that has read it, or
will, is on its way. A request that read older files is what `missed` is for.
`ViewsInv` says who still owes the actors a sync (`Owed`, from a request at work to a reload that is installed), of
the views that are kept (`ViewsKept`) and of the one that is being built (`LookKept`); `ConfigBegan` ties a config
that has replaced packs to what it has left to do. `StoreInv` says that a pack and its row in the database
agree unless somebody is about to replace the one or write the other
(`FollowsOrWill`), and that what a request is about to write is what the pack says by
then or will (`StoringMatches`), with `OverlappedAtWork`, `StorableText` and `StoredCompiles` for
the requests that were overtaken. `RulesInv` says that the texts which rules remember
name all of them (`RulesNamed`, `SourceKept`) and that a request about to replace a pack has
read them (`ReadAll`). What the rebuilt text holds is a fact about `FlattenSeq`, proved
from its recursion by a least counterexample. That a put of a config excuses what it
replaces rests on `StorableText` again, so the theorem carries `WorkInv` along.

**ToolAdapters.** `CallInv` says of a call what the layers it passed have decided and done
to its arguments (`AllPassed`, `LastStopped`, `ArgumentsNoted`; `Streams` keeps the two
sorts of layers apart). `InstallInv` says of each door how often it is wrapped
(`OnceEach`, `FirstInstall`), what the mark on a tool stands for (`Patching`), and that a
tool an install has been past is covered (`DoneIsCovered`, but for `Exempt`). The seven frameworks'
steps are first brought into one form, `WrapStep`.

**RemoteService.** `IInv` says why a request has the action it has (`AnswerExplained`: the
rules' or the language model's), why a call is where it is (`CallExplained`), that a call made
behind a gate finds the label in the catalog until the rules have held it, or runs by `LetUnheard` alone
(`GatedExplained`), and that a label stays until something undoes it (`LabelsStay`).

Only model-checked are the liveness properties (`WaiterReturns`, `OverdueIsAnswered`, `AnsweredIsRecorded`,
`EveryCallEnds`: TLAPS does not prove liveness under fairness, nor reasons about
`ENABLED`) and all of `PolicyLanguage`, whose operators are recursive, which is out of the
provers' reach: `ParsesBack`, `StrictestRuleDecides`, `TightestChain`,
`DeadPredicatesReported` and the violation. The `TypeOK`s, `SettledTicketRefuses`,
`BuiltinReachesEveryAgent` and `RefusedWithCause` are proved and not checked by a run again.

## 6. What is left

1. `ActorRuntime` as an implementation of an abstract pipeline, as `CallLifecycle` is for
   `GuardedCall`: its `Line` is the mapping.
2. The decisions after a second start, when `DecisionActor` may be handed two of a call: which one of them
   the audit log agrees with.
3. Session signals, and the trace's cap of 256 entries in `GuardedCall`.

## 7. Not modelled, and why

* The lexer, file globbing, HTTP parsing, authentication and formatting: conversions without a
  state.
* Of the HTTP API: listings, statistics, the batch endpoint (`/v1/evaluate` for each event, one
  after the other) and the event streams.
* Of the SDK: `evaluate_batch`, `health`, `DifyAdapter.guard_tool_exec`, the result events
  of the Claude adapter. The results of remote calls never reach the server.
* Session signals, and the caps of the state cache but for the traces of `PolicyLanguage` and `Recorders` and the list of previous tools.
* The Redis cache beyond that it may raise, the Postgres audit sink, the event store: single
  statements whose atomicity is the database's.
* What a language model answers is a choice; requests to it are external.
* The files of a pack config are read once for the pack and the database; the code reads them once for each
  (`storage/postgres.py:405-406`).
* Dify's stream: the adapter builds its event outside its `try`, and `_infer_sink` may name a sink that the event
  refuses (`dify.py:129-145`), which breaks the stream. The model's Dify only observes.
* `audit/explain.py`, `audit/replay.py`, `graph/queries.py`, `graph/provenance.py`,
  `graph/sink_source_analysis.py`: they read what is recorded and no decision uses them.
* Labels, telemetry and data models are records and counters; the frontend and the
  examples use the API.

## 8. Running

    tlc -workers 2 -config Enforcer.cfg EnforcerMC.tla
    tlc -workers 2 -config ActorRuntime.cfg ActorRuntime.tla
    tlc -workers 2 -config ActorRuntimeLive.cfg ActorRuntime.tla
    tlc -workers 2 -config RuleRouter.cfg RuleRouterMC.tla
    tlc -workers 2 -config GuardedCall.cfg GuardedCallMC.tla
    tlc -workers 2 -config PolicyLanguage.cfg PolicyLanguageMC.tla
    tlc -workers 2 -config PolicyLanguageChain.cfg PolicyLanguageMC.tla
    tlc -workers 2 -config Recorders.cfg RecordersMC.tla
    tlc -workers 2 -config RecordersSlow.cfg RecordersMC.tla
    tlc -workers 2 -config RuleAdmin.cfg RuleAdminMC.tla
    tlc -workers 2 -config ToolAdapters.cfg ToolAdaptersMC.tla
    tlc -workers 2 -config RemoteService.cfg RemoteServiceMC.tla
    tlapm EnforcerProofs.tla
    tlapm ActorRuntimeProofs.tla
    tlapm RuleRouterProofs.tla
    tlapm GuardedCallProofs.tla
    tlapm RecordersProofs.tla
    tlapm RuleAdminProofs.tla
    tlapm ToolAdaptersProofs.tla
    tlapm RemoteServiceProofs.tla

`PROJECT.json` names each run's module and configuration, the mutant that shows
each property can fail, and the source lines of every definition.
