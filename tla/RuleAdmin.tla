------------------------------ MODULE RuleAdmin ------------------------------
(***************************************************************************)
(* Where rules come from and where they are kept: the policy files with    *)
(* the RuleWatcher, the rule endpoints of the HTTP API, the pack config,   *)
(* the Postgres store, and the policy actor's views of it all.             *)
(*                                                                         *)
(* RuleRouter has the locks of the router and of the evaluator's views;    *)
(* here a call of the Guard is one step, but for reload_rules, and what    *)
(* matters is the steps of the threads: a request has one of its own, for  *)
(* FastAPI runs most endpoints in a pool; POST /rules/reload and the       *)
(* policy actor take turns on the event loop; and the watcher has one.  A  *)
(* rule is its id, a text is the sequence of the ids of its blocks.  The   *)
(* built-in pack, which every reload replaces by itself, is left out.      *)
(***************************************************************************)
EXTENDS Integers, SequencesExt

CONSTANTS
    Agent,
    Id,             \* ids of the rules that sources define
    Bad,            \* the id that stands for a block that does not compile
    Named,          \* ids of the packs that clients put and remove by name
    Default,        \* RuleRouter.DEFAULT_PACK_ID
    AgentPack,      \* the pack of an agent: _agent_rule_pack_id
    Rank,           \* place of a pack id in the order packs are merged in
    FileText,       \* what the policy files may say
    PushText,       \* what clients may push
    ConfigText,     \* what the server's pack config says: a pack to its text
    ConfigBound,    \* its bindings: agents with packs
    AskedText,      \* a config that clients name: a pack to what its files may say
    AskedBound,     \* the bindings of that one
    Client,         \* the requests' threads
    OnePath,        \* whether policy_source is one path, not the command line's list
    Persistent,     \* whether there is a postgres_url
    Async,          \* whether the server runs the actor runtime
    Loading,        \* whether the embedding program and the updater use the Guard
    MaxRequests,    \* bound on the requests,
    MaxOthers,      \* on the edits of the files, calls of the Guard and restarts,
    MaxInAll        \* and on all of these together

PackIds == {Default} \cup Named \cup DOMAIN ConfigText \cup DOMAIN AskedText
              \cup {AgentPack[a] : a \in Agent}
AskedTexts == UNION {AskedText[p] : p \in DOMAIN AskedText}

\* The default pack comes from the files: it is not put by name or by a pack
\* config, nor is it that of an agent, whose id starts with "agent::".  The server
\* starts: its own config compiles, and binds to packs that are there.
ASSUME AdminAssumption ==
    /\ Default \notin Named /\ Default \notin DOMAIN ConfigText \cup DOMAIN AskedText
    /\ Agent # {} /\ \A a \in Agent : AgentPack[a] # Default
    /\ ConfigBound \subseteq Agent \X (DOMAIN ConfigText \cup {Default})
    /\ AskedBound \subseteq Agent \X PackIds
    /\ Bad \notin Id
    /\ \A text \in FileText \cup PushText \cup AskedTexts : text \in Seq(ToSet(text))
    /\ \A p \in DOMAIN ConfigText :
          ConfigText[p] \in Seq(ToSet(ConfigText[p])) /\ Bad \notin ToSet(ConfigText[p])
    /\ OnePath \in BOOLEAN /\ Persistent \in BOOLEAN
    /\ Async \in BOOLEAN /\ Loading \in BOOLEAN
    /\ MaxRequests \in Nat /\ MaxOthers \in Nat /\ MaxInAll \in Nat

VARIABLES
    files,          \* the policy files: their text and mtime
    userSource,     \* Guard._user_source: the files, or a text
    packs,          \* the router's packs: rules, and their text or a label
    bound,          \* the binding store: agents with packs
    views,          \* PolicyActor's evaluator: the rules of an agent, once asked
    look,           \* the view that it has built and not yet kept
    watcher,        \* the RuleWatcher: where it is, and the mtime it has seen
    reload,         \* Guard.reload_rules on the event loop and in the watcher
    pc,             \* the request of each client, and what it has read
    stored,         \* ag_rule_packs: packs with their text, and what it was put by
    used,           \* requests, edits, calls and restarts so far: bounds only
    touched,        \* history: packs changed rule by rule since their text was set
    overlapped,     \* history: clients whose pack another changed after they read it
    adrift,         \* history: packs stored while something went wrong
    unsynced,       \* history: rules were changed and no actor was told
    raced,          \* history: agents whose view was kept after views were forgotten
    missed          \* history: the files' text is not one the watcher will look for

vars == <<files, userSource, packs, bound, views, look, watcher, reload, pc, stored, used,
          touched, overlapped, adrift, unsynced, raced, missed>>
sources == <<files, userSource, watcher, reload, missed>>
actor == <<views, look, raced>>
store == <<stored, adrift>>

-----------------------------------------------------------------------------
(* Texts, packs and what applies to an agent.                              *)

Compiles(text) == Bad \notin ToSet(text)

\* compile_rules: each rule remembers the text it came in.
Compile(text) == [i \in DOMAIN text |-> [id |-> text[i], from |-> text]]

\* A pack's source is its text, or a label: the paths of the files, or "api".
Inline(text) == [rules |-> Compile(text), source |-> text, label |-> FALSE]
Labelled(text) == [rules |-> Compile(text), source |-> <<>>, label |-> TRUE]

Defining(id, rules) == {r \in ToSet(rules) : r.id = id}
IdsOf(pack) == {r.id : r \in ToSet(pack.rules)}
Ids(pk, p) == IF p \in DOMAIN pk THEN IdsOf(pk[p]) ELSE {}
With(pk, p, pack) == [q \in DOMAIN pk \cup {p} |-> IF q = p THEN pack ELSE pk[q]]
Over(new, old) ==
    [q \in DOMAIN new \cup DOMAIN old |-> IF q \in DOMAIN new THEN new[q] ELSE old[q]]
Less(pk, p) == [q \in DOMAIN pk \ {p} |-> pk[q]]

Without(s, out) == FlattenSeq([i \in DOMAIN s |-> IF s[i] \in out THEN <<>> ELSE <<s[i]>>])

\* _pack_rule_blocks: the blocks of the pack's own text or, when its source is no
\* text, of the texts its rules came in, each once.
Blocks(pack) ==
    LET from(i) == pack.rules[i].from IN
    IF pack.source # <<>> THEN pack.source
    ELSE FlattenSeq([i \in DOMAIN pack.rules |->
                        IF \E j \in 1 .. i-1 : from(j) = from(i) THEN <<>> ELSE from(i)])

\* packs_for_agent: the default pack is for agents none of whose packs exists.
PacksFor(a) ==
    LET own == {p \in DOMAIN packs : <<a, p>> \in bound}
    IN IF own # {} THEN own ELSE {Default} \cap DOMAIN packs

Effective(a) == UNION {IdsOf(packs[p]) : p \in PacksFor(a)}
ActiveIds == UNION {IdsOf(packs[p]) : p \in DOMAIN packs}

\* The pack whose rule wins.
Wins(p, a, id) ==
    LET defining == {q \in PacksFor(a) : id \in IdsOf(packs[q])}
    IN p \in defining /\ \A q \in defining : Rank[q] <= Rank[p]

TextOf(source) == IF source.files THEN files.text ELSE source.text
Unasked == [known |-> FALSE, ids |-> {}]
Idle == [at |-> "idle", op |-> "none", agent |-> CHOOSE a \in Agent : TRUE,
         pack |-> Default, id |-> Bad, text |-> <<>>, left |-> {}]
NoReload == [at |-> "no", source |-> [files |-> TRUE, text |-> <<>>], text |-> <<>>, mtime |-> 0]
NoLook == [on |-> FALSE, agent |-> CHOOSE a \in Agent : TRUE, ids |-> {}, late |-> FALSE]

\* The policy actor and the async endpoints have one thread between them.
LoopFree == reload["loop"].at = "no" /\ ~look.on

\* Others who have read the pack, or have still to store what they put there.
Overtaken(p) ==
    {c \in Client : pc[c].pack = p /\ pc[c].at \in {"bind", "replace", "store"}}

-----------------------------------------------------------------------------
(* AgentGuardServer.from_policy, with attach_postgres_backends.            *)

\* The server comes up on files that compile, and applies its pack config.
AtStart == [p \in DOMAIN ConfigText \cup {Default} |->
               Labelled(IF p = Default THEN files.text ELSE ConfigText[p])]

\* Then each pack that has rules is stored under what its source reads as: the
\* default pack's under the files' text, if there is one path to read, and a pack's
\* of the config under the word "api", which is its source by now.
Row(text, inline) == [text |-> text, inline |-> inline]
StoredAtStart ==
    LET full == {p \in DOMAIN AtStart : AtStart[p].rules # <<>> /\ (OnePath \/ p # Default)}
    IN [p \in full |-> Row(IF p = Default THEN files.text ELSE <<Bad>>, FALSE)]

\* What else the database has is loaded, over a pack without rules too; what does
\* not compile is skipped.
Restored(db) ==
    [p \in {q \in DOMAIN db \ DOMAIN StoredAtStart : Compiles(db[q].text)} |->
        IF db[p].inline THEN Inline(db[p].text) ELSE Labelled(db[p].text)]

Booted(db, dbBound) ==
    LET restored == IF Persistent THEN Restored(db) ELSE <<>>
    IN /\ Compiles(files.text)
       /\ packs' = Over(restored, AtStart)
       /\ bound' = ConfigBound \cup IF Persistent THEN dbBound ELSE {}
       /\ stored' = IF Persistent THEN Over(StoredAtStart, db) ELSE db
       /\ adrift' = DOMAIN ConfigText
       /\ missed' = (Default \in DOMAIN restored)

Init ==
    /\ \E text \in FileText : files = [text |-> text, mtime |-> 0] /\ Compiles(text)
    /\ userSource = [files |-> TRUE, text |-> <<>>]
    /\ packs = AtStart
    /\ bound = ConfigBound
    /\ views = [a \in Agent |-> Unasked] /\ look = NoLook
    /\ watcher = [at |-> "off", seen |-> 0, told |-> FALSE]
    /\ reload = [r \in {"loop", "watcher"} |-> NoReload]
    /\ pc = [c \in Client |-> Idle]
    /\ stored = IF Persistent THEN StoredAtStart ELSE <<>>
    /\ used = [requests |-> 0, edits |-> 0, calls |-> 0, boots |-> 0]
    /\ touched = {} /\ overlapped = {} /\ adrift = DOMAIN ConfigText
    /\ unsynced = FALSE /\ raced = {} /\ missed = FALSE

Others == used.edits + used.calls + used.boots
Spent(on) ==
    /\ Others < MaxOthers /\ used.requests + Others < MaxInAll
    /\ used' = [used EXCEPT ![on] = @ + 1]

\* The process is killed, whatever its threads are at, and started again.
Restart ==
    /\ Spent("boots")
    /\ Booted(stored, bound)
    /\ userSource' = [files |-> TRUE, text |-> <<>>]
    /\ views' = [a \in Agent |-> Unasked] /\ look' = NoLook
    /\ watcher' = [at |-> "off", seen |-> 0, told |-> FALSE]
    /\ reload' = [r \in {"loop", "watcher"} |-> NoReload]
    /\ pc' = [c \in Client |-> Idle]
    /\ touched' = {} /\ overlapped' = {} /\ unsynced' = FALSE /\ raced' = {}
    /\ UNCHANGED files

-----------------------------------------------------------------------------
(* The policy files, the RuleWatcher, and the reloads that run in its      *)
(* thread and on the event loop, with no lock between them.                *)

EditFiles(text) ==
    /\ Spent("edits")
    /\ files' = [text |-> text, mtime |-> files.mtime + 1]
    /\ missed' = (missed \/ watcher.at = "off")
    /\ UNCHANGED <<userSource, packs, bound, watcher, reload, pc, stored,
                   touched, overlapped, adrift, unsynced, actor>>

\* start, by the command line before there is an actor runtime or by the API
\* when there is one: the mtimes of now are what later ones are compared with.
StartWatch(told) ==
    /\ watcher.at = "off" /\ LoopFree
    /\ watcher' = [at |-> "idle", seen |-> files.mtime, told |-> told]
    /\ UNCHANGED <<files, userSource, packs, bound, reload, pc, stored, used,
                   touched, overlapped, adrift, unsynced, missed, actor>>

\* stop waits for the thread.
StopWatch ==
    /\ watcher.at = "idle" /\ LoopFree
    /\ watcher' = [watcher EXCEPT !.at = "off"]
    /\ missed' = (missed \/ files.mtime # watcher.seen)
    /\ UNCHANGED <<files, userSource, packs, bound, reload, pc, stored, used,
                   touched, overlapped, adrift, unsynced, actor>>

\* _check_and_reload notes the new mtimes, and then reloads.
Poll ==
    /\ watcher.at = "idle" /\ files.mtime # watcher.seen
    /\ watcher' = [watcher EXCEPT !.at = "changed", !.seen = files.mtime]
    /\ UNCHANGED <<files, userSource, packs, bound, reload, pc, stored, used,
                   touched, overlapped, adrift, unsynced, missed, actor>>

Reloading(r, source) ==
    reload' = [reload EXCEPT ![r] = [NoReload EXCEPT !.at = "given", !.source = source]]

\* _reload: what the user's source is by now, not the paths watched.
WatcherReload ==
    /\ watcher.at = "changed" /\ reload["watcher"].at = "no"
    /\ Reloading("watcher", userSource)
    /\ UNCHANGED <<files, userSource, watcher, packs, bound, pc, stored, used,
                   touched, overlapped, adrift, unsynced, missed, actor>>

\* POST /rules/reload, with a text, with the path of the files, or with neither.
Reload(source) ==
    /\ LoopFree /\ used.requests < MaxRequests /\ used.requests + Others < MaxInAll
    /\ used' = [used EXCEPT !.requests = @ + 1]
    /\ Reloading("loop", source)
    /\ UNCHANGED <<files, userSource, watcher, packs, bound, pc, stored,
                   touched, overlapped, adrift, unsynced, missed, actor>>

\* The source becomes the user's source before it is known to compile ...
Read(r) ==
    /\ reload[r].at = "given"
    /\ userSource' = reload[r].source
    /\ reload' = [reload EXCEPT ![r].at = "read", ![r].text = TextOf(reload[r].source),
                                ![r].mtime = files.mtime]
    /\ UNCHANGED <<files, watcher, packs, bound, pc, stored, used,
                   touched, overlapped, adrift, unsynced, missed, actor>>

\* Mutant: rules that are gone from the source stay in the pack.
Install_Adds(r) ==
    /\ reload[r].at = "read" /\ Compiles(reload[r].text)
    /\ LET text == reload[r].text
           source == reload[r].source
       IN /\ packs' = With(packs, Default,
                           [rules |-> Compile(text) \o packs[Default].rules,
                            source |-> IF source.files THEN <<>> ELSE text,
                            label |-> source.files])
          /\ missed' = IF ~source.files THEN missed
                       ELSE reload[r].mtime # files.mtime /\ (missed \/ r = "loop")
    /\ reload' = [reload EXCEPT ![r].at = "installed"]
    /\ touched' = touched \ {Default} /\ overlapped' = overlapped \cup Overtaken(Default)
    /\ UNCHANGED <<files, userSource, watcher, bound, pc, stored, used, adrift, unsynced, actor>>

\* ... what was read from it becomes the default pack, however old it is by now.
\* The watcher will look once more at files that changed since it read them; a
\* request will not ...
Install(r) ==
    /\ reload[r].at = "read" /\ Compiles(reload[r].text)
    /\ LET text == reload[r].text
           source == reload[r].source
       IN /\ packs' = With(packs, Default, IF source.files THEN Labelled(text) ELSE Inline(text))
          /\ missed' = IF ~source.files THEN missed
                       ELSE reload[r].mtime # files.mtime /\ (missed \/ r = "loop")
    /\ reload' = [reload EXCEPT ![r].at = "installed"]
    /\ touched' = touched \ {Default} /\ overlapped' = overlapped \cup Overtaken(Default)
    /\ UNCHANGED <<files, userSource, watcher, bound, pc, stored, used, adrift, unsynced, actor>>

\* The policy actor's evaluator forgets its views, not one that is being built.
Forget ==
    /\ views' = [a \in Agent |-> Unasked] /\ look' = [look EXCEPT !.late = look.on]
    /\ unsynced' = FALSE /\ raced' = {}

Ended(r) ==
    /\ reload' = [reload EXCEPT ![r] = NoReload]
    /\ watcher' = [watcher EXCEPT !.at = IF r = "watcher" THEN "idle" ELSE @]

\* ... and the actor runtime is told, unless it is the watcher that reloads and it
\* was given none.
Installed(r) ==
    /\ reload[r].at = "installed" /\ Ended(r)
    /\ IF r = "loop" \/ watcher.told THEN Forget ELSE unsynced' = TRUE /\ UNCHANGED actor
    /\ UNCHANGED <<files, userSource, packs, bound, pc, stored, used,
                   touched, overlapped, adrift, missed>>

\* What does not compile leaves the packs as they are; the watcher only logs it.
Refuse(r) ==
    /\ reload[r].at = "read" /\ ~Compiles(reload[r].text) /\ Ended(r)
    /\ UNCHANGED <<files, userSource, packs, bound, pc, stored, used,
                   touched, overlapped, adrift, unsynced, missed, actor>>

-----------------------------------------------------------------------------
(* Requests.  A request that is refused at its first step changes nothing. *)

Begins(c) ==
    /\ pc[c].at = "idle"
    /\ used.requests < MaxRequests /\ used.requests + Others < MaxInAll
    /\ used' = [used EXCEPT !.requests = @ + 1]
Goes(c, at) == pc' = [pc EXCEPT ![c].at = at]

\* create_agent_rule: no pack may have the id ...
Create(c, a, id) ==
    /\ Begins(c) /\ id \notin ActiveIds
    /\ pc' = [pc EXCEPT ![c] = [at |-> "ensure", op |-> "create", agent |-> a,
                                pack |-> AgentPack[a], id |-> id, text |-> <<>>, left |-> {}]]
    /\ UNCHANGED <<packs, bound, touched, overlapped, unsynced, sources, actor, store>>

\* Mutant: the new block is all that the pack will have.
Ensure_Afresh(c) ==
    /\ pc[c].at = "ensure"
    /\ LET p == pc[c].pack
           pack == IF p \in DOMAIN packs THEN packs[p] ELSE Inline(<<>>)
       IN /\ packs' = With(packs, p, pack)
          /\ pc' = [pc EXCEPT ![c].at = "bind", ![c].text = <<pc[c].id>>]
    /\ UNCHANGED <<bound, used, touched, overlapped, unsynced, sources, actor, store>>

\* ... the agent's pack is made if need be, and its blocks are read ...
Ensure(c) ==
    /\ pc[c].at = "ensure"
    /\ LET p == pc[c].pack
           pack == IF p \in DOMAIN packs THEN packs[p] ELSE Inline(<<>>)
       IN /\ packs' = With(packs, p, pack)
          /\ pc' = [pc EXCEPT ![c].at = "bind", ![c].text = Append(Blocks(pack), pc[c].id)]
    /\ UNCHANGED <<bound, used, touched, overlapped, unsynced, sources, actor, store>>

\* ... the agent is bound to it; a pack that is gone again ends the request ...
BindOwn(c) ==
    /\ pc[c].at = "bind"
    /\ LET p == pc[c].pack IN
         IF p \in DOMAIN packs
         THEN bound' = bound \cup {<<pc[c].agent, p>>} /\ Goes(c, "replace") /\ UNCHANGED overlapped
         ELSE pc' = [pc EXCEPT ![c] = Idle] /\ overlapped' = overlapped \ {c} /\ UNCHANGED bound
    /\ UNCHANGED <<packs, used, touched, unsynced, sources, actor, store>>

\* ... and the pack is replaced by what was read and the new block.  Nothing of
\* this is stored.
Replace(c) ==
    /\ pc[c].at = "replace" /\ Goes(c, "sync")
    /\ LET p == pc[c].pack IN
         /\ packs' = With(packs, p, Inline(pc[c].text))
         /\ touched' = touched \ {p}
         /\ overlapped' = (overlapped \cup Overtaken(p)) \ {c}
         /\ adrift' = adrift \cup {p}
    /\ UNCHANGED <<bound, used, unsynced, stored, sources, actor>>

\* delete_agent_rule: of the pack whose rule wins, the blocks but this one.
Delete(c, a, id) ==
    /\ Begins(c)
    /\ \E p \in PacksFor(a) :
         /\ Wins(p, a, id) /\ id \in ToSet(Blocks(packs[p]))
         /\ pc' = [pc EXCEPT ![c] = [at |-> "replace", op |-> "delete", agent |-> a, pack |-> p,
                      id |-> id, text |-> Without(Blocks(packs[p]), {id}), left |-> {}]]
    /\ UNCHANGED <<packs, bound, touched, overlapped, unsynced, sources, actor, store>>

Putting(c, op, p, text) ==
    pc' = [pc EXCEPT ![c] = [Idle EXCEPT !.at = IF Persistent THEN "store" ELSE "sync",
                                         !.op = op, !.pack = p, !.text = text]]

\* upsert_rule_pack.
PutPack(c, p, text) ==
    /\ Begins(c) /\ Compiles(text) /\ Putting(c, "put", p, text)
    /\ packs' = With(packs, p, Inline(text))
    /\ touched' = touched \ {p} /\ overlapped' = overlapped \cup Overtaken(p)
    /\ UNCHANGED <<bound, unsynced, sources, actor, store>>

\* reload_rule_packs: the packs of a config one after the other, each replaced by
\* what its files say, and stored ...
PutConfig(c) ==
    /\ Begins(c)
    /\ pc' = [pc EXCEPT ![c] = [Idle EXCEPT !.at = "config", !.op = "config",
                                            !.left = DOMAIN AskedText]]
    /\ UNCHANGED <<packs, bound, touched, overlapped, unsynced, sources, actor, store>>

ConfigPack(c, p, text) ==
    /\ pc[c].at = "config" /\ p \in pc[c].left /\ Compiles(text)
    /\ pc' = [pc EXCEPT ![c] = [@ EXCEPT !.at = IF Persistent THEN "store" ELSE "config",
                                         !.pack = p, !.text = text, !.left = pc[c].left \ {p}]]
    /\ packs' = With(packs, p, Labelled(text))
    /\ touched' = touched \ {p} /\ overlapped' = overlapped \cup Overtaken(p)
    /\ UNCHANGED <<bound, used, unsynced, sources, actor, store>>

\* ... up to one that does not compile: the request is answered 400, and nobody is
\* told of the packs that were replaced.
ConfigRefused(c, p, text) ==
    /\ pc[c].at = "config" /\ p \in pc[c].left /\ ~Compiles(text)
    /\ pc' = [pc EXCEPT ![c] = Idle]
    /\ unsynced' = (unsynced \/ pc[c].left # DOMAIN AskedText)
    /\ UNCHANGED <<packs, bound, used, touched, overlapped, sources, actor, store>>

\* delete_rule_pack: the pack goes with its bindings.
DropPack(c, p) ==
    /\ Begins(c) /\ Putting(c, "drop", p, <<>>)
    /\ packs' = Less(packs, p)
    /\ bound' = {b \in bound : b[2] # p}
    /\ touched' = touched \ {p} /\ overlapped' = overlapped \cup Overtaken(p)
    /\ UNCHANGED <<unsynced, sources, actor, store>>

\* Mutant: a pack that is removed stays in the database.
Store_NoDelete(c, done) ==
    /\ pc[c].at = "store"
    /\ LET p == pc[c].pack IN
         /\ stored' = IF ~done \/ pc[c].op = "drop" THEN stored
                      ELSE With(stored, p, Row(pc[c].text, pc[c].op = "put"))
         /\ adrift' = IF done /\ c \notin overlapped THEN adrift \ {p} ELSE adrift \cup {p}
    /\ Goes(c, IF pc[c].op = "config" THEN "config" ELSE "sync")
    /\ overlapped' = overlapped \ {c}
    /\ UNCHANGED <<packs, bound, used, touched, unsynced, sources, actor>>

\* The coordinator's half of add_rule_pack and remove_rule_pack, after the Guard's:
\* one statement, whose failure is only logged.
Store(c, done) ==
    /\ pc[c].at = "store"
    /\ LET p == pc[c].pack IN
         /\ stored' = IF ~done THEN stored
                      ELSE IF pc[c].op = "drop" THEN Less(stored, p)
                      ELSE With(stored, p, Row(pc[c].text, pc[c].op = "put"))
         /\ adrift' = IF done /\ c \notin overlapped THEN adrift \ {p} ELSE adrift \cup {p}
    /\ Goes(c, IF pc[c].op = "config" THEN "config" ELSE "sync")
    /\ overlapped' = overlapped \ {c}
    /\ UNCHANGED <<packs, bound, used, touched, unsynced, sources, actor>>

\* ... and then the bindings; a pack that is not there raises, after some of the
\* others were bound, and the request is answered 400 with nobody told.
Unknown == {b \in AskedBound : b[2] \notin DOMAIN packs}
BindConfig(c) ==
    /\ pc[c].at = "config" /\ pc[c].left = {} /\ Unknown = {}
    /\ bound' = bound \cup AskedBound /\ Goes(c, "sync")
    /\ UNCHANGED <<packs, used, touched, overlapped, unsynced, sources, actor, store>>

BindingRaises(c, done) ==
    /\ pc[c].at = "config" /\ pc[c].left = {} /\ Unknown # {}
    /\ bound' = bound \cup (done \ Unknown) /\ pc' = [pc EXCEPT ![c] = Idle]
    /\ unsynced' = TRUE
    /\ UNCHANGED <<packs, used, touched, overlapped, sources, actor, store>>

BindAgent(c, a, p) ==
    /\ Begins(c) /\ p \in DOMAIN packs /\ bound' = bound \cup {<<a, p>>}
    /\ pc' = [pc EXCEPT ![c] = [Idle EXCEPT !.at = "sync", !.op = "bind"]]
    /\ UNCHANGED <<packs, touched, overlapped, unsynced, sources, actor, store>>

UnbindAgent(c, a, p) ==
    /\ Begins(c) /\ <<a, p>> \in bound /\ bound' = bound \ {<<a, p>>}
    /\ pc' = [pc EXCEPT ![c] = [Idle EXCEPT !.at = "sync", !.op = "bind"]]
    /\ UNCHANGED <<packs, touched, overlapped, unsynced, sources, actor, store>>

\* Mutant: a rule created for an agent is not passed on to the actors.
Sync_NotCreated(c) ==
    /\ pc[c].at = "sync" /\ pc' = [pc EXCEPT ![c] = Idle]
    /\ IF pc[c].op = "create" THEN unsynced' = FALSE /\ UNCHANGED actor ELSE Forget
    /\ UNCHANGED <<packs, bound, used, touched, overlapped, sources, store>>

\* _sync_async_rules.
Sync(c) ==
    /\ pc[c].at = "sync" /\ pc' = [pc EXCEPT ![c] = Idle] /\ Forget
    /\ UNCHANGED <<packs, bound, used, touched, overlapped, sources, store>>

-----------------------------------------------------------------------------
(* The Guard, as the embedding program and the dynamic updater use it, and *)
(* the policy actor.                                                       *)

Calls == Loading /\ Spent("calls")

\* add_rules, into the default pack or another: the source stays what it was.
AddRule(p, id) ==
    /\ Calls /\ p \in DOMAIN packs
    /\ packs' = [packs EXCEPT ![p].rules = Append(Without(@, Defining(id, @)),
                                                  [id |-> id, from |-> <<id>>])]
    /\ touched' = touched \cup {p} /\ overlapped' = overlapped \cup Overtaken(p)
    /\ unsynced' = TRUE /\ adrift' = adrift \cup {p}
    /\ UNCHANGED <<bound, pc, stored, sources, actor>>

\* remove_rule: RuleRegistry takes it out of the first pack that has it.
RemoveRule(p, id) ==
    /\ Calls /\ p \in DOMAIN packs /\ id \in IdsOf(packs[p])
    /\ packs' = [packs EXCEPT ![p].rules = Without(@, Defining(id, @))]
    /\ touched' = touched \cup {p} /\ overlapped' = overlapped \cup Overtaken(p)
    /\ unsynced' = TRUE /\ adrift' = adrift \cup {p}
    /\ UNCHANGED <<bound, pc, stored, sources, actor>>

\* _view_for: the policy actor judges a call of an agent it has no view of, builds
\* one from what the router says ...
BuildView(a) ==
    /\ Async /\ ~views[a].known /\ LoopFree
    /\ look' = [on |-> TRUE, agent |-> a, ids |-> Effective(a), late |-> FALSE]
    /\ UNCHANGED <<packs, bound, views, pc, used, touched, overlapped, unsynced, raced, sources, store>>

\* ... and keeps it, though views may have been forgotten since.
KeepView ==
    /\ look.on /\ look' = NoLook
    /\ views' = [views EXCEPT ![look.agent] = [known |-> TRUE, ids |-> look.ids]]
    /\ raced' = IF look.late THEN raced \cup {look.agent} ELSE raced
    /\ UNCHANGED <<packs, bound, pc, used, touched, overlapped, unsynced, sources, store>>

-----------------------------------------------------------------------------

Request(c) ==
    \/ \E a \in Agent, id \in Id : Create(c, a, id) \/ Delete(c, a, id)
    \/ \E p \in Named, text \in PushText : PutPack(c, p, text)
    \/ PutConfig(c)
    \/ \E p \in DOMAIN AskedText : \E text \in AskedText[p] :
          ConfigPack(c, p, text) \/ ConfigRefused(c, p, text)
    \/ BindConfig(c)
    \/ \E done \in SUBSET AskedBound : BindingRaises(c, done)
    \/ \E p \in DOMAIN packs \ {Default} : DropPack(c, p)
    \/ \E a \in Agent, p \in Named : BindAgent(c, a, p) \/ UnbindAgent(c, a, p)
    \/ Ensure(c) \/ BindOwn(c) \/ Replace(c)
    \/ \E done \in BOOLEAN : Store(c, done)
    \/ Sync(c)

Watching ==
    \/ \E text \in FileText : EditFiles(text)
    \/ \E told \in {FALSE, Async} : StartWatch(told)
    \/ StopWatch \/ Poll \/ WatcherReload

\* The source of a reload is a text, the files, or what it was.
Sources ==
    {[files |-> FALSE, text |-> text] : text \in PushText \cup {<<Bad>>}}
        \cup {[files |-> TRUE, text |-> <<>>], userSource}

Next ==
    \/ \E c \in Client : Request(c)
    \/ Watching
    \/ \E source \in Sources : Reload(source)
    \/ \E r \in {"loop", "watcher"} : Read(r) \/ Install(r) \/ Installed(r) \/ Refuse(r)
    \/ \E p \in DOMAIN packs, id \in Id : AddRule(p, id) \/ RemoveRule(p, id)
    \/ \E a \in Agent : BuildView(a)
    \/ KeepView
    \/ Restart

Spec == Init /\ [][Next]_vars

-----------------------------------------------------------------------------

Quiet == \A c \in Client : pc[c].at = "idle"

\* Who meant a rule of a pack to go, or why two who met lose it.
Excused(p, id) ==
    \/ \E c \in Client : /\ pc[c].pack = p /\ pc[c].at = "replace" /\ pc'[c].at = "sync"
                        /\ \/ pc[c].op = "delete" /\ pc[c].id = id
                           \/ c \in overlapped
                           \/ p \in touched
    \/ \E c \in Client : /\ pc[c].at \in {"idle", "config"} /\ pc'[c] # pc[c]
                        /\ pc'[c].pack = p /\ pc'[c].op \in {"put", "config", "drop"}
    \/ p \in touched'
    \/ used'.boots # used.boots

RulesKept ==
    \A a \in Agent : LET p == AgentPack[a] IN
        \A id \in Ids(packs, p) \ Ids(packs', p) : Excused(p, id)

\* A rule that an agent's pack has is lost only where somebody meant it or two
\* met: the request that replaces the pack deletes that rule, or read the pack
\* before another changed it, or the pack had been changed rule by rule, which
\* its text does not show; or a put or a removal took the whole pack, or the
\* server was restarted and the pack was never stored.
AgentRulesSurvive == [][RulesKept]_vars

\* When no request is on its way, the database has a pack if the router has it,
\* and its text, except for a pack that was stored by two at once, that failed
\* to be stored, that was changed by an endpoint or a call that stores nothing,
\* or that came from the config when the server started.
StoreFollows ==
    Quiet /\ Persistent =>
        \A p \in Named \ adrift :
            IF p \in DOMAIN packs
            THEN p \in DOMAIN stored /\ Compile(stored[p].text) = packs[p].rules
            ELSE p \notin DOMAIN stored

\* The default pack is what the files say once the watcher has dealt with the
\* newest of them, as long as the source is the files, however its reloads meet
\* those of requests: not so if the files did not compile; if they changed while
\* it was not watching; if a request that had read them before they changed was
\* the last to replace the pack, or has still to replace it; if the server was
\* started on emptied files, or on a list of paths, and took what they once said
\* from the database; or if the pack was changed through the API or the Guard.
FilesFollowed ==
    /\ watcher.at = "idle" /\ watcher.seen = files.mtime /\ userSource.files
    /\ Compiles(files.text) /\ ~missed /\ reload["loop"].at # "read"
    /\ Default \in DOMAIN packs /\ packs[Default].label /\ Default \notin touched
    => packs[Default].rules = Compile(files.text)

\* The policy actor judges an agent by rules it no longer has only while a
\* request or a reload has still to tell it; after a change nobody tells it of, by
\* the watcher of the command line, which was started before there was a runtime,
\* by the Guard itself or by a pack config that was refused halfway; or if its
\* view was built before it was told and kept after.
ActorViewsExplained ==
    \A a \in Agent :
        views[a].known /\ views[a].ids # Effective(a) =>
            \/ unsynced \/ a \in raced
            \/ \E c \in Client : pc[c].at # "idle"
            \/ \E r \in {"loop", "watcher"} : reload[r].at = "installed"

=============================================================================
