----------------------------- MODULE RuleRouter -----------------------------
(***************************************************************************)
(* Which rules apply to an agent: the RuleRouter (packs, bindings, one     *)
(* cached list per agent), the views FastEvaluator indexes from it, and    *)
(* the Guard's rule management, called from threads: evaluations, the      *)
(* HTTP API, the RuleWatcher and the dynamic rule updater.                 *)
(*                                                                         *)
(* The router's RLock makes its methods atomic to one another, but unbind  *)
(* touches the binding store before it takes the lock.  Guard's methods    *)
(* and FastEvaluator hold no lock between their calls of the router.       *)
(***************************************************************************)
EXTENDS Naturals, FiniteSets

CONSTANTS
    Agent,
    PackId,        \* every pack id, BUILTIN and DEFAULT among them
    BUILTIN,       \* RuleRouter.BUILTIN_PACK_ID
    DEFAULT,       \* RuleRouter.DEFAULT_PACK_ID
    Rank,          \* place of a pack id in the order packs are merged in
    Rule,          \* rule ids
    Body,          \* what a rule with an id may say
    Contents,      \* what load_rules may return: rules for some of the ids
    Caller,        \* threads that evaluate calls
    Admin,         \* threads that manage rules
    NoThread,
    ApplyDefaultWhenUnbound,
    SourceMayFail  \* load_rules may raise while the user's rules are reloaded

\* dict[rule_id, rule]
RuleMap == UNION {[ids -> Body] : ids \in SUBSET Rule}

ASSUME RouterAssumption ==
    /\ BUILTIN \in PackId /\ DEFAULT \in PackId /\ BUILTIN # DEFAULT
    /\ IsFiniteSet(PackId)
    /\ Rank \in [PackId -> Nat]
    /\ \A p, q \in PackId : Rank[p] = Rank[q] => p = q
    /\ \A p \in PackId : Rank[BUILTIN] <= Rank[p]
    /\ Contents \subseteq RuleMap
    /\ Caller \cap Admin = {}
    /\ NoThread \notin Caller \cup Admin
    /\ ApplyDefaultWhenUnbound \in BOOLEAN
    /\ SourceMayFail \in BOOLEAN

VARIABLES
    packs,      \* RuleRouter._packs: the ids in it, with their rules
    bindings,   \* AgentBindingStore: <<agent, pack id>> pairs
    cache,      \* RuleRouter._cache
    lock,       \* the thread inside rules_for_agent's critical section
    views,      \* FastEvaluator._agent_views
    caller,     \* where each evaluation is in _view_for
    admin,      \* where each rule management call is
    raced,      \* history: evaluations that read before a call that has ended
    overtaken   \* history: agents whose view such an evaluation stored

vars == <<packs, bindings, cache, lock, views, caller, admin, raced, overtaken>>

-----------------------------------------------------------------------------
(* Functions with some of the keys: dicts.                                 *)

Empty == [x \in {} |-> x]

\* dict(old); dict.update(new)
Updated(old, new) ==
    [x \in DOMAIN old \cup DOMAIN new |-> IF x \in DOMAIN new THEN new[x] ELSE old[x]]

Set(f, key, value) ==
    [x \in DOMAIN f \cup {key} |-> IF x = key THEN value ELSE f[x]]

Without(f, keys) == [x \in DOMAIN f \ keys |-> f[x]]

-----------------------------------------------------------------------------
(* packs_for_agent and rules_for_agent, as functions of what they read.    *)

\* The built-in pack, the packs bound, and the default pack when none of the
\* bound ones but the built-in exists.
Applied(pk, bound) ==
    LET own == ({BUILTIN} \cup bound) \cap DOMAIN pk IN
    IF own \ {BUILTIN} = {} /\ ApplyDefaultWhenUnbound
    THEN own \cup ({DEFAULT} \cap DOMAIN pk)
    ELSE own

\* Of the packs that define a rule id, the one merged last wins.
Resolve(pk, bound) ==
    LET ps == Applied(pk, bound)
        Defining(r) == {p \in ps : r \in DOMAIN pk[p]}
        Winner(r) == CHOOSE p \in Defining(r) :
                        \A q \in Defining(r) : Rank[q] <= Rank[p]
    IN  [r \in UNION {DOMAIN pk[p] : p \in ps} |-> pk[Winner(r)][r]]

PacksOf(a) == {p \in PackId : <<a, p>> \in bindings}

\* What the catalogue and the bindings say of an agent at this moment.
RulesOf(a) == Resolve(packs, PacksOf(a))

-----------------------------------------------------------------------------

CallerState ==
    [at : {"idle"}]
        \cup [at : {"enter"}, agent : Agent]
        \cup [at : {"merge"}, agent : Agent, bound : SUBSET PackId]
        \cup [at : {"store"}, agent : Agent, rules : RuleMap]

AdminState ==
    [at : {"idle", "invalidate", "reload_user"}]
        \cup [at : {"pop"}, agent : Agent]
        \cup [at : {"scan", "write"}, pack : PackId, old : RuleMap, new : RuleMap]
        \cup [at : {"remove"}, pack : PackId, rules : RuleMap]

At(state) == [at |-> state]
Reading == {c \in Caller : caller[c].at \in {"merge", "store"}}

Init ==
    /\ \E b, d \in Contents : packs = Set(Set(Empty, BUILTIN, b), DEFAULT, d)
    /\ bindings = {}
    /\ cache = Empty
    /\ lock = NoThread
    /\ views = Empty
    /\ caller = [c \in Caller |-> At("idle")]
    /\ admin = [d \in Admin |-> At("idle")]
    /\ raced = {}
    /\ overtaken = {}

LockFree == lock = NoThread

-----------------------------------------------------------------------------
(* An evaluation: FastEvaluator._view_for.                                 *)

\* An evaluation whose agent has a view uses it and changes nothing.
Look(c, a) ==
    /\ caller[c] = At("idle")
    /\ a \notin DOMAIN views
    /\ caller' = [caller EXCEPT ![c] = [at |-> "enter", agent |-> a]]
    /\ UNCHANGED <<packs, bindings, cache, lock, views, admin, raced, overtaken>>

\* rules_for_agent with the list cached ...
Hit(c) ==
    /\ caller[c].at = "enter"
    /\ LockFree
    /\ caller[c].agent \in DOMAIN cache
    /\ caller' = [caller EXCEPT ![c] =
            [at |-> "store", agent |-> caller[c].agent, rules |-> cache[caller[c].agent]]]
    /\ raced' = raced \ {c}
    /\ UNCHANGED <<packs, bindings, cache, lock, views, admin, overtaken>>

\* ... or not: it reads the bindings, holding the router's lock ...
Miss(c) ==
    /\ caller[c].at = "enter"
    /\ LockFree
    /\ caller[c].agent \notin DOMAIN cache
    /\ lock' = c
    /\ caller' = [caller EXCEPT ![c] =
            [at |-> "merge", agent |-> caller[c].agent, bound |-> PacksOf(caller[c].agent)]]
    /\ raced' = raced \ {c}
    /\ UNCHANGED <<packs, bindings, cache, views, admin, overtaken>>

\* ... and merges the packs, stores the list and releases the lock.
Merge(c) ==
    /\ caller[c].at = "merge"
    /\ LET a == caller[c].agent
           rules == Resolve(packs, caller[c].bound)
       IN  /\ cache' = Set(cache, a, rules)
           /\ caller' = [caller EXCEPT ![c] = [at |-> "store", agent |-> a, rules |-> rules]]
    /\ lock' = NoThread
    /\ UNCHANGED <<packs, bindings, views, admin, raced, overtaken>>

\* self._agent_views[agent_id] = view, under no lock.
Store(c) ==
    /\ caller[c].at = "store"
    /\ LET a == caller[c].agent IN
        /\ views' = Set(views, a, caller[c].rules)
        /\ overtaken' = IF c \in raced THEN overtaken \cup {a} ELSE overtaken \ {a}
    /\ caller' = [caller EXCEPT ![c] = At("idle")]
    /\ UNCHANGED <<packs, bindings, cache, lock, admin, raced>>

-----------------------------------------------------------------------------
(* RuleRouter's mutators; each holds the lock throughout.                  *)

\* Mutant: the lists of agents bound to other packs are kept.
UpsertPack_KeepOthers(p, rules) ==
    /\ LockFree
    /\ packs' = Set(packs, p, rules)
    /\ cache' = Without(cache, {a \in Agent : p \in PacksOf(a)})

\* upsert_pack, behind replace_pack_rules.
UpsertPack(p, rules) ==
    /\ LockFree
    /\ packs' = Set(packs, p, rules)
    /\ cache' = Empty

\* A management call that starts, goes on at `state`, or returns.
Becomes(d, state) == admin' = [admin EXCEPT ![d] = state]
Starts(d, state) == admin[d] = At("idle") /\ Becomes(d, state)

\* A call that returns without invalidating: what evaluations read and stored
\* before it is left behind.
Abandon ==
    /\ raced' = raced \cup Reading
    /\ overtaken' = DOMAIN views

evaluator == <<lock, views, caller>>
history == <<raced, overtaken>>

-----------------------------------------------------------------------------
(* The Guard.                                                              *)

\* add_rule_pack, replace_rule_pack_rules, ensure_rule_pack: a pack other than
\* the built-in is created or replaced.
ReplacePack(d, p, rules) ==
    /\ p # BUILTIN
    /\ UpsertPack(p, rules)
    /\ Starts(d, At("invalidate"))
    /\ UNCHANGED <<bindings, evaluator, history>>

\* remove_rule_pack
RemovePack(d, p) ==
    /\ p # BUILTIN
    /\ p \in DOMAIN packs
    /\ LockFree
    /\ packs' = Without(packs, {p})
    /\ bindings' = {b \in bindings : b[2] # p}
    /\ cache' = Empty
    /\ Starts(d, At("invalidate"))
    /\ UNCHANGED <<evaluator, history>>

\* bind_agent
Bind(d, a, p) ==
    /\ LockFree
    /\ p \in DOMAIN packs
    /\ bindings' = bindings \cup {<<a, p>>}
    /\ cache' = Without(cache, {a})
    /\ Starts(d, At("invalidate"))
    /\ UNCHANGED <<packs, evaluator, history>>

\* unbind_agent: the store forgets the pair, whoever holds the lock ...
Unbind(d, a, p) ==
    /\ <<a, p>> \in bindings
    /\ bindings' = bindings \ {<<a, p>>}
    /\ Starts(d, [at |-> "pop", agent |-> a])
    /\ UNCHANGED <<packs, cache, evaluator, history>>

\* ... and then the router its list.
Pop(d) ==
    /\ admin[d].at = "pop"
    /\ LockFree
    /\ cache' = Without(cache, {admin[d].agent})
    /\ Becomes(d, At("invalidate"))
    /\ UNCHANGED <<packs, bindings, evaluator, history>>

\* add_rules reads the pack ...
AddRules(d, p, new, override) ==
    /\ p # BUILTIN
    /\ new # Empty
    /\ LockFree
    /\ Starts(d, [at |-> IF override THEN "write" ELSE "scan", pack |-> p,
                  old |-> IF p \in DOMAIN packs THEN packs[p] ELSE Empty,
                  new |-> new])
    /\ UNCHANGED <<packs, bindings, cache, evaluator, history>>

\* ... skips, unless it overrides, the ids of any pack ...
AddScan(d) ==
    /\ admin[d].at = "scan"
    /\ LockFree
    /\ LET loaded == UNION {DOMAIN packs[p] : p \in DOMAIN packs} IN
        Becomes(d, [at |-> "write", pack |-> admin[d].pack, old |-> admin[d].old,
                    new |-> Without(admin[d].new, loaded)])
    /\ UNCHANGED <<packs, bindings, cache, evaluator, history>>

\* ... and replaces the pack by what it read, updated.
AddWrite(d) ==
    /\ admin[d].at = "write"
    /\ UpsertPack(admin[d].pack, Updated(admin[d].old, admin[d].new))
    /\ Becomes(d, At("invalidate"))
    /\ UNCHANGED <<bindings, evaluator, history>>

\* remove_rule: RuleRegistry.remove looks for a pack with the id, the built-in
\* one included; its own lock keeps other removals out, and nobody else.
RemoveRule(d, r, p) ==
    /\ \A other \in Admin : admin[other].at # "remove"
    /\ LockFree
    /\ p \in DOMAIN packs
    /\ r \in DOMAIN packs[p]
    /\ Starts(d, [at |-> "remove", pack |-> p, rules |-> Without(packs[p], {r})])
    /\ UNCHANGED <<packs, bindings, cache, evaluator, history>>

RemoveWrite(d) ==
    /\ admin[d].at = "remove"
    /\ UpsertPack(admin[d].pack, admin[d].rules)
    /\ Becomes(d, At("invalidate"))
    /\ UNCHANGED <<bindings, evaluator, history>>

\* reload_rules replaces the built-in pack ...
Reload(d, rules) ==
    /\ UpsertPack(BUILTIN, rules)
    /\ Starts(d, At("reload_user"))
    /\ UNCHANGED <<bindings, evaluator, history>>

\* ... then the default one ...
ReloadUser(d, rules) ==
    /\ admin[d] = At("reload_user")
    /\ UpsertPack(DEFAULT, rules)
    /\ Becomes(d, At("invalidate"))
    /\ UNCHANGED <<bindings, evaluator, history>>

\* ... unless loading it raises.
ReloadRaises(d) ==
    /\ SourceMayFail
    /\ admin[d] = At("reload_user")
    /\ Becomes(d, At("idle"))
    /\ Abandon
    /\ UNCHANGED <<packs, bindings, cache, evaluator>>

\* Mutant: a change invalidates the views of the agents bound to something.
Invalidate_Bound(d) ==
    /\ admin[d] = At("invalidate")
    /\ Becomes(d, At("idle"))
    /\ views' = Without(views, {b[1] : b \in bindings})
    /\ raced' = raced \cup Reading
    /\ UNCHANGED <<packs, bindings, cache, lock, caller, overtaken>>

\* self._fast.invalidate(), the last step of every call that changed something.
Invalidate(d) ==
    /\ admin[d] = At("invalidate")
    /\ Becomes(d, At("idle"))
    /\ views' = Empty
    /\ raced' = raced \cup Reading
    /\ overtaken' = {}
    /\ UNCHANGED <<packs, bindings, cache, lock, caller>>

-----------------------------------------------------------------------------

Evaluate(c) == (\E a \in Agent : Look(c, a)) \/ Hit(c) \/ Miss(c) \/ Merge(c) \/ Store(c)

Manage(d) ==
    \/ \E p \in PackId :
        \/ RemovePack(d, p)
        \/ \E a \in Agent : Bind(d, a, p) \/ Unbind(d, a, p)
        \/ \E rules \in Contents : ReplacePack(d, p, rules)
        \/ \E rules \in Contents, override \in BOOLEAN : AddRules(d, p, rules, override)
        \/ \E r \in Rule : RemoveRule(d, r, p)
    \/ \E rules \in Contents : Reload(d, rules) \/ ReloadUser(d, rules)
    \/ ReloadRaises(d) \/ Pop(d) \/ AddScan(d) \/ AddWrite(d) \/ RemoveWrite(d)
    \/ Invalidate(d)

Next == (\E c \in Caller : Evaluate(c)) \/ (\E d \in Admin : Manage(d))

Spec == Init /\ [][Next]_vars

-----------------------------------------------------------------------------
(* Properties.                                                             *)

\* Dicts hold rule maps under known keys, and the lock is held exactly by the
\* evaluation between reading the bindings and storing the list.
TypeOK ==
    /\ DOMAIN packs \subseteq PackId
    /\ \A p \in DOMAIN packs : packs[p] \in RuleMap
    /\ bindings \subseteq Agent \X PackId
    /\ DOMAIN cache \subseteq Agent
    /\ \A a \in DOMAIN cache : cache[a] \in RuleMap
    /\ DOMAIN views \subseteq Agent
    /\ \A a \in DOMAIN views : views[a] \in RuleMap
    /\ caller \in [Caller -> CallerState]
    /\ admin \in [Admin -> AdminState]
    /\ lock \in Caller \cup {NoThread}
    /\ \A c \in Caller : caller[c].at = "merge" <=> lock = c
    /\ raced \subseteq Caller
    /\ overtaken \subseteq Agent

\* An unbind of the agent is between the binding store and the router.
Unbinding(a) == \E d \in Admin : admin[d].at = "pop" /\ admin[d].agent = a

\* The router never serves an out-of-date list: what it has cached for an agent
\* is what packs and bindings say now, also while other threads change both --
\* but for the moment in which an unbind has left the store and not yet the
\* cache.
CacheFresh == \A a \in DOMAIN cache : cache[a] = RulesOf(a) \/ Unbinding(a)

\* A rule id of the built-in pack reaches every agent: no binding, default pack
\* or race leaves it out of a list the router has cached (a pack may shadow the
\* rule by one with the same id).
BuiltinReachesEveryAgent ==
    BUILTIN \in DOMAIN packs =>
        \A a \in DOMAIN cache : DOMAIN packs[BUILTIN] \subseteq DOMAIN cache[a]

\* A management call that changed something has yet to invalidate the views.
Pending == \E d \in Admin : admin[d].at \in {"pop", "invalidate", "reload_user"}

\* A view FastEvaluator decides calls with is out of date only while a change
\* is under way, or because an evaluation that had read its rules before stored
\* them after the invalidation, or a failing reload left it behind.
StaleViewsExplained ==
    \A a \in DOMAIN views : views[a] = RulesOf(a) \/ Pending \/ a \in overtaken

=============================================================================
