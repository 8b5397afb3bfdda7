-------------------------- MODULE RuleRouterProofs --------------------------
EXTENDS RuleRouter, FiniteSetTheorems, WellFoundedInduction, TLAPS

\* Of any packs, one is merged last: the one with the fewest packs after it.
LEMMA LastMerged ==
    ASSUME RouterAssumption, NEW S \in SUBSET PackId, S # {}
    PROVE  \E p \in S : \A q \in S : Rank[q] <= Rank[p]
<1> DEFINE After(p) == {q \in S : Rank[p] < Rank[q]}
           T == {After(p) : p \in S}
<1>1. IsFiniteSet(S)
  BY FS_Subset DEF RouterAssumption
<1>2. T \subseteq SUBSET S /\ T # {}
  <2>1. PICK p \in S : TRUE
    OBVIOUS
  <2>2. After(p) \in T
    BY <2>1
  <2> QED  BY <2>2
<1>3. PICK A \in T : \A B \in T : <<B, A>> \notin StrictSubsetOrdering(S)
  <2> HIDE DEF T
  <2>1. IsWellFoundedOn(StrictSubsetOrdering(S), FiniteSubsetsOf(S))
    BY <1>1, FS_StrictSubsetOrderingWellFounded
  <2>2. FiniteSubsetsOf(S) = SUBSET S
    BY <1>1, FS_Subset DEF FiniteSubsetsOf
  <2> QED  BY <1>2, <2>1, <2>2, WFMin
<1>4. PICK p \in S : A = After(p)
  OBVIOUS
<1>5. ASSUME NEW q \in S, Rank[p] < Rank[q]
      PROVE  FALSE
  <2>1. After(q) \subseteq After(p) /\ q \in After(p) /\ q \notin After(q)
    BY <1>5 DEF RouterAssumption
  <2>2. <<After(q), After(p)>> \in StrictSubsetOrdering(S)
    BY <2>1 DEF StrictSubsetOrdering
  <2> QED  BY <1>3, <1>4, <2>2
<1>6. \A q \in S : Rank[q] <= Rank[p]
  BY <1>5 DEF RouterAssumption
<1> QED  BY <1>6

\* Merging rule maps gives a rule map, whose ids are those of the packs merged.
LEMMA ResolveType ==
    ASSUME RouterAssumption, NEW pk, DOMAIN pk \subseteq PackId,
           \A p \in DOMAIN pk : pk[p] \in RuleMap, NEW bound
    PROVE  /\ Resolve(pk, bound) \in RuleMap
           /\ BUILTIN \in DOMAIN pk => DOMAIN pk[BUILTIN] \subseteq DOMAIN Resolve(pk, bound)
<1> DEFINE ps == Applied(pk, bound)
           Defining(r) == {p \in ps : r \in DOMAIN pk[p]}
           Winner(r) == CHOOSE p \in Defining(r) :
                            \A q \in Defining(r) : Rank[q] <= Rank[p]
           ids == UNION {DOMAIN pk[p] : p \in ps}
<1>1. ps \subseteq DOMAIN pk /\ (BUILTIN \in DOMAIN pk => BUILTIN \in ps)
  BY DEF Applied
<1>2. \A p \in ps : DOMAIN pk[p] \subseteq Rule /\ \A r \in DOMAIN pk[p] : pk[p][r] \in Body
  BY <1>1 DEF RuleMap
<1>3. Resolve(pk, bound) = [r \in ids |-> pk[Winner(r)][r]]
  BY DEF Resolve
<1>4. ASSUME NEW r \in ids
      PROVE  pk[Winner(r)][r] \in Body
  <2>1. Defining(r) \in SUBSET PackId /\ Defining(r) # {}
    BY <1>1
  <2>2. \E p \in Defining(r) : \A q \in Defining(r) : Rank[q] <= Rank[p]
    <3> HIDE DEF Defining
    <3> QED  BY <2>1, LastMerged
  <2>3. Winner(r) \in Defining(r)
    <3> HIDE DEF Defining
    <3> QED  BY <2>2
  <2> QED  BY <1>2, <2>3
<1>5. ids \subseteq Rule
  BY <1>2
<1>6. [r \in ids |-> pk[Winner(r)][r]] \in [ids -> Body]
  <2> HIDE DEF Winner, ids
  <2> QED  BY <1>4
<1>7. Resolve(pk, bound) \in RuleMap
  <2> HIDE DEF Winner, ids
  <2> QED  BY <1>3, <1>5, <1>6 DEF RuleMap
<1>8. BUILTIN \in DOMAIN pk => DOMAIN pk[BUILTIN] \subseteq DOMAIN Resolve(pk, bound)
  <2>1. DOMAIN Resolve(pk, bound) = ids
    <3> HIDE DEF Winner, ids
    <3> QED  BY <1>3
  <2> QED  BY <1>1, <2>1
<1> QED  BY <1>7, <1>8

-----------------------------------------------------------------------------
(* The inductive invariant.                                                *)

\* The bindings an evaluation merges with are still those of its agent, or an
\* unbind has left the store since.
MergeFresh ==
    \A c \in Caller : caller[c].at = "merge" =>
        \/ caller[c].bound = PacksOf(caller[c].agent)
        \/ Unbinding(caller[c].agent)

\* What an evaluation is about to store is up to date, or a change is under
\* way, or a call has ended since it read.
StoreExplained ==
    \A c \in Caller : caller[c].at = "store" =>
        \/ caller[c].rules = RulesOf(caller[c].agent)
        \/ Pending
        \/ c \in raced

IInv == /\ TypeOK
        /\ MergeFresh
        /\ CacheFresh
        /\ BuiltinReachesEveryAgent
        /\ StoreExplained
        /\ StaleViewsExplained

-----------------------------------------------------------------------------
(* Every step preserves it.                                                *)

\* A rule map without some ids, or updated by another, is a rule map.
LEMMA RuleMapFacts ==
    /\ Empty \in RuleMap /\ DOMAIN Empty = {}
    /\ \A f \in RuleMap : \A ids : Without(f, ids) \in RuleMap
    /\ \A f, g \in RuleMap : Updated(f, g) \in RuleMap
<1>1. \A f \in RuleMap : DOMAIN f \subseteq Rule /\ f \in [DOMAIN f -> Body]
  BY DEF RuleMap
<1>2. Empty \in [{} -> Body] /\ DOMAIN Empty = {}
  BY DEF Empty
<1>3. ASSUME NEW f \in RuleMap, NEW ids
      PROVE  Without(f, ids) \in RuleMap
  <2>1. Without(f, ids) \in [DOMAIN f \ ids -> Body]
    BY <1>1 DEF Without
  <2> QED  BY <1>1, <2>1 DEF RuleMap
<1>4. ASSUME NEW f \in RuleMap, NEW g \in RuleMap
      PROVE  Updated(f, g) \in RuleMap
  <2>1. Updated(f, g) \in [DOMAIN f \cup DOMAIN g -> Body]
    BY <1>1 DEF Updated
  <2>2. DOMAIN f \cup DOMAIN g \in SUBSET Rule
    BY <1>1
  <2> QED  BY <2>1, <2>2 DEF RuleMap
<1>5. Empty \in RuleMap
  BY <1>2 DEF RuleMap
<1> QED  BY <1>2, <1>3, <1>4, <1>5

\* When the lock is free no evaluation is merging.
LEMMA NobodyMerges ==
    ASSUME RouterAssumption, TypeOK, LockFree
    PROVE  \A c \in Caller : caller[c].at # "merge"
BY DEF RouterAssumption, TypeOK, LockFree

\* A change of the catalogue: it leaves a change under way and no list cached.
LEMMA CatalogueChange ==
    ASSUME RouterAssumption, IInv, NEW d \in Admin,
           NEW x \in {"invalidate", "reload_user"},
           admin' = [admin EXCEPT ![d] = At(x)],
           LockFree, cache' = Empty,
           DOMAIN packs' \subseteq PackId, \A p \in DOMAIN packs' : packs'[p] \in RuleMap,
           bindings' \subseteq bindings, UNCHANGED evaluator, UNCHANGED history
    PROVE  IInv'
<1> USE DEF evaluator, history
<1>1. TypeOK'
  <2>1. At(x) \in AdminState
    BY DEF At, AdminState
  <2>2. admin' \in [Admin -> AdminState]
    BY <2>1 DEF IInv, TypeOK
  <2>3. DOMAIN cache' = {}
    BY RuleMapFacts
  <2> QED  BY <2>2, <2>3 DEF IInv, TypeOK
<1>2. admin'[d].at = x
  BY DEF IInv, TypeOK, At
<1>3. Pending'
  BY <1>2 DEF Pending
<1>4. MergeFresh'
  BY NobodyMerges DEF IInv, MergeFresh
<1>5. CacheFresh' /\ BuiltinReachesEveryAgent'
  BY RuleMapFacts DEF CacheFresh, BuiltinReachesEveryAgent
<1>6. StoreExplained' /\ StaleViewsExplained'
  BY <1>3 DEF StoreExplained, StaleViewsExplained
<1> QED  BY <1>1, <1>4, <1>5, <1>6 DEF IInv

\* A call that has only read so far changes nothing the invariant looks at.
LEMMA OnlyRead ==
    ASSUME RouterAssumption, IInv, NEW d \in Admin, NEW state \in AdminState,
           admin[d].at \in {"idle", "scan"}, state.at \in {"scan", "write", "remove"},
           admin' = [admin EXCEPT ![d] = state],
           UNCHANGED <<packs, bindings, cache>>, UNCHANGED evaluator, UNCHANGED history
    PROVE  IInv'
<1> USE DEF evaluator, history
<1>1. TypeOK'
  BY DEF IInv, TypeOK
<1>2. \A e \in Admin : admin'[e] = IF e = d THEN state ELSE admin[e]
  BY DEF IInv, TypeOK
<1>3. Pending' <=> Pending
  BY <1>2 DEF Pending
<1>4. \A a : Unbinding(a)' <=> Unbinding(a)
  BY <1>2 DEF Unbinding
<1>5. \A a : PacksOf(a)' = PacksOf(a) /\ RulesOf(a)' = RulesOf(a)
  BY DEF PacksOf, RulesOf
<1>6. MergeFresh'
  BY <1>4, <1>5 DEF IInv, MergeFresh
<1>7. CacheFresh' /\ BuiltinReachesEveryAgent'
  BY <1>4, <1>5 DEF IInv, CacheFresh, BuiltinReachesEveryAgent
<1>8. StoreExplained' /\ StaleViewsExplained'
  BY <1>3, <1>5 DEF IInv, StoreExplained, StaleViewsExplained
<1> QED  BY <1>1, <1>6, <1>7, <1>8 DEF IInv

\* bind_agent: the agent's bindings change, and its list is dropped.
LEMMA BindPreserves ==
    ASSUME RouterAssumption, IInv, NEW d \in Admin, NEW a \in Agent, NEW p \in PackId,
           Bind(d, a, p)
    PROVE  IInv'
<1> USE DEF Bind, evaluator, history
<1>1. admin[d] = At("idle") /\ admin' = [admin EXCEPT ![d] = At("invalidate")]
  BY DEF Starts, Becomes
<1>2. TypeOK'
  <2>1. admin' \in [Admin -> AdminState]
    BY <1>1 DEF IInv, TypeOK, At, AdminState
  <2>2. bindings' \subseteq Agent \X PackId
    BY DEF IInv, TypeOK
  <2>3. DOMAIN cache' = DOMAIN cache \ {a} /\ \A x \in DOMAIN cache' : cache'[x] = cache[x]
    BY DEF Without
  <2> QED  BY <2>1, <2>2, <2>3 DEF IInv, TypeOK
<1>3. Pending'
  BY <1>1 DEF Pending, IInv, TypeOK, At
<1>4. \A x : x # a => PacksOf(x)' = PacksOf(x)
  BY DEF PacksOf
<1>5. \A x : Unbinding(x) => Unbinding(x)'
  BY <1>1 DEF Unbinding, IInv, TypeOK, At
<1>6. MergeFresh'
  BY NobodyMerges DEF IInv, MergeFresh
<1>7. DOMAIN cache' = DOMAIN cache \ {a} /\ \A x \in DOMAIN cache' : cache'[x] = cache[x]
  BY DEF Without
<1>8. CacheFresh' /\ BuiltinReachesEveryAgent'
  BY <1>4, <1>5, <1>7 DEF IInv, CacheFresh, BuiltinReachesEveryAgent, RulesOf
<1>9. StoreExplained' /\ StaleViewsExplained'
  BY <1>3 DEF StoreExplained, StaleViewsExplained
<1> QED  BY <1>2, <1>6, <1>8, <1>9 DEF IInv

\* unbind_agent's first step: from now on the agent is being unbound.
LEMMA UnbindPreserves ==
    ASSUME RouterAssumption, IInv, NEW d \in Admin, NEW a \in Agent, NEW p \in PackId,
           Unbind(d, a, p)
    PROVE  IInv'
<1> USE DEF Unbind, evaluator, history
<1> DEFINE state == [at |-> "pop", agent |-> a]
<1>1. admin[d] = At("idle") /\ admin' = [admin EXCEPT ![d] = state]
  BY DEF Starts, Becomes
<1>2. TypeOK'
  <2>1. admin' \in [Admin -> AdminState]
    BY <1>1 DEF IInv, TypeOK, AdminState
  <2> QED  BY <2>1 DEF IInv, TypeOK
<1>3. Pending' /\ Unbinding(a)'
  BY <1>1 DEF Pending, Unbinding, IInv, TypeOK
<1>4. \A x : x # a => PacksOf(x)' = PacksOf(x)
  BY DEF PacksOf
<1>5. \A x : Unbinding(x) => Unbinding(x)'
  BY <1>1 DEF Unbinding, IInv, TypeOK, At
<1>6. MergeFresh'
  BY <1>3, <1>4, <1>5 DEF IInv, MergeFresh
<1>7. CacheFresh' /\ BuiltinReachesEveryAgent'
  BY <1>3, <1>4, <1>5 DEF IInv, CacheFresh, BuiltinReachesEveryAgent, RulesOf
<1>8. StoreExplained' /\ StaleViewsExplained'
  BY <1>3 DEF StoreExplained, StaleViewsExplained
<1> QED  BY <1>2, <1>6, <1>7, <1>8 DEF IInv

\* unbind_agent's second step: the agent's list goes, the views are still to.
LEMMA PopPreserves ==
    ASSUME RouterAssumption, IInv, NEW d \in Admin, Pop(d)
    PROVE  IInv'
<1> USE DEF Pop, Becomes, evaluator, history
<1>1. PICK a \in Agent : admin[d].agent = a
  BY DEF IInv, TypeOK, AdminState
<1>2. TypeOK'
  <2>1. admin' \in [Admin -> AdminState]
    BY DEF IInv, TypeOK, At, AdminState
  <2>2. DOMAIN cache' = DOMAIN cache \ {a} /\ \A x \in DOMAIN cache' : cache'[x] = cache[x]
    BY <1>1 DEF Without
  <2> QED  BY <2>1, <2>2 DEF IInv, TypeOK
<1>3. Pending'
  BY DEF Pending, IInv, TypeOK, At
<1>4. \A x : PacksOf(x)' = PacksOf(x)
  BY DEF PacksOf
<1>5. \A x : x # a /\ Unbinding(x) => Unbinding(x)'
  BY <1>1 DEF Unbinding, IInv, TypeOK, At
<1>6. MergeFresh'
  BY NobodyMerges DEF IInv, MergeFresh
<1>7. DOMAIN cache' = DOMAIN cache \ {a} /\ \A x \in DOMAIN cache' : cache'[x] = cache[x]
  BY <1>1 DEF Without
<1>8. CacheFresh' /\ BuiltinReachesEveryAgent'
  BY <1>4, <1>5, <1>7 DEF IInv, CacheFresh, BuiltinReachesEveryAgent, RulesOf
<1>9. StoreExplained' /\ StaleViewsExplained'
  BY <1>3 DEF StoreExplained, StaleViewsExplained
<1> QED  BY <1>2, <1>6, <1>8, <1>9 DEF IInv

\* A call ends, invalidating the views or not: whatever an evaluation has read
\* by then is marked.
LEMMA EndPreserves ==
    ASSUME RouterAssumption, IInv, NEW d \in Admin, Invalidate(d) \/ ReloadRaises(d)
    PROVE  IInv'
<1> USE DEF Invalidate, ReloadRaises, Abandon, Becomes, evaluator
<1>1. /\ admin[d].at # "pop"
      /\ admin' = [admin EXCEPT ![d] = At("idle")]
      /\ UNCHANGED <<packs, bindings, cache, lock, caller>>
      /\ raced' = raced \cup Reading
  BY DEF At
<1>2. \/ views' = Empty /\ overtaken' = {}
      \/ views' = views /\ overtaken' = DOMAIN views
  OBVIOUS
<1>3. TypeOK'
  <2>1. admin' \in [Admin -> AdminState]
    BY <1>1 DEF IInv, TypeOK, At, AdminState
  <2>2. DOMAIN Empty = {}
    BY RuleMapFacts
  <2> QED  BY <1>1, <1>2, <2>1, <2>2 DEF IInv, TypeOK, Reading
<1>4. \A x : Unbinding(x) => Unbinding(x)'
  BY <1>1 DEF Unbinding, IInv, TypeOK
<1>5. \A x : PacksOf(x)' = PacksOf(x)
  BY <1>1 DEF PacksOf
<1>6. MergeFresh'
  BY <1>1, <1>4, <1>5 DEF IInv, MergeFresh
<1>7. CacheFresh' /\ BuiltinReachesEveryAgent'
  BY <1>1, <1>4, <1>5 DEF IInv, CacheFresh, BuiltinReachesEveryAgent, RulesOf
<1>8. StoreExplained'
  BY <1>1 DEF StoreExplained, Reading
<1>9. StaleViewsExplained'
  BY <1>2, RuleMapFacts DEF StaleViewsExplained
<1> QED  BY <1>3, <1>6, <1>7, <1>8, <1>9 DEF IInv

\* An evaluation between its read of the view and of the router's list.
LEMMA ReadPreserves ==
    ASSUME RouterAssumption, IInv, NEW c \in Caller,
           (\E a \in Agent : Look(c, a)) \/ Hit(c) \/ Miss(c)
    PROVE  IInv'
<1> USE DEF Look, Hit, Miss
<1>1. /\ UNCHANGED <<packs, bindings, cache, views, admin, overtaken>>
      /\ raced' \in {raced, raced \ {c}}
  BY DEF Look, Hit, Miss
<1>2. /\ \A x : PacksOf(x)' = PacksOf(x) /\ RulesOf(x)' = RulesOf(x)
      /\ \A x : Unbinding(x)' <=> Unbinding(x)
      /\ Pending' <=> Pending
  BY <1>1 DEF PacksOf, RulesOf, Unbinding, Pending
<1>3. CacheFresh' /\ BuiltinReachesEveryAgent' /\ StaleViewsExplained'
  BY <1>1, <1>2 DEF IInv, CacheFresh, BuiltinReachesEveryAgent, StaleViewsExplained
<1>4. CASE \E a \in Agent : Look(c, a)
  <2>1. PICK a \in Agent : Look(c, a)
    BY <1>4
  <2>2. TypeOK'
    <3>1. caller' \in [Caller -> CallerState]
      BY <2>1 DEF IInv, TypeOK, CallerState
    <3> QED  BY <2>1, <3>1 DEF IInv, TypeOK, At
  <2>3. MergeFresh' /\ StoreExplained'
    BY <1>2, <2>1 DEF IInv, TypeOK, MergeFresh, StoreExplained, At
  <2> QED  BY <1>3, <2>2, <2>3 DEF IInv
<1>5. CASE Hit(c)
  <2>1. PICK a \in Agent : a = caller[c].agent
    BY <1>5 DEF IInv, TypeOK, CallerState
  <2>2. TypeOK'
    <3>1. caller' \in [Caller -> CallerState]
      BY <1>5, <2>1 DEF IInv, TypeOK, CallerState
    <3> QED  BY <1>5, <3>1 DEF IInv, TypeOK
  <2>3. cache[a] = RulesOf(a) \/ Pending
    BY <1>5, <2>1 DEF IInv, CacheFresh, Unbinding, Pending
  <2>4. MergeFresh'
    BY <1>2, <1>5 DEF IInv, TypeOK, MergeFresh
  <2>5. StoreExplained'
    BY <1>2, <1>5, <2>1, <2>3 DEF IInv, TypeOK, StoreExplained
  <2> QED  BY <1>3, <2>2, <2>4, <2>5 DEF IInv
<1>6. CASE Miss(c)
  <2>1. PICK a \in Agent : a = caller[c].agent
    BY <1>6 DEF IInv, TypeOK, CallerState
  <2>2. TypeOK'
    <3>1. PacksOf(a) \in SUBSET PackId
      BY DEF PacksOf
    <3>2. caller' \in [Caller -> CallerState]
      BY <1>6, <2>1, <3>1 DEF IInv, TypeOK, CallerState
    <3>3. \A e \in Caller : caller'[e].at = "merge" <=> lock' = e
      BY <1>6, NobodyMerges DEF IInv, TypeOK
    <3> QED  BY <1>6, <3>2, <3>3 DEF IInv, TypeOK
  <2>3. MergeFresh'
    BY <1>2, <1>6, <2>1 DEF IInv, TypeOK, MergeFresh
  <2>4. StoreExplained'
    BY <1>2, <1>6 DEF IInv, TypeOK, StoreExplained
  <2> QED  BY <1>3, <2>2, <2>3, <2>4 DEF IInv
<1> QED  BY <1>4, <1>5, <1>6

\* The list an evaluation caches is up to date unless its agent is being unbound.
LEMMA MergePreserves ==
    ASSUME RouterAssumption, IInv, NEW c \in Caller, Merge(c)
    PROVE  IInv'
<1> USE DEF Merge
<1>1. PICK a \in Agent : a = caller[c].agent
  BY DEF IInv, TypeOK, CallerState
<1>2. PICK rules \in RuleMap :
        /\ rules = Resolve(packs, caller[c].bound)
        /\ BUILTIN \in DOMAIN packs => DOMAIN packs[BUILTIN] \subseteq DOMAIN rules
  BY ResolveType DEF IInv, TypeOK
<1>3. rules = RulesOf(a) \/ Unbinding(a)
  BY <1>1, <1>2 DEF IInv, MergeFresh, RulesOf
<1>4. /\ cache' = Set(cache, a, rules)
      /\ caller' = [caller EXCEPT ![c] = [at |-> "store", agent |-> a, rules |-> rules]]
      /\ lock' = NoThread
      /\ UNCHANGED <<packs, bindings, views, admin, raced, overtaken>>
  BY <1>1, <1>2
<1>5. DOMAIN cache' = DOMAIN cache \cup {a} /\ cache'[a] = rules
      /\ \A x \in DOMAIN cache \ {a} : cache'[x] = cache[x]
  BY <1>4 DEF Set
<1>6. TypeOK'
  <2>1. caller' \in [Caller -> CallerState]
    BY <1>4 DEF IInv, TypeOK, CallerState
  <2>2. \A e \in Caller : caller'[e].at = "merge" <=> lock' = e
    BY <1>4 DEF IInv, TypeOK, RouterAssumption
  <2> QED  BY <1>4, <1>5, <2>1, <2>2 DEF IInv, TypeOK
<1>7. /\ \A x : PacksOf(x)' = PacksOf(x) /\ RulesOf(x)' = RulesOf(x)
      /\ \A x : Unbinding(x)' <=> Unbinding(x)
      /\ Pending' <=> Pending
  BY <1>4 DEF PacksOf, RulesOf, Unbinding, Pending
<1>8. MergeFresh'
  BY <1>4, <1>7 DEF IInv, TypeOK, MergeFresh
<1>9. CacheFresh' /\ BuiltinReachesEveryAgent'
  BY <1>2, <1>3, <1>4, <1>5, <1>7 DEF IInv, CacheFresh, BuiltinReachesEveryAgent
<1>10. StoreExplained'
  <2>1. Unbinding(a) => Pending
    BY DEF Unbinding, Pending
  <2> QED  BY <1>3, <1>4, <1>7, <2>1 DEF IInv, TypeOK, StoreExplained
<1>11. StaleViewsExplained'
  BY <1>4, <1>7 DEF IInv, StaleViewsExplained
<1> QED  BY <1>6, <1>8, <1>9, <1>10, <1>11 DEF IInv

\* The view an evaluation stores is as up to date as what it read.
LEMMA StorePreserves ==
    ASSUME RouterAssumption, IInv, NEW c \in Caller, Store(c)
    PROVE  IInv'
<1> USE DEF Store
<1>1. PICK a \in Agent, rules \in RuleMap : a = caller[c].agent /\ rules = caller[c].rules
  BY DEF IInv, TypeOK, CallerState
<1>2. /\ views' = Set(views, a, rules)
      /\ overtaken' = IF c \in raced THEN overtaken \cup {a} ELSE overtaken \ {a}
      /\ caller' = [caller EXCEPT ![c] = At("idle")]
      /\ UNCHANGED <<packs, bindings, cache, lock, admin, raced>>
  BY <1>1
<1>3. DOMAIN views' = DOMAIN views \cup {a} /\ views'[a] = rules
      /\ \A x \in DOMAIN views \ {a} : views'[x] = views[x]
  BY <1>2 DEF Set
<1>4. TypeOK'
  <2>1. caller' \in [Caller -> CallerState]
    BY <1>2 DEF IInv, TypeOK, CallerState, At
  <2>2. \A e \in Caller : caller'[e].at = "merge" <=> lock' = e
    BY <1>2 DEF IInv, TypeOK, At
  <2> QED  BY <1>2, <1>3, <2>1, <2>2 DEF IInv, TypeOK
<1>5. /\ \A x : PacksOf(x)' = PacksOf(x) /\ RulesOf(x)' = RulesOf(x)
      /\ \A x : Unbinding(x)' <=> Unbinding(x)
      /\ Pending' <=> Pending
  BY <1>2 DEF PacksOf, RulesOf, Unbinding, Pending
<1>6. MergeFresh' /\ StoreExplained'
  BY <1>2, <1>5 DEF IInv, TypeOK, MergeFresh, StoreExplained, At
<1>7. CacheFresh' /\ BuiltinReachesEveryAgent'
  BY <1>2, <1>5 DEF IInv, CacheFresh, BuiltinReachesEveryAgent
<1>8. rules = RulesOf(a) \/ Pending \/ c \in raced
  BY <1>1 DEF IInv, StoreExplained
<1>9. StaleViewsExplained'
  BY <1>2, <1>3, <1>5, <1>8 DEF IInv, StaleViewsExplained
<1> QED  BY <1>4, <1>6, <1>7, <1>9 DEF IInv

\* A new or replaced pack leaves a catalogue of rule maps.
LEMMA UpsertType ==
    ASSUME IInv, NEW p \in PackId, NEW rules \in RuleMap, UpsertPack(p, rules)
    PROVE  /\ LockFree /\ cache' = Empty
           /\ DOMAIN packs' \subseteq PackId /\ \A q \in DOMAIN packs' : packs'[q] \in RuleMap
BY DEF UpsertPack, Set, IInv, TypeOK

\* Whatever a managing thread does next.
LEMMA ManagePreserves ==
    ASSUME RouterAssumption, IInv, NEW d \in Admin, Manage(d)
    PROVE  IInv'
<1> USE DEF Starts, Becomes
<1>1. ASSUME NEW p \in PackId, NEW rules \in Contents, ReplacePack(d, p, rules)
      PROVE  IInv'
  <2>1. UpsertPack(p, rules) /\ rules \in RuleMap
    BY <1>1 DEF ReplacePack, RouterAssumption
  <2> QED  BY <1>1, <2>1, UpsertType, CatalogueChange DEF ReplacePack
<1>2. ASSUME NEW p \in PackId, RemovePack(d, p)
      PROVE  IInv'
  <2>1. DOMAIN packs' \subseteq PackId /\ \A q \in DOMAIN packs' : packs'[q] \in RuleMap
    BY <1>2 DEF RemovePack, Without, IInv, TypeOK
  <2> QED  BY <1>2, <2>1, CatalogueChange DEF RemovePack
<1>3. ASSUME NEW rules \in Contents, Reload(d, rules) \/ ReloadUser(d, rules)
      PROVE  IInv'
  <2>1. rules \in RuleMap /\ BUILTIN \in PackId /\ DEFAULT \in PackId
    BY DEF RouterAssumption
  <2>2. CASE Reload(d, rules)
    BY <2>1, <2>2, UpsertType, CatalogueChange DEF Reload
  <2>3. CASE ReloadUser(d, rules)
    BY <2>1, <2>3, UpsertType, CatalogueChange DEF ReloadUser
  <2> QED  BY <1>3, <2>2, <2>3
<1>4. CASE AddWrite(d)
  <2>1. PICK p \in PackId, old \in RuleMap, new \in RuleMap :
            admin[d].pack = p /\ admin[d].old = old /\ admin[d].new = new
    BY <1>4 DEF AddWrite, IInv, TypeOK, AdminState
  <2>2. UpsertPack(p, Updated(old, new)) /\ Updated(old, new) \in RuleMap
    BY <1>4, <2>1, RuleMapFacts DEF AddWrite
  <2> QED  BY <1>4, <2>2, UpsertType, CatalogueChange DEF AddWrite
<1>5. CASE RemoveWrite(d)
  <2>1. PICK p \in PackId, rules \in RuleMap :
            admin[d].pack = p /\ admin[d].rules = rules
    BY <1>5 DEF RemoveWrite, IInv, TypeOK, AdminState
  <2>2. UpsertPack(p, rules)
    BY <1>5, <2>1 DEF RemoveWrite
  <2> QED  BY <1>5, <2>2, UpsertType, CatalogueChange DEF RemoveWrite
<1>6. ASSUME NEW p \in PackId, NEW new \in Contents, NEW override \in BOOLEAN,
             AddRules(d, p, new, override)
      PROVE  IInv'
  <2>1. PICK old \in RuleMap : old = IF p \in DOMAIN packs THEN packs[p] ELSE Empty
    BY RuleMapFacts DEF IInv, TypeOK
  <2>2. PICK at \in {"scan", "write"} : at = IF override THEN "write" ELSE "scan"
    OBVIOUS
  <2>3. PICK state \in AdminState : state = [at |-> at, pack |-> p, old |-> old, new |-> new]
    BY DEF AdminState, RouterAssumption
  <2>4. admin[d].at = "idle" /\ admin' = [admin EXCEPT ![d] = state]
    BY <1>6, <2>1, <2>2, <2>3 DEF AddRules, At
  <2> QED  BY <1>6, <2>3, <2>4, OnlyRead DEF AddRules
<1>7. CASE AddScan(d)
  <2> DEFINE loaded == UNION {DOMAIN packs[p] : p \in DOMAIN packs}
  <2>1. PICK p \in PackId, old \in RuleMap, new \in RuleMap :
            admin[d].pack = p /\ admin[d].old = old /\ admin[d].new = new
    BY <1>7 DEF AddScan, IInv, TypeOK, AdminState
  <2>2. Without(new, loaded) \in RuleMap
    BY RuleMapFacts
  <2>3. PICK state \in AdminState :
            state = [at |-> "write", pack |-> p, old |-> old, new |-> Without(new, loaded)]
    BY <2>2 DEF AdminState
  <2>4. admin' = [admin EXCEPT ![d] = state]
    BY <1>7, <2>1, <2>3 DEF AddScan
  <2> QED  BY <1>7, <2>3, <2>4, OnlyRead DEF AddScan
<1>8. ASSUME NEW p \in PackId, NEW r \in Rule, RemoveRule(d, r, p)
      PROVE  IInv'
  <2>1. Without(packs[p], {r}) \in RuleMap
    BY <1>8, RuleMapFacts DEF RemoveRule, IInv, TypeOK
  <2>2. PICK state \in AdminState :
            state = [at |-> "remove", pack |-> p, rules |-> Without(packs[p], {r})]
    BY <2>1 DEF AdminState
  <2>3. admin[d].at = "idle" /\ admin' = [admin EXCEPT ![d] = state]
    BY <1>8, <2>2 DEF RemoveRule, At
  <2> QED  BY <1>8, <2>2, <2>3, OnlyRead DEF RemoveRule
<1>9. ASSUME NEW a \in Agent, NEW p \in PackId, Bind(d, a, p) \/ Unbind(d, a, p)
      PROVE  IInv'
  BY <1>9, BindPreserves, UnbindPreserves
<1>10. CASE Pop(d) \/ Invalidate(d) \/ ReloadRaises(d)
  BY <1>10, PopPreserves, EndPreserves
<1> QED
  BY <1>1, <1>2, <1>3, <1>4, <1>5, <1>6, <1>7, <1>8, <1>9, <1>10 DEF Manage

-----------------------------------------------------------------------------
(* The theorems.                                                           *)

\* Nothing is cached when the Guard has been built, and nothing is under way.
LEMMA InitIInv == ASSUME RouterAssumption, Init PROVE IInv
<1>1. PICK b \in Contents, d \in Contents : packs = Set(Set(Empty, BUILTIN, b), DEFAULT, d)
  BY DEF Init
<1>2. /\ DOMAIN packs = {BUILTIN, DEFAULT} /\ packs[DEFAULT] = d /\ packs[BUILTIN] = b
  <2>1. PICK pk : pk = Set(Empty, BUILTIN, b)
    OBVIOUS
  <2>2. DOMAIN pk = {BUILTIN} /\ pk[BUILTIN] = b
    BY <2>1, RuleMapFacts DEF Set
  <2>3. packs = Set(pk, DEFAULT, d)
    BY <1>1, <2>1
  <2> QED  BY <2>2, <2>3 DEF Set, RouterAssumption
<1>3. DOMAIN cache = {} /\ DOMAIN views = {}
  BY RuleMapFacts DEF Init
<1>4. (\A c \in Caller : caller[c].at = "idle") /\ (\A e \in Admin : admin[e].at = "idle")
  BY DEF Init, At
<1>5. TypeOK
  <2>1. \A p \in DOMAIN packs : packs[p] \in RuleMap
    BY <1>2 DEF RouterAssumption
  <2>2. caller \in [Caller -> CallerState] /\ admin \in [Admin -> AdminState]
    BY DEF Init, At, CallerState, AdminState
  <2>3. lock = NoThread /\ \A c \in Caller : c # NoThread
    BY DEF Init, RouterAssumption
  <2> QED  BY <1>2, <1>3, <1>4, <2>1, <2>2, <2>3 DEF Init, TypeOK, RouterAssumption
<1> QED
  BY <1>3, <1>4, <1>5 DEF IInv, MergeFresh, CacheFresh, BuiltinReachesEveryAgent,
                          StoreExplained, StaleViewsExplained

\* A stuttering step changes nothing.
LEMMA UnchangedPreserves == ASSUME IInv, UNCHANGED vars PROVE IInv'
BY DEF IInv, TypeOK, MergeFresh, CacheFresh, BuiltinReachesEveryAgent, StoreExplained,
       StaleViewsExplained, Pending, Unbinding, RulesOf, PacksOf, vars

\* The invariant holds throughout, for any agents, packs, rules and threads.
LEMMA Invariance == ASSUME RouterAssumption PROVE Spec => []IInv
<1>1. Init => IInv
  BY InitIInv
<1>2. IInv /\ [Next]_vars => IInv'
  <2> SUFFICES ASSUME IInv, [Next]_vars PROVE IInv'
    OBVIOUS
  <2>1. ASSUME NEW c \in Caller, Evaluate(c) PROVE IInv'
    BY <2>1, ReadPreserves, MergePreserves, StorePreserves DEF Evaluate
  <2>2. ASSUME NEW d \in Admin, Manage(d) PROVE IInv'
    BY <2>2, ManagePreserves
  <2>3. CASE UNCHANGED vars
    BY <2>3, UnchangedPreserves
  <2> QED  BY <2>1, <2>2, <2>3 DEF Next
<1> QED  BY <1>1, <1>2, PTL DEF Spec

\* Every variable keeps its type, and the router's lock is held exactly while
\* an evaluation merges.
THEOREM TypeCorrect == Spec => []TypeOK
<1>1. IInv => TypeOK
  BY DEF IInv
<1> QED  BY <1>1, Invariance, RouterAssumption, PTL

\* rules_for_agent never serves an out-of-date list, but while an unbind of the
\* agent is between the binding store and the router.
THEOREM RouterCacheIsFresh == Spec => []CacheFresh
<1>1. IInv => CacheFresh
  BY DEF IInv
<1> QED  BY <1>1, Invariance, RouterAssumption, PTL

\* No cached list lacks a rule id of the built-in pack.
THEOREM BuiltinAlwaysApplies == Spec => []BuiltinReachesEveryAgent
<1>1. IInv => BuiltinReachesEveryAgent
  BY DEF IInv
<1> QED  BY <1>1, Invariance, RouterAssumption, PTL

\* FastEvaluator's views are out of date only while a change is under way, after
\* a store that was overtaken by an invalidation, or after a failed reload.
THEOREM StaleViewsAreExplained == Spec => []StaleViewsExplained
<1>1. IInv => StaleViewsExplained
  BY DEF IInv
<1> QED  BY <1>1, Invariance, RouterAssumption, PTL

=============================================================================
