------------------------ MODULE RemoteServiceProofs ------------------------
EXTENDS RemoteService, TLAPS

Owner == Agents \cup {NoAgent}

\* Where a call may be.
Place == {"idle", "waits", "ran", "refused", "pending", "dryRun", "unjudged", "failed"}

\* A registration on its way has an owner.
Registration ==
    {g \in [at : {"new", "sent", "found", "stored"}, owner : Owner,
            found : Labels \cup {NoLabel}, waited : BOOLEAN] :
        g.at \in {"sent", "found"} => g.owner \in Agents}

TypeOK ==
    /\ config \in ConfigSpace
    /\ session \in [now : Owner, outer : Owner, token : BOOLEAN]
    /\ call \in [Calls ->
           [at : Place, gated : BOOLEAN]]
    /\ request \in [Calls ->
           [at : {"none", "sent", "reviewed", "answered", "delivered", "gone"},
            by : Owner, action : Actions, first : Actions, text : Texts \cup {NoText}]]
    /\ reg \in [Regs -> Registration]
    /\ catalog \in [Agents -> Labels \cup {NoLabel}]
    /\ given \in [Agents -> Labels \cup {NoLabel}]
    /\ lost \subseteq Agents
    /\ spent \in [patches : Nat, switches : Nat, restarts : Nat]

\* Why a request has the action it has: the rules', or the one that the
\* language model's text stands for.
AnswerExplained(q) ==
    /\ q.at = "reviewed" => q.first = "LLM_CHECK"
    /\ q.at \in {"answered", "delivered"} =>
           /\ q.action # "LLM_CHECK"
           /\ q.action = q.first \/ (q.first = "LLM_CHECK" /\ q.action = Parse(q.text))

\* Why a call is where it is.
CallExplained(c) ==
    /\ call[c].at = "waits" => request[c].at # "delivered"
    /\ call[c].at = "idle" => ~call[c].gated /\ request[c].at = "none"
    /\ call[c].at = "ran" /\ config.mode # "monitor" =>
           IF Served(c) THEN request[c].action \in {"ALLOW", "DEGRADE"} ELSE config.failOpen
    /\ call[c].at = "unjudged" => config.async /\ ~Served(c)

\* A gated call is by an agent whose tool is behind the gate, until the rules
\* have held it.
GatedExplained(c) ==
    call[c].gated =>
        /\ request[c].at = "sent" =>
               request[c].by \in Agents \ lost /\ given[request[c].by] = Gate
        /\ request[c].at \in {"reviewed", "answered", "delivered"} =>
               request[c].at # "reviewed" /\ request[c].action \in {"DENY", "HUMAN_CHECK"}

CallsExplained ==
    \A c \in Calls : AnswerExplained(request[c]) /\ CallExplained(c) /\ GatedExplained(c)

\* The label that an operator has given is the one in the catalog, unless
\* something has undone it.
LabelsStay == \A a \in Agents \ lost : given[a] # NoLabel => catalog[a] = given[a]

IInv == TypeOK /\ CallsExplained /\ LabelsStay

-----------------------------------------------------------------------------
(* The language model's text, and the client's decision.                   *)

\* _parse_llm_review_response: an LLM_CHECK becomes one of three actions, and
\* ALLOW only where the text says so.
LEMMA ParseFacts ==
    ASSUME NEW text \in Texts \cup {NoText}
    PROVE  /\ Parse(text) \in {"ALLOW", "DENY", "HUMAN_CHECK"}
           /\ Parse(text) = "ALLOW" =>
                  \/ text.decision = "allow"
                  \/ text.decision = "absent" /\ ~text.reason /\ text.starts = "allow"
<1>1. CASE text = NoText
  BY <1>1 DEF Parse
<1>2. CASE text \in Texts
  <2>1. text.decision \in {"allow", "deny", "other", "absent"}
        /\ text.starts \in {"allow", "deny", "other"}
    BY <1>2 DEF Texts, Words
  <2>2. /\ Verdict["allow"] = "ALLOW" /\ Verdict["deny"] = "DENY"
        /\ Verdict["other"] = "HUMAN_CHECK" /\ Verdict["absent"] = "HUMAN_CHECK"
    BY DEF Verdict
  <2> QED  BY <1>2, <2>1, <2>2 DEF Parse, Texts, NoText
<1> QED  BY <1>1, <1>2

\* RemotePipeline.guarded_call and async_wrapper: outside monitor mode DENY and
\* HUMAN_CHECK never run the tool.
LEMMA ObeyFacts ==
    ASSUME TypeOK, NEW action \in Actions
    PROVE  /\ Obey(action) \in {"ran", "refused", "pending", "dryRun"}
           /\ Obey(action) = "ran" /\ config.mode # "monitor" =>
                  action \notin {"DENY", "HUMAN_CHECK"}
BY DEF Obey, TypeOK, ConfigSpace, Actions

\* Ungate changes only what is promised.
LEMMA UngateFacts ==
    ASSUME TypeOK, NEW owners
    PROVE  /\ Ungate(owners) \in [Calls ->
                  [at : Place, gated : BOOLEAN]]
           /\ \A c \in Calls :
                  /\ Ungate(owners)[c].at = call[c].at
                  /\ Ungate(owners)[c].gated =>
                         /\ call[c].gated
                         /\ request[c].at = "sent" => request[c].by \notin owners
<1>1. ASSUME NEW c \in Calls
      PROVE  /\ Ungate(owners)[c] \in
                    [at : Place, gated : BOOLEAN]
             /\ Ungate(owners)[c].at = call[c].at
             /\ Ungate(owners)[c].gated =>
                    /\ call[c].gated
                    /\ request[c].at = "sent" => request[c].by \notin owners
  <2>1. call[c] \in [at : Place, gated : BOOLEAN]
    BY DEF TypeOK
  <2>2. CASE request[c].at = "sent" /\ request[c].by \in owners
    <3>1. Ungate(owners)[c] = [call[c] EXCEPT !.gated = FALSE]
      BY <2>2 DEF Ungate
    <3> QED  BY <2>1, <3>1
  <2>3. CASE ~(request[c].at = "sent" /\ request[c].by \in owners)
    <3>1. Ungate(owners)[c] = call[c]
      BY <2>3 DEF Ungate
    <3> QED  BY <2>1, <2>3, <3>1
  <2> QED  BY <2>2, <2>3
<1> QED  BY <1>1 DEF Ungate

-----------------------------------------------------------------------------
(* Every step preserves the invariant.                                     *)

\* Before the server has come up nothing is promised.
LEMMA InitIInv == ASSUME RemoteAssumption, Init PROVE IInv
<1>1. NoRequest \in
          [at : {"none", "sent", "reviewed", "answered", "delivered", "gone"},
           by : Owner, action : Actions, first : Actions, text : Texts \cup {NoText}]
  BY DEF NoRequest, Owner, Actions
<1>2. /\ config \in ConfigSpace
      /\ session \in [now : Owner, outer : Owner, token : BOOLEAN]
      /\ catalog \in [Agents -> Labels \cup {NoLabel}]
      /\ given \in [Agents -> Labels \cup {NoLabel}]
      /\ lost \subseteq Agents
      /\ spent \in [patches : Nat, switches : Nat, restarts : Nat]
  BY DEF Init, RemoteAssumption, Owner
<1>3. /\ call \in [Calls ->
             [at : Place, gated : BOOLEAN]]
      /\ request \in [Calls ->
             [at : {"none", "sent", "reviewed", "answered", "delivered", "gone"},
              by : Owner, action : Actions, first : Actions, text : Texts \cup {NoText}]]
  BY <1>1 DEF Init, Place
<1>4. reg \in [Regs -> Registration]
  BY DEF Init, Owner, Registration
<1>5. TypeOK
  BY <1>2, <1>3, <1>4 DEF TypeOK
<1>6. CallsExplained
  BY DEF Init, CallsExplained, AnswerExplained, CallExplained, GatedExplained, NoRequest
<1>7. LabelsStay
  BY DEF Init, LabelsStay
<1> QED  BY <1>5, <1>6, <1>7 DEF IInv

\* Counting keeps the counters numbers.
LEMMA SpendFacts ==
    ASSUME TypeOK, NEW what \in {"patches", "switches", "restarts"}, NEW most, Spend(what, most)
    PROVE  spent' \in [patches : Nat, switches : Nat, restarts : Nat]
BY DEF TypeOK, Spend

\* A step that leaves the calls, the requests and the labels alone keeps what
\* is promised of them.
LEMMA OthersKeep ==
    ASSUME CallsExplained, LabelsStay,
           UNCHANGED <<config, call, request, catalog, given, lost>>
    PROVE  CallsExplained' /\ LabelsStay'
BY DEF CallsExplained, LabelsStay, AnswerExplained, CallExplained, GatedExplained, Served

\* The session of the SDK process.
LEMMA SessionKeeps ==
    ASSUME RemoteAssumption, IInv,
           End \/ \E a \in Agents : Start(a) \/ SetPrincipal(a)
    PROVE  IInv'
<1>1. UNCHANGED <<config, call, request, reg, catalog, given, lost>>
  BY DEF End, Start, SetPrincipal
<1>2. /\ session' \in [now : Owner, outer : Owner, token : BOOLEAN]
      /\ spent' \in [patches : Nat, switches : Nat, restarts : Nat]
  <2>1. CASE End
    BY <2>1 DEF End, IInv, TypeOK, Owner
  <2>2. ASSUME NEW a \in Agents, Start(a) \/ SetPrincipal(a)
        PROVE  /\ session' \in [now : Owner, outer : Owner, token : BOOLEAN]
               /\ spent' \in [patches : Nat, switches : Nat, restarts : Nat]
    <3>1. spent' \in [patches : Nat, switches : Nat, restarts : Nat]
      BY <2>2, SpendFacts DEF Start, SetPrincipal, IInv
    <3>2. session' \in [now : Owner, outer : Owner, token : BOOLEAN]
      <4>1. session \in [now : Owner, outer : Owner, token : BOOLEAN] /\ a \in Owner
        BY DEF IInv, TypeOK, Owner
      <4>2. CASE Start(a)
        <5>1. session' = [now |-> a, token |-> TRUE,
                          outer |-> IF session.token THEN session.outer ELSE session.now]
          BY <4>2 DEF Start
        <5> QED  BY <4>1, <5>1
      <4>3. CASE SetPrincipal(a)
        <5>1. session' = [session EXCEPT !.now = a]
          BY <4>3 DEF SetPrincipal
        <5> QED  BY <4>1, <5>1
      <4> QED  BY <2>2, <4>2, <4>3
    <3> QED  BY <3>1, <3>2
  <2> QED  BY <2>1, <2>2
<1>3. TypeOK'
  BY <1>1, <1>2 DEF IInv, TypeOK
<1> QED  BY <1>1, <1>3, OthersKeep DEF IInv

\* What a registration does at its sender, and its look at the catalogue.
LEMMA RegisterKeeps ==
    ASSUME RemoteAssumption, IInv, NEW r \in Regs, Register(r) \/ FindTool(r) \/ Registered(r)
    PROVE  IInv'
<1>1. UNCHANGED <<config, session, call, request, catalog, given, lost, spent>>
  BY DEF Register, FindTool, Registered
<1>2. reg' \in [Regs -> Registration]
  <2>1. reg[r] \in Registration /\ session.now \in Owner /\ reg \in [Regs -> Registration]
    BY DEF IInv, TypeOK
  <2>2. CASE Register(r)
    <3> DEFINE g == [reg[r] EXCEPT !.at = "sent", !.owner = session.now, !.waited = TRUE]
    <3>1. reg' = [reg EXCEPT ![r] = g] /\ session.now \in Agents
      BY <2>1, <2>2 DEF Register, Owner
    <3>2. g \in Registration
      BY <2>1, <3>1 DEF Registration
    <3> HIDE DEF g
    <3> QED  BY <2>1, <3>1, <3>2
  <2>3. CASE FindTool(r)
    <3> DEFINE g == [reg[r] EXCEPT !.at = "found", !.found = catalog[reg[r].owner]]
    <3>1. reg' = [reg EXCEPT ![r] = g] /\ reg[r].owner \in Agents
      BY <2>1, <2>3 DEF FindTool, Registration
    <3>2. catalog[reg[r].owner] \in Labels \cup {NoLabel}
      BY <3>1 DEF IInv, TypeOK
    <3>3. g \in Registration
      BY <2>1, <3>1, <3>2 DEF Registration
    <3> HIDE DEF g
    <3> QED  BY <2>1, <3>1, <3>3
  <2>4. CASE Registered(r)
    <3> DEFINE g == [reg[r] EXCEPT !.waited = FALSE]
    <3>1. reg' = [reg EXCEPT ![r] = g]
      BY <2>1, <2>4 DEF Registered
    <3>2. g \in Registration
      BY <2>1 DEF Registration
    <3> HIDE DEF g
    <3> QED  BY <2>1, <3>1, <3>2
  <2> QED  BY <2>2, <2>3, <2>4
<1>3. TypeOK'
  BY <1>1, <1>2 DEF IInv, TypeOK
<1> QED  BY <1>1, <1>3, OthersKeep DEF IInv

\* Calls whose promise is taken back keep what is left of it.
LEMMA UngateKeeps ==
    ASSUME IInv, NEW owners, call' = Ungate(owners), UNCHANGED <<config, request>>,
           \A a \in Agents \ owners : a \notin lost /\ given[a] = Gate =>
               a \notin lost' /\ given'[a] = Gate
    PROVE  CallsExplained'
<1> SUFFICES ASSUME NEW c \in Calls
             PROVE  AnswerExplained(request[c])' /\ CallExplained(c)' /\ GatedExplained(c)'
  BY DEF CallsExplained
<1>1. /\ call'[c].at = call[c].at
      /\ call'[c].gated =>
             call[c].gated /\ (request[c].at = "sent" => request[c].by \notin owners)
  BY UngateFacts DEF IInv
<1>2. AnswerExplained(request[c]) /\ CallExplained(c) /\ GatedExplained(c)
  BY DEF IInv, CallsExplained
<1>3. AnswerExplained(request[c])'
  BY <1>2 DEF AnswerExplained
<1>4. CallExplained(c)'
  BY <1>1, <1>2 DEF CallExplained, Served
<1>5. GatedExplained(c)'
  BY <1>1, <1>2 DEF GatedExplained
<1> QED  BY <1>3, <1>4, <1>5

\* A registration that overwrites an operator's label undoes it, and one that
\* finds the label keeps it.
LEMMA StoreToolKeeps ==
    ASSUME RemoteAssumption, IInv, NEW r \in Regs, StoreTool(r)
    PROVE  IInv'
<1> DEFINE a == reg[r].owner
           found == reg[r].found
           label == IF found = NoLabel THEN Declared ELSE found
           next == Upserted(a, label)
           crossed == IF found # catalog[a] THEN Undone(next) ELSE {}
<1>1. /\ catalog' = next /\ lost' = lost \cup crossed /\ call' = Ungate(crossed)
      /\ reg' = [reg EXCEPT ![r] = [@ EXCEPT !.at = "stored", !.found = NoLabel]]
      /\ UNCHANGED <<config, session, request, given, spent>>
  BY DEF StoreTool
<1>2. a \in Agents /\ label \in Labels /\ found \in Labels \cup {NoLabel}
  <2>1. reg[r] \in Registration /\ reg[r].at = "found"
    BY DEF StoreTool, IInv, TypeOK
  <2> QED  BY <2>1 DEF Registration, RemoteAssumption
<1>3. /\ next \in [Agents -> Labels \cup {NoLabel}] /\ next[a] = label
      /\ \A b \in Agents \ {a} : next[b] = catalog[b]
  BY <1>2 DEF Upserted, IInv, TypeOK
<1>4. crossed \subseteq Agents
  BY DEF Undone
<1> HIDE DEF a, found, label, next, crossed
<1>5. TypeOK'
  <2>1. reg' \in [Regs -> Registration]
    <3> DEFINE g == [reg[r] EXCEPT !.at = "stored", !.found = NoLabel]
    <3>1. reg[r] \in Registration /\ reg \in [Regs -> Registration]
      BY DEF IInv, TypeOK
    <3>2. reg' = [reg EXCEPT ![r] = g] /\ g \in Registration
      BY <1>1, <3>1 DEF Registration
    <3> HIDE DEF g
    <3> QED  BY <3>1, <3>2
  <2>2. call' \in [Calls ->
               [at : Place, gated : BOOLEAN]]
    BY <1>1, UngateFacts DEF IInv
  <2> QED  BY <1>1, <1>3, <1>4, <2>1, <2>2 DEF IInv, TypeOK
<1>6. LabelsStay'
  <2>1. SUFFICES ASSUME NEW b \in Agents \ lost', given[b] # NoLabel
                 PROVE  next[b] = given[b]
    BY <1>1 DEF LabelsStay
  <2>2. b \notin lost /\ b \notin crossed /\ catalog[b] = given[b]
    BY <1>1, <2>1 DEF IInv, LabelsStay
  <2>3. CASE found # catalog[a]
    BY <2>1, <2>2, <2>3 DEF crossed, Undone
  <2>4. CASE found = catalog[a]
    <3>1. CASE b = a
      BY <1>3, <2>1, <2>2, <2>4, <3>1 DEF label
    <3>2. CASE b # a
      BY <1>3, <2>2, <3>2
    <3> QED  BY <3>1, <3>2
  <2> QED  BY <2>3, <2>4
<1>7. CallsExplained'
  BY <1>1, UngateKeeps
<1> QED  BY <1>5, <1>6, <1>7 DEF IInv

\* An operator's label is the one in the catalogue, and promises to hold the
\* calls of its agent if it is the gate.
LEMMA PatchLabelsKeeps ==
    ASSUME RemoteAssumption, IInv, NEW a \in Agents, NEW label \in Labels, PatchLabels(a, label)
    PROVE  IInv'
<1>1. /\ catalog' = [catalog EXCEPT ![a] = label]
      /\ given' = [given EXCEPT ![a] = label]
      /\ lost' = lost \ {a}
      /\ call' = (IF label = Gate THEN call ELSE Ungate({a}))
      /\ UNCHANGED <<config, session, request, reg>>
  BY DEF PatchLabels, UpdateLabels
<1>2. TypeOK'
  <2>1. call' \in [Calls ->
               [at : Place, gated : BOOLEAN]]
    <3>1. CASE label = Gate
      BY <1>1, <3>1 DEF IInv, TypeOK
    <3>2. CASE label # Gate
      BY <1>1, <3>2, UngateFacts DEF IInv
    <3> QED  BY <3>1, <3>2
  <2>2. spent' \in [patches : Nat, switches : Nat, restarts : Nat]
    BY SpendFacts DEF PatchLabels, IInv
  <2>3. /\ catalog' \in [Agents -> Labels \cup {NoLabel}]
        /\ given' \in [Agents -> Labels \cup {NoLabel}]
        /\ lost' \subseteq Agents
    BY <1>1 DEF IInv, TypeOK
  <2> QED  BY <1>1, <2>1, <2>2, <2>3 DEF IInv, TypeOK
<1>3. LabelsStay'
  BY <1>1 DEF IInv, TypeOK, LabelsStay
<1>4. CallsExplained'
  <2>1. CASE label = Gate
    <3>1. \A b \in Agents \ lost : given[b] = Gate => b \notin lost' /\ given'[b] = Gate
      BY <1>1, <2>1 DEF IInv, TypeOK
    <3>2. UNCHANGED <<call, config, request>>
      BY <1>1, <2>1
    <3> QED  BY <3>1, <3>2 DEF IInv, CallsExplained, AnswerExplained, CallExplained,
                               GatedExplained, Served
  <2>2. CASE label # Gate
    <3>1. \A b \in Agents \ {a} : b \notin lost /\ given[b] = Gate =>
              b \notin lost' /\ given'[b] = Gate
      BY <1>1 DEF IInv, TypeOK
    <3> QED  BY <1>1, <2>2, <3>1, UngateKeeps
  <2> QED  BY <2>1, <2>2
<1> QED  BY <1>2, <1>3, <1>4 DEF IInv

\* A server that comes up again has lost the requests, and the labels that its
\* store does not keep.
LEMMA RestartKeeps == ASSUME RemoteAssumption, IInv, Restart PROVE IInv'
<1>1. /\ request' = [c \in Calls |->
                        IF request[c].at \in {"sent", "reviewed", "answered"}
                        THEN [request[c] EXCEPT !.at = "gone"] ELSE request[c]]
      /\ catalog' = Kept
      /\ lost' = lost \cup Undone(catalog')
      /\ call' = Ungate(Undone(catalog'))
      /\ UNCHANGED <<config, session, given>>
  BY DEF Restart
<1>2. TypeOK'
  <2>1. reg' \in [Regs -> Registration]
    <3>1. ASSUME NEW r \in Regs
          PROVE  (IF reg[r].at \in {"sent", "found"}
                  THEN [reg[r] EXCEPT !.at = "stored", !.found = NoLabel]
                  ELSE reg[r]) \in Registration
      <4>1. reg[r] \in Registration
        BY DEF IInv, TypeOK
      <4> QED  BY <4>1 DEF Registration
    <3> QED  BY <3>1 DEF Restart
  <2>2. call' \in [Calls ->
               [at : Place, gated : BOOLEAN]]
    BY <1>1, UngateFacts DEF IInv
  <2>3. spent' \in [patches : Nat, switches : Nat, restarts : Nat]
    BY SpendFacts DEF Restart, IInv
  <2>4. catalog' \in [Agents -> Labels \cup {NoLabel}]
    BY <1>1 DEF Kept, IInv, TypeOK
  <2>5. lost' \subseteq Agents
    BY <1>1 DEF IInv, TypeOK, Undone
  <2>6. request' \in [Calls ->
               [at : {"none", "sent", "reviewed", "answered", "delivered", "gone"},
                by : Owner, action : Actions, first : Actions, text : Texts \cup {NoText}]]
    BY <1>1 DEF IInv, TypeOK
  <2> QED  BY <1>1, <2>1, <2>2, <2>3, <2>4, <2>5, <2>6 DEF IInv, TypeOK
<1>3. LabelsStay'
  BY <1>1 DEF LabelsStay, Undone
<1>4. ASSUME NEW c \in Calls
      PROVE  AnswerExplained(request[c])' /\ CallExplained(c)' /\ GatedExplained(c)'
  <2>1. \/ request'[c] = request[c] /\ request[c].at \in {"none", "delivered", "gone"}
        \/ request'[c] = [request[c] EXCEPT !.at = "gone"] /\ request[c].at # "delivered"
    BY <1>1 DEF IInv, TypeOK
  <2>2. call'[c].at = call[c].at /\ (call'[c].gated => call[c].gated)
    BY <1>1, UngateFacts DEF IInv
  <2>3. AnswerExplained(request[c]) /\ CallExplained(c) /\ GatedExplained(c)
    BY DEF IInv, CallsExplained
  <2>4. CASE request'[c] = request[c] /\ request[c].at \in {"none", "delivered", "gone"}
    BY <1>1, <2>2, <2>3, <2>4 DEF AnswerExplained, CallExplained, GatedExplained, Served
  <2>5. CASE request'[c] = [request[c] EXCEPT !.at = "gone"] /\ request[c].at # "delivered"
    <3>1. request'[c].at = "gone" /\ request[c].at # "delivered"
      BY <2>5 DEF IInv, TypeOK
    <3> QED  BY <1>1, <2>2, <2>3, <3>1
             DEF AnswerExplained, CallExplained, GatedExplained, Served
  <2> QED  BY <2>1, <2>4, <2>5
<1> QED  BY <1>2, <1>3, <1>4 DEF IInv, CallsExplained

\* One call and its request: what every step of theirs has to show.
LEMMA CallKeeps ==
    ASSUME IInv, NEW c \in Calls,
           UNCHANGED <<config, session, reg, catalog, given, lost, spent>>,
           NEW k \in [at : Place, gated : BOOLEAN],
           NEW q \in [at : {"none", "sent", "reviewed", "answered", "delivered", "gone"},
                      by : Owner, action : Actions, first : Actions,
                      text : Texts \cup {NoText}],
           call' = [call EXCEPT ![c] = k], request' = [request EXCEPT ![c] = q],
           AnswerExplained(q),
           k.at = "waits" => q.at # "delivered",
           k.at = "idle" => ~k.gated /\ q.at = "none",
           k.at = "ran" /\ config.mode # "monitor" =>
               IF q.at = "delivered" THEN q.action \in {"ALLOW", "DEGRADE"}
                                     ELSE config.failOpen,
           k.at = "unjudged" => config.async /\ q.at # "delivered",
           k.gated =>
               /\ q.at = "sent" => q.by \in Agents \ lost /\ given[q.by] = Gate
               /\ q.at \in {"reviewed", "answered", "delivered"} =>
                      q.at # "reviewed" /\ q.action \in {"DENY", "HUMAN_CHECK"}
    PROVE  IInv'
<1>1. TypeOK'
  BY DEF IInv, TypeOK
<1>2. LabelsStay'
  BY DEF IInv, LabelsStay
<1>3. ASSUME NEW d \in Calls
      PROVE  AnswerExplained(request[d])' /\ CallExplained(d)' /\ GatedExplained(d)'
  <2>1. CASE d = c
    <3>1. call'[d] = k /\ request'[d] = q
      BY <2>1 DEF IInv, TypeOK
    <3> QED  BY <3>1 DEF AnswerExplained, CallExplained, GatedExplained, Served
  <2>2. CASE d # c
    <3>1. call'[d] = call[d] /\ request'[d] = request[d]
      BY <2>2 DEF IInv, TypeOK
    <3> QED  BY <3>1 DEF IInv, CallsExplained, AnswerExplained, CallExplained,
                         GatedExplained, Served
  <2> QED  BY <2>1, <2>2
<1> QED  BY <1>1, <1>2, <1>3 DEF IInv, CallsExplained

\* The calls, their evaluation and their review.
LEMMA CallsKeep ==
    ASSUME RemoteAssumption, IInv, NEW c \in Calls,
           \/ Send(c) \/ Evaluate(c) \/ Review(c) \/ Answered(c)
           \/ GiveUp(c) \/ CannotSend(c) \/ BreaksOff(c)
    PROVE  IInv'
<1> DEFINE K == [at : Place, gated : BOOLEAN]
           Q == [at : {"none", "sent", "reviewed", "answered", "delivered", "gone"},
                 by : Owner, action : Actions, first : Actions, text : Texts \cup {NoText}]
<1>1. /\ call[c] \in K /\ request[c] \in Q
      /\ call \in [Calls -> K] /\ request \in [Calls -> Q]
  BY DEF IInv, TypeOK
<1>2. call = [call EXCEPT ![c] = call[c]] /\ request = [request EXCEPT ![c] = request[c]]
  BY <1>1
<1>3. AnswerExplained(request[c]) /\ CallExplained(c) /\ GatedExplained(c)
  BY DEF IInv, CallsExplained
<1>4. CASE Send(c)
  <2> DEFINE q == [NoRequest EXCEPT !.at = "sent", !.by = session.now]
             k == [at |-> "waits", gated |-> Gated]
  <2>1. /\ call' = [call EXCEPT ![c] = k] /\ request' = [request EXCEPT ![c] = q]
        /\ UNCHANGED <<config, session, reg, catalog, given, lost, spent>>
    BY <1>4 DEF Send
  <2>2. q.at = "sent" /\ q.by = session.now /\ q \in Q
    BY DEF NoRequest, Owner, Actions, IInv, TypeOK
  <2>3. k \in K /\ k.at = "waits"
        /\ (k.gated => session.now \in Agents \ lost /\ given[session.now] = Gate)
    BY DEF Gated, Place
  <2>4. AnswerExplained(q)
    BY <2>2 DEF AnswerExplained
  <2> HIDE DEF q, k
  <2> QED  BY <2>1, <2>2, <2>3, <2>4, CallKeeps
<1>5. CASE Evaluate(c)
  <2>1. PICK action \in ActionsFor[LabelOf(c)] :
            request' = [request EXCEPT
                          ![c].action = action, ![c].first = action,
                          ![c].at = IF action = "LLM_CHECK" THEN "reviewed" ELSE "answered"]
    BY <1>5 DEF Evaluate
  <2> DEFINE q == [request[c] EXCEPT !.action = action, !.first = action,
                          !.at = IF action = "LLM_CHECK" THEN "reviewed" ELSE "answered"]
  <2>2. request' = [request EXCEPT ![c] = q]
    BY <1>1, <2>1
  <2>3. /\ UNCHANGED <<config, session, call, reg, catalog, given, lost, spent>>
        /\ request[c].at = "sent"
    BY <1>5 DEF Evaluate
  <2>4. LabelOf(c) \in Labels
    BY DEF LabelOf, IInv, TypeOK, RemoteAssumption
  <2>5. action \in Actions
    BY <2>4 DEF RemoteAssumption
  <2>6. /\ q \in Q /\ q.action = action /\ q.first = action /\ q.by = request[c].by
        /\ q.at = (IF action = "LLM_CHECK" THEN "reviewed" ELSE "answered")
    BY <1>1, <2>5
  <2>7. call[c].gated => action \in {"DENY", "HUMAN_CHECK"}
    <3>1. SUFFICES ASSUME call[c].gated PROVE action \in {"DENY", "HUMAN_CHECK"}
      OBVIOUS
    <3>2. request[c].by \in Agents \ lost /\ given[request[c].by] = Gate
      BY <1>3, <2>3, <3>1 DEF GatedExplained
    <3>3. LabelOf(c) = Gate
      BY <3>2 DEF LabelOf, IInv, LabelsStay, RemoteAssumption
    <3> QED  BY <2>5, <3>3 DEF RemoteAssumption, Actions
  <2>8. /\ call[c].at = "ran" /\ config.mode # "monitor" => config.failOpen
        /\ call[c].at = "unjudged" => config.async
        /\ call[c].at # "idle"
    BY <1>3, <2>3 DEF CallExplained, Served
  <2>9. AnswerExplained(q)
    BY <2>6 DEF AnswerExplained
  <2>10. /\ q.at \in {"reviewed", "answered"}
         /\ call[c].gated => q.at # "reviewed" /\ q.action \in {"DENY", "HUMAN_CHECK"}
    BY <2>6, <2>7
  <2> HIDE DEF q
  <2>11. IInv'
    BY <1>1, <1>2, <2>2, <2>3, <2>6, <2>8, <2>9, <2>10, CallKeeps
  <2> QED  BY <2>11
<1>6. CASE Review(c)
  <2>1. PICK text \in Contents(config) :
            request' = [request EXCEPT ![c].text = text, ![c].at = "answered",
                                       ![c].action = Parse(text)]
    BY <1>6 DEF Review
  <2> DEFINE q == [request[c] EXCEPT !.text = text, !.at = "answered", !.action = Parse(text)]
  <2>2. request' = [request EXCEPT ![c] = q]
    BY <1>1, <2>1
  <2>3. /\ UNCHANGED <<config, session, call, reg, catalog, given, lost, spent>>
        /\ request[c].at = "reviewed" /\ request[c].first = "LLM_CHECK"
    BY <1>3, <1>6 DEF Review, AnswerExplained
  <2>4. text \in Texts \cup {NoText}
    BY DEF Contents
  <2>5. Parse(text) \in {"ALLOW", "DENY", "HUMAN_CHECK"}
    BY <2>4, ParseFacts
  <2>6. /\ q \in Q /\ q.action = Parse(text) /\ q.text = text /\ q.first = "LLM_CHECK"
        /\ q.at = "answered"
    BY <1>1, <2>3, <2>4, <2>5 DEF Actions
  <2>7. AnswerExplained(q)
    BY <2>5, <2>6 DEF AnswerExplained
  <2>8. ~call[c].gated
    BY <1>3, <2>3 DEF GatedExplained
  <2>9. /\ call[c].at = "ran" /\ config.mode # "monitor" => config.failOpen
        /\ call[c].at = "unjudged" => config.async
        /\ call[c].at # "idle"
    BY <1>3, <2>3 DEF CallExplained, Served
  <2> HIDE DEF q
  <2> QED  BY <1>1, <1>2, <2>2, <2>3, <2>6, <2>7, <2>8, <2>9, CallKeeps
<1>7. CASE Answered(c)
  <2> DEFINE q == [request[c] EXCEPT !.at = "delivered"]
             k == [call[c] EXCEPT !.at = Obey(request[c].action)]
  <2>1. /\ request' = [request EXCEPT ![c] = q] /\ call' = [call EXCEPT ![c] = k]
        /\ UNCHANGED <<config, session, reg, catalog, given, lost, spent>>
        /\ request[c].at = "answered"
    BY <1>1, <1>7 DEF Answered, Lets
  <2>2. request[c].action \in Actions
    BY <1>1
  <2>3. /\ Obey(request[c].action) \in {"ran", "refused", "pending", "dryRun"}
        /\ Obey(request[c].action) = "ran" /\ config.mode # "monitor" =>
               request[c].action \notin {"DENY", "HUMAN_CHECK"}
    BY <2>2, ObeyFacts DEF IInv
  <2>4. q \in Q /\ q.at = "delivered" /\ q.action = request[c].action
        /\ q.first = request[c].first /\ q.text = request[c].text
    BY <1>1
  <2>5. k \in K /\ k.at = Obey(request[c].action) /\ k.gated = call[c].gated
    BY <1>1, <2>3 DEF Place
  <2>6. AnswerExplained(q) /\ q.action # "LLM_CHECK"
    BY <1>3, <2>1, <2>4 DEF AnswerExplained
  <2>7. k.gated => q.action \in {"DENY", "HUMAN_CHECK"}
    BY <1>3, <2>1, <2>4, <2>5 DEF GatedExplained
  <2>8. k.at = "ran" /\ config.mode # "monitor" => q.action \in {"ALLOW", "DEGRADE"}
    BY <2>2, <2>3, <2>4, <2>5, <2>6 DEF Actions
  <2> HIDE DEF q, k
  <2> QED  BY <2>1, <2>3, <2>4, <2>5, <2>6, <2>7, <2>8, CallKeeps
<1>8. CASE GiveUp(c)
  <2> DEFINE k == [call[c] EXCEPT !.at = Obey(Fallback)]
  <2>1. /\ call' = [call EXCEPT ![c] = k]
        /\ UNCHANGED <<config, session, request, reg, catalog, given, lost, spent>>
        /\ call[c].at = "waits"
    BY <1>1, <1>8 DEF GiveUp, Lets
  <2>2. Fallback \in Actions /\ (~config.failOpen => Fallback = "DENY")
    BY DEF Fallback, Actions
  <2>3. /\ Obey(Fallback) \in {"ran", "refused", "pending", "dryRun"}
        /\ Obey(Fallback) = "ran" /\ config.mode # "monitor" => config.failOpen
    BY <2>2, ObeyFacts DEF IInv
  <2>4. k \in K /\ k.at = Obey(Fallback) /\ k.gated = call[c].gated
    BY <1>1, <2>3 DEF Place
  <2>5. request[c].at # "delivered"
    BY <1>3, <2>1 DEF CallExplained
  <2>6. k.gated =>
            /\ request[c].at = "sent" =>
                   request[c].by \in Agents \ lost /\ given[request[c].by] = Gate
            /\ request[c].at \in {"reviewed", "answered", "delivered"} =>
                   request[c].at # "reviewed" /\ request[c].action \in {"DENY", "HUMAN_CHECK"}
    BY <1>3, <2>4 DEF GatedExplained
  <2> HIDE DEF k
  <2> QED  BY <1>1, <1>2, <1>3, <2>1, <2>3, <2>4, <2>5, <2>6, CallKeeps
<1>9. CASE CannotSend(c)
  <2> DEFINE k == [at |-> Unheard, gated |-> Gated]
  <2>1. /\ call' = [call EXCEPT ![c] = k] /\ call[c].at = "idle"
        /\ UNCHANGED <<config, session, request, reg, catalog, given, lost, spent>>
    BY <1>9 DEF CannotSend
  <2>2. /\ k \in K /\ k.at \in {"unjudged", "failed"}
        /\ k.at = "unjudged" => config.async
        /\ k.gated => session.now \in Agents \ lost /\ given[session.now] = Gate
    BY DEF Gated, Unheard, Place
  <2>3. request[c].at = "none"
    BY <1>3, <2>1 DEF CallExplained
  <2> HIDE DEF k
  <2> QED  BY <1>1, <1>2, <1>3, <2>1, <2>2, <2>3, CallKeeps
<1>10. CASE BreaksOff(c)
  <2> DEFINE k == [call[c] EXCEPT !.at = Unheard]
  <2>1. /\ call' = [call EXCEPT ![c] = k] /\ call[c].at = "waits"
        /\ UNCHANGED <<config, session, request, reg, catalog, given, lost, spent>>
    BY <1>1, <1>10 DEF BreaksOff, Lets
  <2>2. /\ k \in K /\ k.at \in {"unjudged", "failed"} /\ k.gated = call[c].gated
        /\ k.at = "unjudged" => config.async
    BY <1>1 DEF Unheard, Place
  <2>3. request[c].at # "delivered"
    BY <1>3, <2>1 DEF CallExplained
  <2>4. k.gated =>
            /\ request[c].at = "sent" =>
                   request[c].by \in Agents \ lost /\ given[request[c].by] = Gate
            /\ request[c].at \in {"reviewed", "answered", "delivered"} =>
                   request[c].at # "reviewed" /\ request[c].action \in {"DENY", "HUMAN_CHECK"}
    BY <1>3, <2>2 DEF GatedExplained
  <2> HIDE DEF k
  <2> QED  BY <1>1, <1>2, <1>3, <2>1, <2>2, <2>3, <2>4, CallKeeps
<1> QED  BY <1>4, <1>5, <1>6, <1>7, <1>8, <1>9, <1>10

-----------------------------------------------------------------------------
(* The theorems.                                                           *)

\* The invariant holds throughout, for any calls, agents, labels and guards.
LEMMA Invariance == Spec => []IInv
<1> USE RemoteAssumption
<1>1. Init => IInv
  BY InitIInv
<1>2. IInv /\ [Next]_vars => IInv'
  <2> SUFFICES ASSUME IInv, [Next]_vars PROVE IInv'
    OBVIOUS
  <2>1. CASE Next
    BY <2>1, SessionKeeps, RegisterKeeps, StoreToolKeeps, PatchLabelsKeeps, RestartKeeps,
       CallsKeep DEF Next
  <2>2. CASE UNCHANGED vars
    BY <2>2, OthersKeep DEF vars, IInv, TypeOK
  <2> QED  BY <2>1, <2>2
<1> QED  BY <1>1, <1>2, PTL DEF Spec

\* Every variable of the guard and the server keeps its type, and a
\* registration on its way has an owner.
THEOREM TypeCorrect == Spec => []TypeOK
BY Invariance, PTL DEF IInv

\* RemotePipeline, RemoteGuardClient.evaluate, resolve_remote_decision: a tool
\* runs only where the rules, a language model that was asked, fail_open, monitor
\* mode or an exception under async_wrapper let it, and no LLM_CHECK leaves the
\* server.
THEOREM RunsAreExplained == Spec => []RunsExplained
<1>1. ASSUME IInv, NEW c \in Calls
      PROVE  /\ Served(c) => request[c].action # "LLM_CHECK"
             /\ Ran(c) /\ config.mode # "monitor" =>
                    \/ LetUnheard(c)
                    \/ Served(c) /\ request[c].first \in {"ALLOW", "DEGRADE"}
                    \/ /\ Served(c) /\ request[c].first = "LLM_CHECK"
                       /\ \/ request[c].text.decision = "allow"
                          \/ /\ request[c].text.decision = "absent"
                             /\ ~request[c].text.reason
                             /\ request[c].text.starts = "allow"
  <2>1. AnswerExplained(request[c]) /\ CallExplained(c)
    BY <1>1 DEF IInv, CallsExplained
  <2>2. request[c].text \in Texts \cup {NoText}
    BY <1>1 DEF IInv, TypeOK
  <2>3. /\ Parse(request[c].text) \in {"ALLOW", "DENY", "HUMAN_CHECK"}
        /\ Parse(request[c].text) = "ALLOW" =>
               \/ request[c].text.decision = "allow"
               \/ /\ request[c].text.decision = "absent" /\ ~request[c].text.reason
                  /\ request[c].text.starts = "allow"
    BY <2>2, ParseFacts
  <2> QED  BY <2>1, <2>3 DEF AnswerExplained, CallExplained, Served, Ran, LetUnheard
<1>2. IInv => RunsExplained
  BY <1>1 DEF RunsExplained
<1> QED  BY <1>2, Invariance, PTL

\* patch_tool_labels, _apply_catalog_tool_labels, evaluate, guarded_call: while
\* the operator's label stays, the calls it gates do not run.
THEOREM GatedCallsAreStopped == Spec => []GatedCallsStop
<1>1. ASSUME IInv, NEW c \in Calls, call[c].gated, Ran(c),
             config.mode # "monitor"
      PROVE  LetUnheard(c)
  BY <1>1 DEF IInv, CallsExplained, CallExplained, GatedExplained, Served, Ran, LetUnheard
<1>2. IInv => GatedCallsStop
  BY <1>1 DEF GatedCallsStop
<1> QED  BY <1>2, Invariance, PTL
=============================================================================
