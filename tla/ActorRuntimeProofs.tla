------------------------- MODULE ActorRuntimeProofs -------------------------
EXTENDS ActorRuntime, Integers, FiniteSetTheorems, SequenceTheorems, TLAPS

\* What travels between the actors.
Msg == [event : Event, verdict : Verdicts \cup {NoVerdict}]

States == {"none", "pending", "result", "failed", "cancelled", "shutdown"}

-----------------------------------------------------------------------------
(* Queues and mailboxes.                                                   *)

\* What a sequence holds once an element is taken from it or put into it.
LEMMA ElementsFacts ==
    ASSUME NEW S, NEW s \in Seq(S)
    PROVE  /\ Elements(s) \subseteq S
           /\ \A x : Elements(Append(s, x)) = Elements(s) \cup {x}
           /\ s # <<>> => /\ Head(s) \in Elements(s)
                          /\ Elements(Tail(s)) \subseteq Elements(s)
                          /\ Tail(s) \in Seq(S)
           /\ \A t \in Seq(S) : Elements(s \o t) = Elements(s) \cup Elements(t)
<1>1. Elements(s) \subseteq S
  BY DEF Elements
<1>2. ASSUME NEW x
      PROVE  Elements(Append(s, x)) = Elements(s) \cup {x}
  <2> DEFINE t == Append(s, x)
  <2>1. Len(t) = Len(s) + 1 /\ t[Len(s) + 1] = x /\ \A i \in 1..Len(s) : t[i] = s[i]
    OBVIOUS
  <2>2. Elements(t) \subseteq Elements(s) \cup {x}
    BY <2>1 DEF Elements
  <2>3. Elements(s) \subseteq Elements(t) /\ x \in Elements(t)
    BY <2>1 DEF Elements
  <2> QED  BY <2>2, <2>3
<1>3. ASSUME s # <<>>
      PROVE  /\ Head(s) \in Elements(s)
             /\ Elements(Tail(s)) \subseteq Elements(s)
             /\ Tail(s) \in Seq(S)
  <2>1. Len(s) \in Nat /\ Len(s) >= 1 /\ Head(s) = s[1]
    BY <1>3
  <2>2. Len(Tail(s)) = Len(s) - 1 /\ \A i \in 1..(Len(s) - 1) : Tail(s)[i] = s[i + 1]
    BY <1>3
  <2> QED  BY <1>3, <2>1, <2>2 DEF Elements
<1>4. ASSUME NEW t \in Seq(S)
      PROVE  Elements(s \o t) = Elements(s) \cup Elements(t)
  <2> DEFINE u == s \o t
  <2>1. /\ Len(u) = Len(s) + Len(t)
        /\ \A i \in 1..Len(s) : u[i] = s[i]
        /\ \A i \in 1..Len(t) : u[Len(s) + i] = t[i]
    OBVIOUS
  <2>2. ASSUME NEW i \in 1..Len(u)
        PROVE  u[i] \in Elements(s) \cup Elements(t)
    <3>1. CASE i \in 1..Len(s)
      BY <2>1, <3>1 DEF Elements
    <3>2. CASE i \notin 1..Len(s)
      <4>1. i - Len(s) \in 1..Len(t) /\ i = Len(s) + (i - Len(s))
        BY <2>1, <3>2
      <4> QED  BY <2>1, <4>1 DEF Elements
    <3> QED  BY <3>1, <3>2
  <2>3. ASSUME NEW i \in 1..Len(t)
        PROVE  t[i] \in Elements(u)
    <3>1. Len(s) + i \in 1..Len(u)
      BY <2>1
    <3> QED  BY <2>1, <3>1 DEF Elements
  <2>4. \A i \in 1..Len(s) : s[i] \in Elements(u)
    BY <2>1 DEF Elements
  <2> QED  BY <2>2, <2>3, <2>4 DEF Elements
<1> QED  BY <1>1, <1>2, <1>3, <1>4

\* A publication reaches only the mailboxes of its targets, and the publisher's
\* own mailbox loses its first message.
LEMMA DeliverFacts ==
    ASSUME mailbox \in [Actor -> Seq(Msg)], subs \in [Actor -> Int],
           NEW from, from \in Actor => mailbox[from] # <<>>,
           NEW targets, NEW m \in Msg, Deliver(from, targets, m)
    PROVE  /\ mailbox' \in [Actor -> Seq(Msg)]
           /\ \A a \in Actor : \A x \in Elements(mailbox'[a]) :
                  x \in Elements(mailbox[a]) \/ (a \in targets /\ x = m)
<1> DEFINE Kept(a) == IF a = from THEN Tail(mailbox[a]) ELSE mailbox[a]
           Added(a) == IF a \in targets THEN Copies(a, m) ELSE <<>>
<1>1. mailbox' = [a \in Actor |-> Kept(a) \o Added(a)]
  BY DEF Deliver
<1>2. ASSUME NEW a \in Actor
      PROVE  Kept(a) \in Seq(Msg) /\ Elements(Kept(a)) \subseteq Elements(mailbox[a])
  BY ElementsFacts
<1>3. ASSUME NEW a \in Actor
      PROVE  /\ Added(a) \in Seq(Msg)
             /\ \A x \in Elements(Added(a)) : a \in targets /\ x = m
  <2>1. CASE a \in targets
    <3>1. subs[a] \in Int
      OBVIOUS
    <3>2. CASE subs[a] >= 0
      <4>1. Copies(a, m) \in [1..subs[a] -> Msg] /\ subs[a] \in Nat
        BY <3>1, <3>2 DEF Copies
      <4>2. Copies(a, m) \in Seq(Msg)
        BY <4>1, SeqDef
      <4>3. Len(Copies(a, m)) = subs[a]
        BY <4>1, <4>2
      <4> QED  BY <2>1, <4>1, <4>2, <4>3 DEF Elements, Copies
    <3>3. CASE subs[a] < 0
      <4>1. Copies(a, m) = <<>>
        BY <3>1, <3>3 DEF Copies
      <4> QED  BY <2>1, <4>1 DEF Elements
    <3> QED  BY <3>1, <3>2, <3>3
  <2>2. CASE a \notin targets
    BY <2>2 DEF Elements
  <2> QED  BY <2>1, <2>2
<1> HIDE DEF Kept, Added
<1>4. ASSUME NEW a \in Actor
      PROVE  /\ mailbox'[a] \in Seq(Msg)
             /\ Elements(mailbox'[a]) = Elements(Kept(a)) \cup Elements(Added(a))
  <2>1. mailbox'[a] = Kept(a) \o Added(a)
    BY <1>1
  <2> QED  BY <1>2, <1>3, <2>1, ElementsFacts
<1>5. mailbox' \in [Actor -> Seq(Msg)]
  BY <1>1, <1>4
<1> QED  BY <1>2, <1>3, <1>4, <1>5

-----------------------------------------------------------------------------
(* The inductive invariant.                                                *)

TypeOK ==
    /\ starts \in 0..MaxStarts
    /\ started \in BOOLEAN
    /\ stopping \in 0..Len(StopOrder)
    /\ running \subseteq Component
    /\ subs \in [Actor -> Int]
    /\ queue \in Seq(Event)
    /\ future \in [Event -> States]
    /\ mailbox \in [Actor -> Seq(Msg)]
    /\ counted \in Nat
    /\ traceLog \in Seq(Event)
    /\ graphOpen \in BOOLEAN
    /\ out \in [Sink -> Seq(Msg)]
    /\ verdict \in [Event -> Verdicts \cup {NoVerdict}]
    /\ order \in Seq(Event)
    /\ known \in [Event -> SUBSET Event]
    /\ seen \in [DOMAIN seen -> SUBSET Event]
    /\ DOMAIN seen \subseteq Event
    /\ late \subseteq Event

\* Only a call that was submitted has a future, a place in the queue, a message
\* or a trace.
OnlySubmitted ==
    /\ \A e \in Elements(order) : future[e] # "none"
    /\ Elements(queue) \subseteq Elements(order)
    /\ DOMAIN seen \subseteq Elements(order)
    /\ \A e \in Event : Mentions(e) => e \in Elements(order)

\* A call stands in the queue once, and what stands there was not published.
QueueUnpublished ==
    /\ \A i, j \in 1..Len(queue) : i # j => queue[i] # queue[j]
    /\ \A e \in Elements(queue) : ~Mentions(e)

\* An answered attempt is in the trace, and so is every attempt that was
\* answered before some call was submitted.
AnsweredIsTraced ==
    /\ \A e \in Attempt : future[e] = "result" => e \in Elements(traceLog)
    /\ \A e \in Event : known[e] \subseteq Elements(traceLog)

-----------------------------------------------------------------------------
(* Every step keeps the types.                                             *)

\* stop() awaits eleven tasks, and that of the ingress is the first of them.
LEMMA StopOrderFacts ==
    /\ Len(StopOrder) = 11
    /\ StopOrder[1] = {"ingress"}
    /\ \A k \in 2..11 : "ingress" \notin StopOrder[k]
BY DEF StopOrder

\* The runtime starts in a state of the right types.
LEMMA InitTypeOK == ASSUME RuntimeAssumption, Init PROVE TypeOK
<1>1. <<>> \in Seq(Event) /\ <<>> \in Seq(Msg)
  OBVIOUS
<1>2. DOMAIN seen = {} /\ seen \in [DOMAIN seen -> SUBSET Event]
  BY DEF Init
<1>3. 0 \in 0..Len(StopOrder)
  BY StopOrderFacts
<1>4. mailbox \in [Actor -> Seq(Msg)] /\ out \in [Sink -> Seq(Msg)]
  BY <1>1 DEF Init
<1>5. /\ starts \in 0..MaxStarts
      /\ subs \in [Actor -> Int]
      /\ future \in [Event -> States]
      /\ verdict \in [Event -> Verdicts \cup {NoVerdict}]
      /\ known \in [Event -> SUBSET Event]
  BY DEF Init, RuntimeAssumption, States
<1> QED  BY <1>1, <1>2, <1>3, <1>4, <1>5 DEF Init, TypeOK

\* start(), stop() and the ingress keep the types.
LEMMA LifecycleKeepsTypeOK ==
    ASSUME RuntimeAssumption, TypeOK, Start \/ StopBegin \/ StopNext
    PROVE  TypeOK'
<1>1. CASE Start
  BY <1>1 DEF Start, TypeOK, RuntimeAssumption
<1>2. CASE StopBegin
  <2>1. 1 \in 0..Len(StopOrder)
    BY StopOrderFacts
  <2> QED  BY <1>2, <2>1 DEF StopBegin, TypeOK
<1>3. CASE StopNext
  <2> DEFINE c == StopOrder[stopping]
  <2>1. subs' \in [Actor -> Int]
    BY <1>3 DEF StopNext, TypeOK, Unsubscribed
  <2>2. future' \in [Event -> States]
    BY <1>3 DEF StopNext, TypeOK, Released, States
  <2>3. stopping' \in 0..Len(StopOrder) /\ started' \in BOOLEAN /\ running' \subseteq Component
    <3>0. /\ stopping \in 0..Len(StopOrder) /\ Len(StopOrder) = 11
          /\ started \in BOOLEAN /\ running \subseteq Component
      BY StopOrderFacts DEF TypeOK
    <3>1. CASE stopping < Len(StopOrder)
      <4>1. /\ stopping' = stopping + 1 /\ started' = started
            /\ running' = running \ StopOrder[stopping + 1]
        BY <1>3, <3>1 DEF StopNext
      <4>2. stopping' \in 0..Len(StopOrder)
        BY <3>0, <3>1, <4>1
      <4>3. started' \in BOOLEAN /\ running' \subseteq Component
        BY <3>0, <4>1
      <4> QED  BY <4>2, <4>3
    <3>2. CASE ~(stopping < Len(StopOrder))
      <4>1. stopping' = 0 /\ started' = FALSE /\ running' = running
        BY <1>3, <3>2 DEF StopNext
      <4>2. stopping' \in 0..Len(StopOrder)
        BY <3>0, <4>1
      <4>3. started' \in BOOLEAN /\ running' \subseteq Component
        BY <3>0, <4>1
      <4> QED  BY <4>2, <4>3
    <3> QED  BY <3>1, <3>2
  <2>4. graphOpen' \in BOOLEAN
    BY <1>3 DEF StopNext
  <2> QED  BY <1>3, <2>1, <2>2, <2>3, <2>4 DEF StopNext, TypeOK
<1> QED  BY <1>1, <1>2, <1>3

\* What the callers and the ingress do keeps the types.
LEMMA CallsKeepTypeOK ==
    ASSUME RuntimeAssumption, TypeOK,
           (\E e \in Event : Submit(e) \/ GiveUp(e)) \/ Ingress
    PROVE  TypeOK'
<1> USE DEF lifecycle
<1>1. ASSUME NEW e \in Event, Submit(e)
      PROVE  TypeOK'
  BY <1>1 DEF Submit, TypeOK, RuntimeAssumption, States
<1>2. ASSUME NEW e \in Event, GiveUp(e)
      PROVE  TypeOK'
  BY <1>2 DEF GiveUp, TypeOK, States
<1>3. CASE Ingress
  <2>1. queue' \in Seq(Event) /\ Head(queue) \in Event
    BY <1>3 DEF Ingress, TypeOK
  <2>2. mailbox' \in [Actor -> Seq(Msg)]
    <3>1. CASE future[Head(queue)] = "pending"
      <4> DEFINE m == [event |-> Head(queue), verdict |-> NoVerdict]
      <4>1. m \in Msg /\ "ingress" \notin Actor
        BY <2>1 DEF Msg, Actor, Sink
      <4>2. Deliver("ingress", {"session"}, m)
        BY <1>3, <3>1 DEF Ingress
      <4> HIDE DEF m
      <4> QED  BY <4>1, <4>2, DeliverFacts DEF TypeOK
    <3>2. CASE future[Head(queue)] # "pending"
      BY <1>3, <3>2 DEF Ingress, TypeOK
    <3> QED  BY <3>1, <3>2
  <2> QED  BY <1>3, <2>1, <2>2 DEF Ingress, TypeOK
<1> QED  BY <1>1, <1>2, <1>3

\* An actor's message is well formed.
LEMMA ReceivedFacts ==
    ASSUME TypeOK, NEW a \in Actor, Receives(a)
    PROVE  /\ Received(a) \in Msg
           /\ Received(a) \in Elements(mailbox[a])
           /\ Received(a).event \in Event
           /\ mailbox[a] # <<>>
<1>1. mailbox[a] \in Seq(Msg) /\ mailbox[a] # <<>>
  BY DEF TypeOK, Receives
<1>2. Head(mailbox[a]) \in Elements(mailbox[a])
  BY <1>1, ElementsFacts
<1>3. Head(mailbox[a]) \in Msg
  BY <1>1
<1> QED  BY <1>1, <1>2, <1>3 DEF Received, Msg

\* An answer leaves every other caller alone, and only a waiting one hears it.
LEMMA ResolveFacts ==
    ASSUME TypeOK, NEW e \in Event, NEW s \in States, Resolve(e, s)
    PROVE  /\ future' \in [Event -> States]
           /\ \A f \in Event : future'[f] # future[f] =>
                  f = e /\ future[f] = "pending" /\ future'[f] = s
BY DEF TypeOK, Resolve

\* What the actors do keeps the types.
LEMMA ActorsKeepTypeOK ==
    ASSUME RuntimeAssumption, TypeOK,
           Session \/ Policy \/ Decide \/ (\E s \in Sink : HandOn(s))
    PROVE  TypeOK'
<1> USE DEF lifecycle
<1>0. mailbox \in [Actor -> Seq(Msg)] /\ subs \in [Actor -> Int]
  BY DEF TypeOK
<1>1. CASE SessionForwards
  <2>1. Receives("session") /\ "session" \in Actor
    BY <1>1 DEF SessionForwards, Actor
  <2>2. mailbox' \in [Actor -> Seq(Msg)]
    BY <1>0, <1>1, <2>1, ReceivedFacts, DeliverFacts DEF SessionForwards
  <2>3. Elements(traceLog) \subseteq Event
    BY ElementsFacts DEF TypeOK
  <2>4. seen' \in [DOMAIN seen' -> SUBSET Event] /\ DOMAIN seen' \subseteq Event
    BY <1>1, <2>1, <2>3, ReceivedFacts DEF SessionForwards, Enriched, TypeOK
  <2> QED  BY <1>1, <2>2, <2>4 DEF SessionForwards, TypeOK
<1>2. CASE SessionFails
  <2>1. Receives("session") /\ "session" \in Actor
    BY <1>2 DEF SessionFails, Actor
  <2>2. mailbox' \in [Actor -> Seq(Msg)]
    BY <1>0, <1>2, <2>1, ReceivedFacts, DeliverFacts DEF SessionFails
  <2>3. future' \in [Event -> States]
    BY <1>2, <2>1, ReceivedFacts, ResolveFacts DEF SessionFails, States
  <2> QED  BY <1>2, <2>2, <2>3 DEF SessionFails, TypeOK
<1>3. CASE PolicyDecides
  <2>1. Receives("policy") /\ "policy" \in Actor
    BY <1>3 DEF PolicyDecides, Actor
  <2>2. PICK v \in Verdicts :
            Deliver("policy", {"decision"}, [Received("policy") EXCEPT !.verdict = v])
    BY <1>3 DEF PolicyDecides
  <2>3. [Received("policy") EXCEPT !.verdict = v] \in Msg
    BY <2>1, ReceivedFacts DEF Msg
  <2>4. mailbox' \in [Actor -> Seq(Msg)]
    BY <1>0, <2>1, <2>2, <2>3, ReceivedFacts, DeliverFacts
  <2> QED  BY <1>3, <2>4 DEF PolicyDecides, Counted, TypeOK
<1>4. CASE PolicyFails
  <2>1. Receives("policy") /\ "policy" \in Actor
    BY <1>4 DEF PolicyFails, Actor
  <2>2. mailbox' \in [Actor -> Seq(Msg)]
    BY <1>0, <1>4, <2>1, ReceivedFacts, DeliverFacts DEF PolicyFails
  <2> QED  BY <1>4, <2>2 DEF PolicyFails, TypeOK
<1>5. CASE Decide
  <2> DEFINE m == Received("decision")
  <2>1. Receives("decision") /\ "decision" \in Actor
    BY <1>5 DEF Decide, Actor
  <2>2. m \in Msg /\ m.event \in Event /\ m.verdict \in Verdicts \cup {NoVerdict}
    BY <2>1, ReceivedFacts DEF Msg
  <2>3. PICK slow \in SlowPath : Deliver("decision", FanOut(m.verdict, slow), m)
    BY <1>5 DEF Decide
  <2>4. mailbox' \in [Actor -> Seq(Msg)]
    <3> HIDE DEF m
    <3> QED  BY <1>0, <2>1, <2>2, <2>3, ReceivedFacts, DeliverFacts
  <2>5. future' \in [Event -> States]
    BY <1>5, <2>2, ResolveFacts DEF Decide, States
  <2>6. traceLog' \in Seq(Event)
    <3>1. Traced(m)
      BY <1>5 DEF Decide
    <3>2. traceLog' \in {traceLog, Append(traceLog, m.event)}
      BY <3>1 DEF Traced
    <3>3. traceLog \in Seq(Event) /\ Append(traceLog, m.event) \in Seq(Event)
      BY <2>2 DEF TypeOK
    <3> QED  BY <3>2, <3>3
  <2>7. verdict' \in [Event -> Verdicts \cup {NoVerdict}]
    BY <1>5, <2>2 DEF Decide, TypeOK
  <2> QED  BY <1>5, <2>4, <2>5, <2>6, <2>7 DEF Decide, TypeOK
<1>6. ASSUME NEW s \in Sink, HandOn(s)
      PROVE  TypeOK'
  <2>1. Receives(s) /\ s \in Actor
    BY <1>6 DEF HandOn, Actor
  <2>2. mailbox' \in [Actor -> Seq(Msg)]
    BY <1>0, <1>6, <2>1, ReceivedFacts, DeliverFacts DEF HandOn
  <2>3. Append(out[s], Received(s)) \in Seq(Msg)
    BY <2>1, ReceivedFacts DEF TypeOK
  <2>4. out' \in [Sink -> Seq(Msg)]
    BY <1>6, <2>3 DEF HandOn, TypeOK
  <2> QED  BY <1>6, <2>2, <2>4 DEF HandOn, TypeOK
<1> QED  BY <1>1, <1>2, <1>3, <1>4, <1>5, <1>6 DEF Session, Policy

\* Every step keeps the types.
LEMMA NextKeepsTypeOK ==
    ASSUME RuntimeAssumption, TypeOK, [Next]_vars PROVE TypeOK'
<1>1. CASE UNCHANGED vars
  BY <1>1 DEF vars, TypeOK
<1>2. CASE Next
  BY <1>2, LifecycleKeepsTypeOK, CallsKeepTypeOK, ActorsKeepTypeOK DEF Next
<1> QED  BY <1>1, <1>2

-----------------------------------------------------------------------------
(* Where a call leaves traces.                                             *)

\* What an actor publishes is about the call whose message it took.
LEMMA DeliverMentions ==
    ASSUME TypeOK, NEW a \in Actor, Receives(a), NEW targets,
           NEW m \in Msg, m.event = Received(a).event, Deliver(a, targets, m),
           NEW b \in Actor, NEW x \in Elements(mailbox'[b])
    PROVE  /\ x.event \in Event
           /\ Mentions(x.event)
<1>1. mailbox \in [Actor -> Seq(Msg)] /\ subs \in [Actor -> Int] /\ mailbox[a] # <<>>
  BY DEF TypeOK, Receives
<1>2. /\ Received(a) \in Elements(mailbox[a])
      /\ Received(a).event \in Event
  BY ReceivedFacts
<1>3. x \in Elements(mailbox[b]) \/ x = m
  BY <1>1, DeliverFacts
<1>4. CASE x \in Elements(mailbox[b])
  <2>1. x \in Msg
    BY <1>1, <1>4, ElementsFacts
  <2> QED  BY <1>4, <2>1 DEF Mentions, Msg
<1>5. CASE x = m
  BY <1>2, <1>5 DEF Mentions
<1> QED  BY <1>3, <1>4, <1>5

\* Only the ingress brings a call to the actors, and only a call whose caller
\* waits.
LEMMA MentionsSpread ==
    ASSUME RuntimeAssumption, TypeOK, [Next]_vars, NEW e \in Event, Mentions(e)'
    PROVE  \/ Mentions(e)
           \/ Ingress /\ e = Head(queue) /\ future[e] = "pending"
<1> USE DEF lifecycle
<1>1. CASE UNCHANGED <<mailbox, out, traceLog>>
  BY <1>1 DEF Mentions
<1>2. CASE Ingress
  <2>1. CASE future[Head(queue)] = "pending"
    <3> DEFINE m == [event |-> Head(queue), verdict |-> NoVerdict]
    <3>1. Head(queue) \in Event /\ "ingress" \notin Actor
      <4>1. queue \in Seq(Event) /\ queue # <<>>
        BY <1>2 DEF Ingress, TypeOK
      <4> QED  BY <4>1 DEF Actor, Sink
    <3>2. m \in Msg /\ m.event = Head(queue)
      BY <3>1 DEF Msg
    <3>3. Deliver("ingress", {"session"}, m)
      BY <1>2, <2>1 DEF Ingress
    <3>4. \A a \in Actor : \A x \in Elements(mailbox'[a]) : x \in Elements(mailbox[a]) \/ x = m
      <4> HIDE DEF m
      <4> QED  BY <3>1, <3>2, <3>3, DeliverFacts DEF TypeOK
    <3>5. UNCHANGED <<out, traceLog>>
      BY <1>2 DEF Ingress
    <3> HIDE DEF m
    <3> QED  BY <1>2, <2>1, <3>2, <3>4, <3>5 DEF Mentions
  <2>2. CASE future[Head(queue)] # "pending"
    BY <1>1, <1>2, <2>2 DEF Ingress
  <2> QED  BY <2>1, <2>2
<1>3. ASSUME NEW a \in Actor, Receives(a), NEW targets, NEW m \in Msg,
             m.event = Received(a).event, Deliver(a, targets, m),
             \A s \in Sink : out'[s] \in {out[s], Append(out[s], Received(a))},
             traceLog' \in {traceLog, Append(traceLog, m.event)}
      PROVE  Mentions(e)
  <2>1. Received(a) \in Elements(mailbox[a]) /\ Received(a).event \in Event
    BY <1>3, ReceivedFacts
  <2>2. Mentions(m.event)
    BY <1>3, <2>1 DEF Mentions
  <2>3. CASE \E b \in Actor : \E x \in Elements(mailbox'[b]) : x.event = e
    BY <1>3, <2>3, DeliverMentions
  <2>4. CASE \E s \in Sink : \E x \in Elements(out'[s]) : x.event = e
    <3>1. PICK s \in Sink : \E x \in Elements(out'[s]) : x.event = e
      BY <2>4
    <3>2. PICK x \in Elements(out'[s]) : x.event = e
      BY <3>1
    <3>3. x \in Elements(out[s]) \/ x = Received(a)
      <4>1. out[s] \in Seq(Msg)
        BY DEF TypeOK
      <4>2. Elements(Append(out[s], Received(a))) = Elements(out[s]) \cup {Received(a)}
        BY <4>1, ElementsFacts
      <4>3. out'[s] = out[s] \/ out'[s] = Append(out[s], Received(a))
        BY <1>3
      <4> QED  BY <3>2, <4>2, <4>3
    <3> QED  BY <1>3, <2>2, <3>2, <3>3 DEF Mentions
  <2>5. CASE e \in Elements(traceLog')
    <3>1. e \in Elements(traceLog) \/ e = m.event
      <4>1. Elements(Append(traceLog, m.event)) = Elements(traceLog) \cup {m.event}
        BY ElementsFacts DEF TypeOK
      <4> QED  BY <1>3, <2>5, <4>1
    <3> QED  BY <2>2, <3>1 DEF Mentions
  <2> QED  BY <2>3, <2>4, <2>5 DEF Mentions
<1>4. CASE Session
  <2>1. Receives("session") /\ "session" \in Actor /\ UNCHANGED <<out, traceLog>>
    BY <1>4 DEF Session, SessionForwards, SessionFails, Actor
  <2>2. Received("session") \in Msg
    BY <2>1, ReceivedFacts
  <2>3. \E targets : Deliver("session", targets, Received("session"))
    BY <1>4 DEF Session, SessionForwards, SessionFails
  <2> QED  BY <1>3, <2>1, <2>2, <2>3
<1>5. CASE Policy
  <2>1. Receives("policy") /\ "policy" \in Actor /\ UNCHANGED <<out, traceLog>>
    BY <1>5 DEF Policy, PolicyDecides, PolicyFails, Actor
  <2>2. Received("policy") \in Msg
    BY <2>1, ReceivedFacts
  <2>3. CASE PolicyFails
    <3>1. Deliver("policy", {}, Received("policy"))
      BY <2>3 DEF PolicyFails
    <3> QED  BY <1>3, <2>1, <2>2, <3>1
  <2>4. CASE PolicyDecides
    <3>1. PICK v \in Verdicts :
              Deliver("policy", {"decision"}, [Received("policy") EXCEPT !.verdict = v])
      BY <2>4 DEF PolicyDecides
    <3> DEFINE m == [Received("policy") EXCEPT !.verdict = v]
    <3>2. m \in Msg /\ m.event = Received("policy").event
      BY <2>2 DEF Msg
    <3>3. Deliver("policy", {"decision"}, m)
      BY <3>1
    <3> HIDE DEF m
    <3> QED  BY <1>3, <2>1, <3>2, <3>3
  <2> QED  BY <1>5, <2>3, <2>4 DEF Policy
<1>6. CASE Decide
  <2>1. Receives("decision") /\ "decision" \in Actor /\ UNCHANGED out
    BY <1>6 DEF Decide, Actor
  <2>2. Received("decision") \in Msg
    BY <2>1, ReceivedFacts
  <2>3. \E targets : Deliver("decision", targets, Received("decision"))
    BY <1>6 DEF Decide
  <2>4. traceLog' \in {traceLog, Append(traceLog, Received("decision").event)}
    BY <1>6 DEF Decide, Traced
  <2> QED  BY <1>3, <2>1, <2>2, <2>3, <2>4
<1>7. ASSUME NEW s \in Sink, HandOn(s)
      PROVE  Mentions(e)
  <2>1. Receives(s) /\ s \in Actor /\ UNCHANGED traceLog
    BY <1>7 DEF HandOn, Actor
  <2>2. Received(s) \in Msg
    BY <2>1, ReceivedFacts
  <2>3. Deliver(s, {}, Received(s))
    BY <1>7 DEF HandOn
  <2>4. \A r \in Sink : out'[r] \in {out[r], Append(out[r], Received(s))}
    BY <1>7 DEF HandOn, TypeOK
  <2> QED  BY <1>3, <2>1, <2>2, <2>3, <2>4
<1>8. CASE Start \/ StopBegin \/ StopNext \/ (\E f \in Event : Submit(f) \/ GiveUp(f))
  <2>1. UNCHANGED <<mailbox, out, traceLog>>
    BY <1>8 DEF Start, StopBegin, StopNext, Submit, GiveUp
  <2> QED  BY <1>1, <2>1
<1>9. CASE UNCHANGED vars
  <2>1. UNCHANGED <<mailbox, out, traceLog>>
    BY <1>9 DEF vars
  <2> QED  BY <1>1, <2>1
<1> QED  BY <1>2, <1>4, <1>5, <1>6, <1>7, <1>8, <1>9 DEF Next

\* Calls enter `order` and the queue at submit() and leave the queue at the
\* ingress; no other step touches either.
LEMMA QueueSteps ==
    ASSUME RuntimeAssumption, TypeOK, [Next]_vars
    PROVE  \/ \E e \in Event : Submit(e)
           \/ Ingress
           \/ UNCHANGED <<queue, order>>
BY DEF Next, vars, lifecycle, Start, StopBegin, StopNext, GiveUp, Session, SessionForwards,
       SessionFails, Policy, PolicyDecides, PolicyFails, Decide, HandOn

\* A future that was created is never taken back.
LEMMA FutureStays ==
    ASSUME RuntimeAssumption, TypeOK, [Next]_vars, NEW e \in Event, future[e] # "none"
    PROVE  future'[e] # "none"
<1> USE DEF lifecycle
<1>1. CASE UNCHANGED future
  BY <1>1
<1>2. ASSUME NEW f \in Event, Submit(f) \/ GiveUp(f)
      PROVE  future'[e] # "none"
  BY <1>2 DEF Submit, GiveUp, TypeOK
<1>3. CASE StopNext
  BY <1>3 DEF StopNext, Released, TypeOK
<1>4. CASE SessionFails \/ Decide
  BY <1>4, ResolveFacts DEF SessionFails, Decide, Resolve, TypeOK
<1>5. CASE UNCHANGED vars
  BY <1>1, <1>5 DEF vars
<1>6. CASE Start \/ StopBegin \/ Ingress \/ SessionForwards \/ Policy \/ \E s \in Sink : HandOn(s)
  <2>1. UNCHANGED future
    BY <1>6 DEF Start, StopBegin, Ingress, SessionForwards, Policy, PolicyDecides, PolicyFails,
                HandOn
  <2> QED  BY <1>1, <2>1
<1> QED  BY <1>2, <1>3, <1>4, <1>5, <1>6 DEF Next, Session

-----------------------------------------------------------------------------
(* Every step preserves the invariants.                                    *)

\* Only submitted calls stand anywhere: preserved by every step.
LEMMA KeepsOnlySubmitted ==
    ASSUME RuntimeAssumption, TypeOK, OnlySubmitted, [Next]_vars
    PROVE  OnlySubmitted'
<1>1. Elements(order) \subseteq Elements(order') /\ Elements(queue') \subseteq Elements(order')
  <2>1. ASSUME NEW e \in Event, Submit(e)
        PROVE  /\ Elements(order') = Elements(order) \cup {e}
               /\ Elements(queue') = Elements(queue) \cup {e}
    BY <2>1, ElementsFacts DEF Submit, TypeOK
  <2>2. ASSUME Ingress
        PROVE  order' = order /\ Elements(queue') \subseteq Elements(queue)
    BY <2>2, ElementsFacts DEF Ingress, TypeOK
  <2>3. CASE UNCHANGED <<queue, order>>
    BY <2>3 DEF OnlySubmitted
  <2> QED  BY <2>1, <2>2, <2>3, QueueSteps DEF OnlySubmitted
<1>2. ASSUME NEW e \in Elements(order')
      PROVE  future'[e] # "none"
  <2>1. CASE e \in Elements(order)
    <3>1. e \in Event
      BY <2>1, ElementsFacts DEF TypeOK
    <3> QED  BY <2>1, <3>1, FutureStays DEF OnlySubmitted
  <2>2. CASE e \notin Elements(order)
    <3>1. PICK f \in Event : Submit(f)
      BY <1>2, <2>2, QueueSteps DEF Ingress, lifecycle
    <3>2. e = f
      <4>1. Elements(order') = Elements(order) \cup {f}
        BY <3>1, ElementsFacts DEF Submit, TypeOK
      <4> QED  BY <1>2, <2>2, <4>1
    <3> QED  BY <3>1, <3>2 DEF Submit, TypeOK
  <2> QED  BY <2>1, <2>2
<1>3. ASSUME NEW e \in Event, Mentions(e)'
      PROVE  e \in Elements(order')
  <2>1. CASE Mentions(e)
    BY <1>1, <2>1 DEF OnlySubmitted
  <2>2. CASE Ingress /\ e = Head(queue)
    <3>1. Head(queue) \in Elements(queue)
      BY <2>2, ElementsFacts DEF Ingress, TypeOK
    <3> QED  BY <1>1, <2>2, <3>1 DEF OnlySubmitted
  <2> QED  BY <1>3, <2>1, <2>2, MentionsSpread
<1>4. DOMAIN seen' \subseteq Elements(order')
  <2>1. CASE UNCHANGED seen
    BY <1>1, <2>1 DEF OnlySubmitted
  <2>2. CASE SessionForwards
    <3>1. DOMAIN seen' = DOMAIN seen \cup {Received("session").event}
      BY <2>2 DEF SessionForwards
    <3>2. Receives("session") /\ "session" \in Actor
      BY <2>2 DEF SessionForwards, Actor
    <3>3. Mentions(Received("session").event) /\ Received("session").event \in Event
      BY <3>2, ReceivedFacts DEF Mentions
    <3> QED  BY <1>1, <3>1, <3>3 DEF OnlySubmitted
  <2>3. UNCHANGED seen \/ SessionForwards
    BY DEF Next, vars, Start, StopBegin, StopNext, Submit, GiveUp, Ingress, Session,
           SessionFails, Policy, PolicyDecides, PolicyFails, Decide, HandOn
  <2> QED  BY <2>1, <2>2, <2>3
<1> QED  BY <1>1, <1>2, <1>3, <1>4 DEF OnlySubmitted

\* What stands in the queue was not published: preserved by every step.
LEMMA KeepsQueueUnpublished ==
    ASSUME RuntimeAssumption, TypeOK, OnlySubmitted, QueueUnpublished, [Next]_vars
    PROVE  QueueUnpublished'
<1>0. queue \in Seq(Event) /\ Elements(queue) \subseteq Event
  BY ElementsFacts DEF TypeOK
<1>1. ASSUME NEW e \in Event, Submit(e)
      PROVE  QueueUnpublished'
  <2>1. e \notin Elements(queue) /\ ~Mentions(e)
    BY <1>1 DEF OnlySubmitted, Submit
  <2>2. UNCHANGED <<mailbox, out, traceLog>>
    BY <1>1 DEF Submit
  <2>3. queue' = Append(queue, e)
    BY <1>1 DEF Submit
  <2>4. Elements(queue') = Elements(queue) \cup {e}
    BY <1>0, <2>3, ElementsFacts
  <2>5. \A f \in Elements(queue') : ~Mentions(f)'
    BY <2>1, <2>2, <2>4 DEF Mentions, QueueUnpublished
  <2>6. \A i, j \in 1..Len(queue') : i # j => queue'[i] # queue'[j]
    <3>1. /\ Len(queue') = Len(queue) + 1 /\ queue'[Len(queue) + 1] = e
          /\ \A i \in 1..Len(queue) : queue'[i] = queue[i]
      BY <1>0, <2>3
    <3>2. \A i \in 1..Len(queue) : queue[i] # e
      BY <2>1 DEF Elements
    <3> QED  BY <1>0, <3>1, <3>2 DEF QueueUnpublished
  <2> QED  BY <2>5, <2>6 DEF QueueUnpublished
<1>2. CASE Ingress
  <2>1. queue' = Tail(queue) /\ queue # <<>>
    BY <1>2 DEF Ingress
  <2>2. /\ Len(queue') = Len(queue) - 1 /\ Head(queue) = queue[1] /\ Len(queue) \in Nat \ {0}
        /\ \A i \in 1..Len(queue') : queue'[i] = queue[i + 1]
    BY <1>0, <2>1
  <2>3. \A i, j \in 1..Len(queue') : i # j => queue'[i] # queue'[j]
    BY <2>2 DEF QueueUnpublished
  <2>4. ASSUME NEW e \in Elements(queue')
        PROVE  ~Mentions(e)'
    <3>1. PICK i \in 1..Len(queue') : e = queue[i + 1]
      BY <2>2 DEF Elements
    <3>2. i + 1 \in 1..Len(queue) /\ 1 \in 1..Len(queue) /\ i + 1 # 1
      BY <2>2
    <3>3. e # Head(queue) /\ e \in Elements(queue)
      BY <2>2, <3>1, <3>2 DEF QueueUnpublished, Elements
    <3> QED  BY <1>0, <3>3, MentionsSpread DEF QueueUnpublished
  <2> QED  BY <2>3, <2>4 DEF QueueUnpublished
<1>3. CASE UNCHANGED <<queue, order>> /\ ~Ingress
  <2>1. \A e \in Elements(queue) : ~Mentions(e)'
    BY <1>0, <1>3, MentionsSpread DEF QueueUnpublished
  <2> QED  BY <1>3, <2>1 DEF QueueUnpublished
<1> QED  BY <1>1, <1>2, <1>3, QueueSteps

\* The trace only grows.
LEMMA TraceGrows ==
    ASSUME RuntimeAssumption, TypeOK, [Next]_vars
    PROVE  Elements(traceLog) \subseteq Elements(traceLog')
<1>1. CASE UNCHANGED traceLog
  BY <1>1
<1>2. CASE Decide
  <2>1. Receives("decision") /\ "decision" \in Actor
    BY <1>2 DEF Decide, Actor
  <2>2. traceLog' \in {traceLog, Append(traceLog, Received("decision").event)}
    BY <1>2 DEF Decide, Traced
  <2>3. Elements(Append(traceLog, Received("decision").event))
            = Elements(traceLog) \cup {Received("decision").event}
    BY ElementsFacts DEF TypeOK
  <2> QED  BY <2>2, <2>3
<1>3. UNCHANGED traceLog \/ Decide
  BY DEF Next, vars, Start, StopBegin, StopNext, Submit, GiveUp, Ingress, Session,
         SessionForwards, SessionFails, Policy, PolicyDecides, PolicyFails, HandOn
<1> QED  BY <1>1, <1>2, <1>3

\* Only DecisionActor answers with a decision, and it writes the trace first.
LEMMA AnswerIsTraced ==
    ASSUME RuntimeAssumption, ~TraceMayFail, TypeOK, [Next]_vars,
           NEW e \in Attempt, future'[e] = "result"
    PROVE  future[e] = "result" \/ e \in Elements(traceLog')
<1> USE DEF lifecycle
<1>0. e \in Event
  BY DEF RuntimeAssumption
<1>1. CASE UNCHANGED future
  BY <1>1
<1>2. ASSUME NEW f \in Event, Submit(f) \/ GiveUp(f)
      PROVE  future[e] = "result"
  BY <1>0, <1>2 DEF Submit, GiveUp, TypeOK
<1>3. CASE StopNext
  BY <1>0, <1>3 DEF StopNext, Released, TypeOK
<1>4. CASE SessionFails
  <2>1. Receives("session") /\ "session" \in Actor
    BY <1>4 DEF SessionFails, Actor
  <2>2. Resolve(Received("session").event, "failed")
    BY <1>4 DEF SessionFails
  <2> QED  BY <1>0, <2>1, <2>2, ReceivedFacts, ResolveFacts DEF States
<1>5. CASE Decide
  <2> DEFINE m == Received("decision")
  <2>1. Receives("decision") /\ "decision" \in Actor
    BY <1>5 DEF Decide, Actor
  <2>2. Resolve(m.event, "result") /\ Traced(m)
    BY <1>5 DEF Decide
  <2>3. future[e] = "result" \/ e = m.event
    BY <1>0, <2>1, <2>2, ReceivedFacts, ResolveFacts DEF States
  <2>4. CASE e = m.event
    <3>1. traceLog' = Append(traceLog, m.event)
      BY <2>2, <2>4 DEF Traced
    <3> QED  BY <2>4, <3>1, ElementsFacts DEF TypeOK
  <2> QED  BY <2>3, <2>4
<1>6. CASE UNCHANGED vars
  BY <1>1, <1>6 DEF vars
<1>7. CASE Start \/ StopBegin \/ Ingress \/ SessionForwards \/ Policy \/ \E s \in Sink : HandOn(s)
  <2>1. UNCHANGED future
    BY <1>7 DEF Start, StopBegin, Ingress, SessionForwards, Policy, PolicyDecides, PolicyFails,
                HandOn
  <2> QED  BY <1>1, <2>1
<1> QED  BY <1>2, <1>3, <1>4, <1>5, <1>6, <1>7 DEF Next, Session

\* When the trace can always be written, an answered attempt is in it:
\* preserved by every step.
LEMMA KeepsAnsweredIsTraced ==
    ASSUME RuntimeAssumption, ~TraceMayFail, TypeOK, AnsweredIsTraced, [Next]_vars
    PROVE  AnsweredIsTraced'
<1>1. Elements(traceLog) \subseteq Elements(traceLog')
  BY TraceGrows
<1>2. \A e \in Attempt : future'[e] = "result" => e \in Elements(traceLog')
  BY <1>1, AnswerIsTraced DEF AnsweredIsTraced
<1>3. ASSUME NEW e \in Event
      PROVE  known'[e] \subseteq Elements(traceLog')
  <2>1. CASE UNCHANGED known
    BY <1>1, <2>1 DEF AnsweredIsTraced
  <2>2. ASSUME NEW f \in Event, Submit(f)
        PROVE  known'[e] \subseteq Elements(traceLog')
    <3>1. known'[e] = known[e] \/ known'[e] = {g \in Attempt : future[g] = "result"}
      BY <2>2 DEF Submit, TypeOK
    <3> QED  BY <1>1, <3>1 DEF AnsweredIsTraced
  <2>3. UNCHANGED known \/ \E f \in Event : Submit(f)
    BY DEF Next, vars, Start, StopBegin, StopNext, GiveUp, Ingress, Session,
           SessionForwards, SessionFails, Policy, PolicyDecides, PolicyFails, Decide, HandOn
  <2> QED  BY <2>1, <2>2, <2>3
<1> QED  BY <1>2, <1>3 DEF AnsweredIsTraced

\* The trace an event was judged against holds what its caller knew of:
\* preserved by every step.
LEMMA KeepsTraceVisible ==
    ASSUME RuntimeAssumption, TypeOK, OnlySubmitted, AnsweredIsTraced, TraceVisible, [Next]_vars
    PROVE  TraceVisible'
<1>1. CASE UNCHANGED <<seen, known>>
  BY <1>1 DEF TraceVisible
<1>2. ASSUME NEW e \in Event, Submit(e)
      PROVE  TraceVisible'
  <2>1. e \notin DOMAIN seen
    BY <1>2 DEF OnlySubmitted, Submit
  <2>2. seen' = seen /\ \A f \in Event : f # e => known'[f] = known[f]
    BY <1>2 DEF Submit, TypeOK
  <2> QED  BY <2>1, <2>2 DEF TraceVisible, TypeOK
<1>3. CASE SessionForwards
  <2> DEFINE e == Received("session").event
  <2>1. Receives("session") /\ "session" \in Actor
    BY <1>3 DEF SessionForwards, Actor
  <2>2. e \in Event
    BY <2>1, ReceivedFacts
  <2>3. /\ known' = known
        /\ seen' = [f \in DOMAIN seen \cup {e} |-> IF f = e THEN Elements(traceLog) ELSE seen[f]]
    BY <1>3 DEF SessionForwards, Enriched
  <2> HIDE DEF e
  <2> QED  BY <2>2, <2>3 DEF TraceVisible, AnsweredIsTraced
<1>4. UNCHANGED <<seen, known>> \/ SessionForwards \/ \E e \in Event : Submit(e)
  BY DEF Next, vars, Start, StopBegin, StopNext, GiveUp, Ingress, Session,
         SessionFails, Policy, PolicyDecides, PolicyFails, Decide, HandOn
<1> QED  BY <1>1, <1>2, <1>3, <1>4

\* No caller hangs after a stop: preserved by every step.
LEMMA KeepsShutdownReleasesCallers ==
    ASSUME RuntimeAssumption, TypeOK, ShutdownReleasesCallers, [Next]_vars
    PROVE  ShutdownReleasesCallers'
<1> USE DEF lifecycle
<1>1. SUFFICES ASSUME IngressStopped', NEW e \in Event, future'[e] = "pending"
               PROVE  e \in late'
  BY DEF ShutdownReleasesCallers
<1>2. ASSUME UNCHANGED <<starts, stopping, running, late>>, future[e] = "pending"
      PROVE  e \in late'
  BY <1>1, <1>2 DEF IngressStopped, ShutdownReleasesCallers
<1>3. CASE Start
  BY <1>1, <1>3 DEF Start, IngressStopped, Component, Loop
<1>4. CASE StopBegin
  BY <1>1, <1>4 DEF StopBegin, IngressStopped
<1>5. CASE StopNext
  <2>1. CASE stopping = 1
    <3>1. "ingress" \in StopOrder[stopping]
      BY <2>1, StopOrderFacts
    <3>2. future' = [f \in Event |-> IF future[f] = "pending" THEN "shutdown" ELSE future[f]]
      BY <1>5, <3>1 DEF StopNext, Released
    <3> QED  BY <1>1, <3>2
  <2>2. CASE stopping # 1
    <3>1. stopping \in 2..11 /\ "ingress" \notin StopOrder[stopping]
      BY <1>5, <2>2, StopOrderFacts DEF StopNext, TypeOK
    <3>2. future' = future /\ starts' = starts /\ late' = late
      BY <1>5, <3>1 DEF StopNext, Released
    <3>3. "ingress" \notin running
      <4>1. CASE stopping < Len(StopOrder)
        <5>1. running' = running \ StopOrder[stopping + 1]
          BY <1>5, <4>1 DEF StopNext
        <5>2. stopping + 1 \in 2..11
          BY <3>1, <4>1, StopOrderFacts
        <5>3. "ingress" \notin StopOrder[stopping + 1]
          BY <5>2, StopOrderFacts
        <5> QED  BY <1>1, <5>1, <5>3 DEF IngressStopped
      <4>2. CASE ~(stopping < Len(StopOrder))
        BY <1>1, <1>5, <4>2 DEF StopNext, IngressStopped
      <4> QED  BY <4>1, <4>2
    <3> QED  BY <1>1, <2>2, <3>2, <3>3 DEF IngressStopped, ShutdownReleasesCallers
  <2> QED  BY <2>1, <2>2
<1>6. ASSUME NEW f \in Event, Submit(f)
      PROVE  e \in late'
  <2>1. IngressStopped /\ "ingress" \notin running
    BY <1>1, <1>6 DEF Submit, IngressStopped
  <2>2. late' = late \cup {f} /\ (e # f => future[e] = "pending")
    BY <1>1, <1>6, <2>1 DEF Submit, TypeOK
  <2> QED  BY <2>1, <2>2 DEF ShutdownReleasesCallers
<1>7. ASSUME NEW f \in Event, GiveUp(f)
      PROVE  e \in late'
  BY <1>1, <1>2, <1>7 DEF GiveUp, TypeOK
<1>8. CASE SessionFails \/ Decide
  <2>1. PICK a \in Actor, s \in States \ {"pending"} :
            Receives(a) /\ Resolve(Received(a).event, s)
    BY <1>8 DEF SessionFails, Decide, Actor, States
  <2>2. future[e] = "pending"
    BY <1>1, <2>1, ReceivedFacts, ResolveFacts
  <2>3. UNCHANGED <<starts, stopping, running, late>>
    BY <1>8 DEF SessionFails, Decide
  <2> QED  BY <1>2, <2>2, <2>3
<1>9. CASE UNCHANGED <<starts, stopping, running, late, future>>
  BY <1>1, <1>2, <1>9
<1>10. CASE Ingress \/ SessionForwards \/ Policy \/ \E s \in Sink : HandOn(s)
  <2>1. UNCHANGED <<starts, stopping, running, late, future>>
    BY <1>10 DEF Ingress, SessionForwards, Policy, PolicyDecides, PolicyFails, HandOn
  <2> QED  BY <1>9, <2>1
<1>11. CASE UNCHANGED vars
  BY <1>9, <1>11 DEF vars
<1> QED  BY <1>3, <1>4, <1>5, <1>6, <1>7, <1>8, <1>10, <1>11 DEF Next, Session

-----------------------------------------------------------------------------
(* The order of the trace.                                                 *)

\* e was submitted before f.
Before(e, f) == \E k, l \in 1..Len(order) : k < l /\ order[k] = e /\ order[l] = f

\* The way of a call to the trace, from its end to its beginning.
Line == [n \in 1..5 |->
            CASE n = 1 -> traceLog
              [] n = 2 -> EventsOf(mailbox["decision"])
              [] n = 3 -> EventsOf(mailbox["policy"])
              [] n = 4 -> EventsOf(mailbox["session"])
              [] n = 5 -> queue]

\* The calls on a line L, read from its end to its beginning, are related by R.
Lined(L, R) ==
    \A m, n \in 1..5 : \A i \in 1..Len(L[m]) : \A j \in 1..Len(L[n]) :
        (m < n \/ (m = n /\ i < j)) => <<L[m][i], L[n][j]>> \in R

\* The calls on their way stand in the order they were submitted in.
InLine == Lined(Line, {p \in Event \X Event : Before(p[1], p[2])})

\* The actors are subscribed at most once for each start of the runtime.
SubscribedOnce == \A a \in Actor : subs[a] <= starts

\* A line M is what a line L becomes when the first call of stage n + 1 moves
\* on to stage n, or is dropped.
Moved(L, M, n) ==
    /\ L[n + 1] # <<>>
    /\ M[n + 1] = Tail(L[n + 1])
    /\ M[n] \in {L[n], Append(L[n], Head(L[n + 1]))}
    /\ \A k \in (1..5) \ {n, n + 1} : M[k] = L[k]

\* Places up to the l-th, and the one after it.
LEMMA PlaceFacts ==
    ASSUME NEW l \in Nat
    PROVE  /\ \A i \in 1..(l + 1) : i # l + 1 => i \in 1..l
           /\ \A i \in 1..(l + 1) : i <= l + 1
           /\ \A i \in 1..l : i <= l + 1
           /\ l + 1 \notin 1..l
OBVIOUS

\* The first of a sequence.
LEMMA FirstFacts ==
    ASSUME NEW S, NEW q \in Seq(S), q # <<>>
    PROVE  Head(q) = q[1] /\ 1 \in 1..Len(q)
<1>1. Len(q) \in Nat /\ Len(q) # 0
  BY EmptySeq, LenProperties
<1> QED  BY <1>1

\* A call that moves on, or is dropped, overtakes nobody.
LEMMA MovedLined ==
    ASSUME NEW S, NEW R, NEW L \in [1..5 -> Seq(S)], NEW M \in [1..5 -> Seq(S)],
           NEW n \in 1..4, Moved(L, M, n), Lined(L, R)
    PROVE  Lined(M, R)
<1>0. n \in 1..5 /\ n + 1 \in 1..5 /\ L[n + 1] # <<>>
  BY DEF Moved
<1>a. /\ L[n] \in Seq(S) /\ M[n] \in Seq(S) /\ Len(L[n]) \in Nat
      /\ Head(L[n + 1]) \in S
  BY <1>0, LenProperties, HeadTailProperties
<1> PICK l \in Nat : l = Len(L[n])
  BY <1>a
<1> DEFINE \* where the i-th call of stage k stood
           stage(k, i) == IF k = n /\ i = l + 1 THEN n + 1 ELSE k
           place(k, i) == IF k = n + 1 THEN i + 1
                          ELSE IF k = n /\ i = l + 1 THEN 1 ELSE i
<1>b. ASSUME M[n] = Append(L[n], Head(L[n + 1]))
      PROVE  /\ Len(M[n]) = l + 1
             /\ \A i \in 1..l : M[n][i] = L[n][i]
             /\ M[n][l + 1] = Head(L[n + 1])
  <2> HIDE DEF stage, place
  <2> DEFINE t == L[n]
             x == Head(L[n + 1])
  <2>1. t \in Seq(S) /\ x \in S /\ l = Len(t) /\ M[n] = Append(t, x)
    BY <1>a, <1>b
  <2> HIDE DEF t, x
  <2>2. /\ Len(Append(t, x)) = Len(t) + 1
        /\ \A i \in 1..Len(t) : Append(t, x)[i] = t[i]
        /\ Append(t, x)[Len(t) + 1] = x
    BY <2>1, AppendProperties
  <2>3. /\ Len(M[n]) = l + 1
        /\ \A i \in 1..l : M[n][i] = t[i]
        /\ M[n][l + 1] = x
    BY <2>1, <2>2
  <2> QED  BY <2>3 DEF t, x
<1>1. ASSUME NEW k \in 1..5, NEW i \in 1..Len(M[k])
      PROVE  /\ stage(k, i) \in 1..5
             /\ place(k, i) \in 1..Len(L[stage(k, i)])
             /\ M[k][i] = L[stage(k, i)][place(k, i)]
  <2>0. L[k] \in Seq(S) /\ L[n] \in Seq(S) /\ L[n + 1] \in Seq(S) /\ L[n + 1] # <<>>
    BY <1>0
  <2>1. CASE k = n + 1
    <3>1. M[k] = Tail(L[n + 1])
      BY <2>1 DEF Moved
    <3>2. Len(M[k]) = Len(L[k]) - 1 /\ M[k][i] = L[k][i + 1]
      BY <2>0, <2>1, <3>1
    <3> QED  BY <2>0, <2>1, <3>2
  <2>2. CASE k = n
    <3>1. M[k] = L[n] \/ M[k] = Append(L[n], Head(L[n + 1]))
      BY <2>2 DEF Moved
    <3>2. CASE i = l + 1
      <4>1. M[k] = Append(L[n], Head(L[n + 1]))
        <5>1. M[k] # L[n]
          BY <3>2, PlaceFacts
        <5> QED  BY <3>1, <5>1
      <4>2. M[k][i] = Head(L[n + 1])
        <5> HIDE DEF stage, place
        <5>1. M[n][l + 1] = Head(L[n + 1])
          BY <1>b, <2>2, <4>1
        <5> QED  BY <2>2, <3>2, <5>1
      <4>3. Head(L[n + 1]) = L[n + 1][1] /\ 1 \in 1..Len(L[n + 1])
        BY <2>0, FirstFacts
      <4>4. stage(k, i) = n + 1 /\ place(k, i) = 1
        BY <2>2, <3>2
      <4> HIDE DEF stage, place
      <4> QED  BY <1>0, <4>2, <4>3, <4>4
    <3>3. CASE i # l + 1
      <4>1. i \in 1..l /\ M[k][i] = L[n][i]
        <5> HIDE DEF stage, place
        <5>1. CASE M[k] = L[n]
          BY <5>1
        <5>2. CASE M[k] = Append(L[n], Head(L[n + 1]))
          <6>1. Len(M[k]) = l + 1
            BY <1>b, <2>2, <5>2
          <6>2. i \in 1..(l + 1) /\ i # l + 1
            BY <3>3, <6>1
          <6>3. i \in 1..l
            BY <6>2, PlaceFacts
          <6> QED  BY <1>b, <2>2, <5>2, <6>3
        <5> QED  BY <3>1, <5>1, <5>2
      <4> QED  BY <2>2, <3>3, <4>1
    <3> QED  BY <3>2, <3>3
  <2>3. CASE k # n /\ k # n + 1
    BY <2>0, <2>3 DEF Moved
  <2> QED  BY <2>1, <2>2, <2>3
<1>2. ASSUME NEW k \in 1..5, NEW m \in 1..5, NEW i \in 1..Len(M[k]), NEW j \in 1..Len(M[m]),
             k < m \/ (k = m /\ i < j)
      PROVE  \/ stage(k, i) < stage(m, j)
             \/ stage(k, i) = stage(m, j) /\ place(k, i) < place(m, j)
  <2>2. \A h \in 1..Len(M[n]) : h <= l + 1
    <3> HIDE DEF stage, place
    <3>1. M[n] = L[n] \/ M[n] = Append(L[n], Head(L[n + 1]))
      BY DEF Moved
    <3>2. CASE M[n] = L[n]
      <4>1. Len(M[n]) = l
        BY <3>2
      <4> QED  BY <4>1, PlaceFacts
    <3>3. CASE M[n] = Append(L[n], Head(L[n + 1]))
      <4>1. Len(M[n]) = l + 1
        BY <1>b, <3>3
      <4> QED  BY <4>1, PlaceFacts
    <3> QED  BY <3>1, <3>2, <3>3
  <2>3. i \in Int /\ i >= 1 /\ j \in Int /\ j >= 1 /\ (k = n => i <= l + 1)
    <3>1. M[k] \in Seq(S) /\ M[m] \in Seq(S)
      OBVIOUS
    <3>2. Len(M[k]) \in Nat /\ Len(M[m]) \in Nat
      BY <3>1, LenProperties
    <3>3. i \in Int /\ i >= 1 /\ j \in Int /\ j >= 1
      BY <3>2
    <3> QED  BY <2>2, <3>3
  <2>4. CASE k = n /\ i = l + 1
    <3>1. stage(k, i) = n + 1 /\ place(k, i) = 1 /\ n \in Nat
      BY <2>4
    <3>2. CASE m = n
      BY <1>2, <2>2, <2>4, <3>2
    <3>3. CASE m = n + 1
      <4>1. stage(m, j) = n + 1 /\ place(m, j) = j + 1
        BY <3>1, <3>3
      <4> HIDE DEF stage, place
      <4> QED  BY <2>3, <3>1, <4>1
    <3>4. CASE m # n /\ m # n + 1
      <4>1. stage(m, j) = m /\ m > n + 1
        BY <1>2, <2>4, <3>1, <3>4
      <4> QED  BY <3>1, <4>1
    <3> QED  BY <3>2, <3>3, <3>4
  <2>5. CASE ~(k = n /\ i = l + 1)
    <3>1. stage(k, i) = k /\ (k # n + 1 => place(k, i) = i) /\ (k = n + 1 => place(k, i) = i + 1)
      BY <2>5
    <3>2. CASE m = n /\ j = l + 1
      <4>1. stage(m, j) = n + 1 /\ place(m, j) = 1
        <5>1. n # n + 1
          OBVIOUS
        <5> QED  BY <3>2, <5>1
      <4>2. k < n + 1
        BY <1>2, <3>2
      <4> QED  BY <3>1, <4>1, <4>2
    <3>3. CASE ~(m = n /\ j = l + 1)
      <4>1. /\ stage(m, j) = m
            /\ m # n + 1 => place(m, j) = j
            /\ m = n + 1 => place(m, j) = j + 1
        BY <3>3
      <4> HIDE DEF stage, place
      <4> QED  BY <1>2, <2>3, <3>1, <4>1, SMTT(30)
    <3> QED  BY <3>2, <3>3
  <2> QED  BY <2>4, <2>5
<1>3. ASSUME NEW k \in 1..5, NEW m \in 1..5, NEW i \in 1..Len(M[k]), NEW j \in 1..Len(M[m]),
             k < m \/ (k = m /\ i < j)
      PROVE  <<M[k][i], M[m][j]>> \in R
  <2>1. /\ stage(k, i) \in 1..5 /\ stage(m, j) \in 1..5
        /\ place(k, i) \in 1..Len(L[stage(k, i)])
        /\ place(m, j) \in 1..Len(L[stage(m, j)])
        /\ M[k][i] = L[stage(k, i)][place(k, i)]
        /\ M[m][j] = L[stage(m, j)][place(m, j)]
    BY <1>1
  <2>2. \/ stage(k, i) < stage(m, j)
        \/ stage(k, i) = stage(m, j) /\ place(k, i) < place(m, j)
    BY <1>2, <1>3
  <2> HIDE DEF stage, place
  <2> QED  BY <2>1, <2>2 DEF Lined
<1> QED  BY <1>3 DEF Lined

\* The events of a mailbox follow it.
LEMMA EventsOfFacts ==
    ASSUME NEW s \in Seq(Msg)
    PROVE  /\ EventsOf(s) \in Seq(Event)
           /\ Len(EventsOf(s)) = Len(s)
           /\ \A m \in Msg : EventsOf(Append(s, m)) = Append(EventsOf(s), m.event)
           /\ s # <<>> => /\ EventsOf(s) # <<>>
                          /\ Head(EventsOf(s)) = Head(s).event
                          /\ EventsOf(Tail(s)) = Tail(EventsOf(s))
<1>1. EventsOf(s) \in [1..Len(s) -> Event] /\ Len(s) \in Nat
  <2>1. \A i \in 1..Len(s) : s[i] \in Msg
    OBVIOUS
  <2>2. \A i \in 1..Len(s) : s[i].event \in Event
    BY <2>1 DEF Msg
  <2> QED  BY <2>2 DEF EventsOf
<1>2. EventsOf(s) \in Seq(Event) /\ Len(EventsOf(s)) = Len(s)
  <2>1. EventsOf(s) \in Seq(Event)
    BY <1>1, SeqDef
  <2> QED  BY <1>1, <2>1
<1>3. ASSUME NEW m \in Msg
      PROVE  EventsOf(Append(s, m)) = Append(EventsOf(s), m.event)
  <2> DEFINE t == Append(s, m)
             u == Append(EventsOf(s), m.event)
  <2>1. t \in Seq(Msg) /\ Len(t) = Len(s) + 1
        /\ t[Len(s) + 1] = m /\ \A i \in 1..Len(s) : t[i] = s[i]
    OBVIOUS
  <2>2. m.event \in Event
    BY DEF Msg
  <2>3. u \in Seq(Event) /\ Len(u) = Len(s) + 1
        /\ u[Len(s) + 1] = m.event /\ \A i \in 1..Len(s) : u[i] = EventsOf(s)[i]
    BY <1>2, <2>2
  <2>4. EventsOf(t) = [i \in 1..Len(s) + 1 |-> t[i].event]
    BY <2>1 DEF EventsOf
  <2>5. u = [i \in 1..Len(s) + 1 |-> u[i]]
    BY <2>3
  <2>6. ASSUME NEW i \in 1..Len(s) + 1
        PROVE  t[i].event = u[i]
    <3>1. CASE i \in 1..Len(s)
      BY <2>1, <2>3, <3>1 DEF EventsOf
    <3>2. CASE i \notin 1..Len(s)
      <4>1. i = Len(s) + 1
        BY <1>1, <3>2
      <4> QED  BY <2>1, <2>3, <4>1
    <3> QED  BY <3>1, <3>2
  <2> HIDE DEF t, u
  <2>7. EventsOf(t) = u
    BY <2>4, <2>5, <2>6
  <2> QED  BY <2>7 DEF t, u
<1>4. ASSUME s # <<>>
      PROVE  /\ EventsOf(s) # <<>>
             /\ Head(EventsOf(s)) = Head(s).event
             /\ EventsOf(Tail(s)) = Tail(EventsOf(s))
  <2> DEFINE t == Tail(s)
             u == Tail(EventsOf(s))
  <2>1. Len(s) \in Nat /\ Len(s) >= 1 /\ Head(s) = s[1]
    BY <1>4
  <2>2. EventsOf(s) # <<>>
    BY <1>2, <2>1
  <2>3. Head(EventsOf(s)) = EventsOf(s)[1]
    BY <1>2, <2>2
  <2>4. EventsOf(s)[1] = Head(s).event
    BY <2>1 DEF EventsOf
  <2>5. Len(t) = Len(s) - 1 /\ \A i \in 1..(Len(s) - 1) : t[i] = s[i + 1]
    BY <1>4
  <2>6. u \in Seq(Event) /\ Len(u) = Len(s) - 1
        /\ \A i \in 1..(Len(s) - 1) : u[i] = EventsOf(s)[i + 1]
    BY <1>2, <2>2
  <2>7. EventsOf(t) = [i \in 1..(Len(s) - 1) |-> t[i].event]
    BY <2>5 DEF EventsOf
  <2>8. u = [i \in 1..(Len(s) - 1) |-> u[i]]
    <3>1. u \in [1..(Len(s) - 1) -> Event]
      BY <2>6, LenProperties
    <3> HIDE DEF u
    <3> QED  BY <3>1
  <2>9. ASSUME NEW i \in 1..(Len(s) - 1)
        PROVE  t[i].event = u[i]
    <3>1. i + 1 \in 1..Len(s)
      BY <2>1
    <3> QED  BY <2>5, <2>6, <3>1 DEF EventsOf
  <2> HIDE DEF t, u
  <2>10. EventsOf(t) = u
    BY <2>7, <2>8, <2>9
  <2> QED  BY <2>2, <2>3, <2>4, <2>10 DEF t, u
<1> QED  BY <1>2, <1>3, <1>4

\* Subscribed once, an actor gets one copy of a message, behind those it has.
LEMMA DeliverOnce ==
    ASSUME TypeOK, SubscribedOnce, starts <= 1,
           NEW from, from \in Actor => mailbox[from] # <<>>,
           NEW targets, NEW m \in Msg, Deliver(from, targets, m), NEW a \in Actor
    PROVE  /\ a # from /\ a \notin targets => mailbox'[a] = mailbox[a]
           /\ a = from /\ a \notin targets => mailbox'[a] = Tail(mailbox[a])
           /\ a # from /\ a \in targets =>
                  mailbox'[a] \in {mailbox[a], Append(mailbox[a], m)}
<1> DEFINE kept == IF a = from THEN Tail(mailbox[a]) ELSE mailbox[a]
           added == IF a \in targets THEN Copies(a, m) ELSE <<>>
<1>1. mailbox'[a] = kept \o added
  BY DEF Deliver
<1>2. mailbox[a] \in Seq(Msg) /\ kept \in Seq(Msg)
  BY DEF TypeOK
<1>3. CASE a \notin targets
  <2>1. kept \o added = kept
    <3>1. added = <<>>
      BY <1>3
    <3> HIDE DEF kept, added
    <3> QED  BY <1>2, <3>1, ConcatEmptySeq
  <2> QED  BY <1>1, <1>3, <2>1
<1>4. CASE a \in targets /\ a # from
  <2>1. subs[a] \in Int /\ subs[a] <= 1
    BY DEF TypeOK, SubscribedOnce
  <2>2. mailbox'[a] = mailbox[a] \o Copies(a, m)
    BY <1>1, <1>4
  <2>3. CASE subs[a] = 1
    <3>1. Copies(a, m) = [i \in 1..1 |-> m]
      BY <2>3 DEF Copies
    <3>2. [i \in 1..1 |-> m] = <<m>>
      OBVIOUS
    <3>3. mailbox[a] \o <<m>> = Append(mailbox[a], m)
      BY <1>2, AppendIsConcat
    <3> QED  BY <1>4, <2>2, <3>1, <3>2, <3>3
  <2>4. CASE subs[a] # 1
    <3>1. Copies(a, m) = <<>>
      BY <2>1, <2>4 DEF Copies
    <3>2. mailbox[a] \o <<>> = mailbox[a]
      BY <1>2, ConcatEmptySeq
    <3> QED  BY <1>4, <2>2, <3>1, <3>2
  <2> QED  BY <2>3, <2>4
<1> QED  BY <1>3, <1>4

\* The stages of the line, before and after a step.
LEMMA LineFacts ==
    ASSUME TypeOK, TypeOK'
    PROVE  /\ Line \in [1..5 -> Seq(Event)]
           /\ Line' \in [1..5 -> Seq(Event)]
           /\ Line[1] = traceLog /\ Line'[1] = traceLog'
           /\ Line[2] = EventsOf(mailbox["decision"])
           /\ Line'[2] = EventsOf(mailbox'["decision"])
           /\ Line[3] = EventsOf(mailbox["policy"])
           /\ Line'[3] = EventsOf(mailbox'["policy"])
           /\ Line[4] = EventsOf(mailbox["session"])
           /\ Line'[4] = EventsOf(mailbox'["session"])
           /\ Line[5] = queue /\ Line'[5] = queue'
<1>1. \A a \in {"decision", "policy", "session"} :
          EventsOf(mailbox[a]) \in Seq(Event) /\ EventsOf(mailbox'[a]) \in Seq(Event)
  <2>1. \A a \in {"decision", "policy", "session"} :
            mailbox[a] \in Seq(Msg) /\ mailbox'[a] \in Seq(Msg)
    BY DEF TypeOK, Actor
  <2> QED  BY <2>1, EventsOfFacts
<1>2. traceLog \in Seq(Event) /\ traceLog' \in Seq(Event) /\ queue \in Seq(Event)
      /\ queue' \in Seq(Event)
  BY DEF TypeOK
<1>3. /\ Line[1] = traceLog /\ Line'[1] = traceLog'
      /\ Line[2] = EventsOf(mailbox["decision"])
      /\ Line'[2] = EventsOf(mailbox'["decision"])
      /\ Line[3] = EventsOf(mailbox["policy"])
      /\ Line'[3] = EventsOf(mailbox'["policy"])
      /\ Line[4] = EventsOf(mailbox["session"])
      /\ Line'[4] = EventsOf(mailbox'["session"])
      /\ Line[5] = queue /\ Line'[5] = queue'
  BY DEF Line
<1>4. /\ Line = [n \in 1..5 |-> Line[n]]
      /\ Line' = [n \in 1..5 |-> Line'[n]]
  BY DEF Line
<1>5. \A n \in 1..5 : Line[n] \in Seq(Event) /\ Line'[n] \in Seq(Event)
  <2>1. 1..5 = {1, 2, 3, 4, 5}
    OBVIOUS
  <2> QED  BY <1>1, <1>2, <1>3, <2>1
<1> QED  BY <1>3, <1>4, <1>5

\* A message taken by an actor and handed on to the next one, or dropped,
\* moves the line.
LEMMA DeliverMoves ==
    ASSUME TypeOK, TypeOK', SubscribedOnce, starts <= 1,
           NEW n \in {2, 3}, NEW from, from = (IF n = 2 THEN "policy" ELSE "session"),
           mailbox[from] # <<>>, NEW m \in Msg, m.event = Head(mailbox[from]).event,
           NEW targets,
           targets \in {{}, {IF n = 2 THEN "decision" ELSE "policy"}},
           Deliver(from, targets, m),
           UNCHANGED <<traceLog, queue>>
    PROVE  Moved(Line, Line', n)
<1> DEFINE to == IF n = 2 THEN "decision" ELSE "policy"
           third == IF n = 2 THEN "session" ELSE "decision"
<1>1. /\ from \in Actor /\ to \in Actor /\ third \in Actor
      /\ from # to /\ third # to /\ third # from
      /\ from \notin targets /\ third \notin targets
  BY DEF Actor
<1>2. /\ mailbox[from] \in Seq(Msg) /\ mailbox[to] \in Seq(Msg)
      /\ mailbox[third] \in Seq(Msg)
  BY <1>1 DEF TypeOK
<1>3. /\ mailbox'[from] = Tail(mailbox[from])
      /\ mailbox'[third] = mailbox[third]
      /\ mailbox'[to] \in {mailbox[to], Append(mailbox[to], m)}
  <2> HIDE DEF to, third
  <2> QED  BY <1>1, DeliverOnce
<1>4. /\ EventsOf(mailbox[from]) # <<>>
      /\ EventsOf(mailbox'[from]) = Tail(EventsOf(mailbox[from]))
      /\ Head(EventsOf(mailbox[from])) = m.event
  <2> HIDE DEF to, third
  <2> QED  BY <1>2, <1>3, EventsOfFacts
<1>5. EventsOf(mailbox'[to]) \in {EventsOf(mailbox[to]), Append(EventsOf(mailbox[to]), m.event)}
  <2> HIDE DEF to, third
  <2> QED  BY <1>2, <1>3, EventsOfFacts
<1>6. CASE n = 2
  <2>1. (1..5) \ {n, n + 1} = {1, 4, 5} /\ n + 1 = 3
    BY <1>6
  <2> QED  BY <1>3, <1>4, <1>5, <1>6, <2>1, LineFacts, SMTT(30) DEF Moved
<1>7. CASE n = 3
  <2>1. (1..5) \ {n, n + 1} = {1, 2, 5} /\ n + 1 = 4
    BY <1>7
  <2> QED  BY <1>3, <1>4, <1>5, <1>7, <2>1, LineFacts, SMTT(30) DEF Moved
<1> QED  BY <1>6, <1>7

\* The calls on their way stay in the order they were submitted in, if the
\* runtime is started once.
LEMMA KeepsInLine ==
    ASSUME RuntimeAssumption, MaxStarts <= 1, TypeOK, TypeOK', OnlySubmitted,
           SubscribedOnce, InLine, [Next]_vars
    PROVE  InLine'
<1> USE DEF lifecycle
<1> DEFINE R == {p \in Event \X Event : Before(p[1], p[2])}
<1>0. /\ Line \in [1..5 -> Seq(Event)] /\ Line' \in [1..5 -> Seq(Event)]
      /\ starts <= 1
  BY LineFacts, SMTT(30) DEF TypeOK, RuntimeAssumption
<1>1. ASSUME UNCHANGED order,
             \/ \A n \in 1..5 : Line'[n] = Line[n]
             \/ \E n \in 1..4 : Moved(Line, Line', n)
      PROVE  InLine'
  <2>1. Lined(Line, R)
    BY DEF InLine
  <2>2. Lined(Line', R)
    <3> HIDE DEF R
    <3>1. CASE \A n \in 1..5 : Line'[n] = Line[n]
      BY <2>1, <3>1 DEF Lined
    <3>2. CASE \E n \in 1..4 : Moved(Line, Line', n)
      BY <1>0, <2>1, <3>2, MovedLined
    <3> QED  BY <1>1, <3>1, <3>2
  <2>3. R' = R
    BY <1>1 DEF Before
  <2> HIDE DEF R
  <2>4. Lined(Line', R')
    BY <2>2, <2>3
  <2> QED  BY <2>4 DEF InLine, R, Lined
<1>2. ASSUME NEW e \in Event, Submit(e)
      PROVE  InLine'
  <2>1. /\ queue' = Append(queue, e) /\ order' = Append(order, e)
        /\ UNCHANGED <<traceLog, mailbox>>
    BY <1>2 DEF Submit
  <2>2. order \in Seq(Event) /\ queue \in Seq(Event)
    BY DEF TypeOK
  <2>3. /\ Len(order') = Len(order) + 1 /\ Len(order) \in Nat
        /\ order'[Len(order) + 1] = e
        /\ \A k \in 1..Len(order) : order'[k] = order[k]
    BY <2>1, <2>2
  <2>4. \A x, y \in Event : Before(x, y) => Before(x, y)'
    <3>1. \A k \in 1..Len(order) : k \in 1..Len(order')
      BY <2>3
    <3> QED  BY <2>3, <3>1 DEF Before
  <2>5. ASSUME NEW x \in Elements(order)
        PROVE  Before(x, e)'
    <3>1. PICK k \in 1..Len(order) : order[k] = x
      BY DEF Elements
    <3>2. /\ k \in 1..Len(order') /\ Len(order) + 1 \in 1..Len(order') /\ k < Len(order) + 1
          /\ order'[k] = x
      BY <2>3, <3>1
    <3> QED  BY <2>3, <3>2 DEF Before
  <2>6. ASSUME NEW n \in 1..5, NEW i \in 1..Len(Line[n])
        PROVE  Line[n][i] \in Elements(order) /\ Line[n][i] \in Event
    <3>1. Line[n][i] \in Event
      BY <1>0, SMTT(30)
    <3>2. CASE n \in {2, 3, 4}
      <4>1. PICK a \in {"decision", "policy", "session"} : Line[n] = EventsOf(mailbox[a])
        BY <3>2, LineFacts
      <4>2. a \in Actor /\ mailbox[a] \in Seq(Msg)
        BY DEF Actor, TypeOK
      <4>3. i \in 1..Len(mailbox[a])
        BY <4>1, <4>2, EventsOfFacts
      <4>4. Line[n][i] = mailbox[a][i].event /\ mailbox[a][i] \in Elements(mailbox[a])
        BY <4>1, <4>3 DEF EventsOf, Elements
      <4>5. Mentions(Line[n][i])
        BY <4>2, <4>4 DEF Mentions
      <4> QED  BY <3>1, <4>5 DEF OnlySubmitted
    <3>3. CASE n = 1
      <4>1. Line[n][i] \in Elements(traceLog)
        BY <3>3, LineFacts DEF Elements
      <4> QED  BY <3>1, <4>1 DEF OnlySubmitted, Mentions
    <3>4. CASE n = 5
      <4>1. Line[n][i] \in Elements(queue)
        BY <3>4, LineFacts DEF Elements
      <4> QED  BY <3>1, <4>1 DEF OnlySubmitted
    <3> QED  BY <3>2, <3>3, <3>4
  <2>7. /\ \A n \in 1..4 : Line'[n] = Line[n]
        /\ Line'[5] = Append(Line[5], e)
    <3>1. 1..4 = {1, 2, 3, 4}
      OBVIOUS
    <3> QED  BY <2>1, <3>1, LineFacts
  <2>8. ASSUME NEW n \in 1..5, NEW i \in 1..Len(Line'[n])
        PROVE  \/ i \in 1..Len(Line[n]) /\ Line'[n][i] = Line[n][i]
               \/ n = 5 /\ i = Len(Line[5]) + 1 /\ Line'[n][i] = e
    <3>1. CASE n \in 1..4
      BY <2>7, <3>1
    <3>2. CASE n = 5
      <4>1. Line[5] \in Seq(Event)
        BY <1>0
      <4>2. Line'[5] = Append(Line[5], e)
        BY <2>7
      <4>3. Len(Line'[5]) = Len(Line[5]) + 1 /\ Len(Line[5]) \in Nat
        BY <4>1, <4>2, AppendProperties
      <4>4. CASE i = Len(Line[5]) + 1
        BY <3>2, <4>1, <4>2, <4>4, AppendProperties
      <4>5. CASE i # Len(Line[5]) + 1
        <5>1. i \in 1..Len(Line[5])
          BY <3>2, <4>3, <4>5
        <5> QED  BY <3>2, <4>1, <4>2, <5>1, AppendProperties
      <4> QED  BY <4>4, <4>5
    <3> QED  BY <3>1, <3>2
  <2>9. ASSUME NEW m \in 1..5, NEW n \in 1..5, NEW i \in 1..Len(Line'[m]),
               NEW j \in 1..Len(Line'[n]), m < n \/ (m = n /\ i < j)
        PROVE  <<Line'[m][i], Line'[n][j]>> \in R'
    <3>1. i \in 1..Len(Line[m]) /\ Line'[m][i] = Line[m][i]
      <4>1. CASE m = 5 /\ i = Len(Line[5]) + 1
        <5>1. n = 5
          BY <2>9, <4>1
        <5>2. Len(Line[5]) \in Nat
          BY <1>0
        <5> QED  BY <2>8, <2>9, <4>1, <5>1, <5>2
      <4>2. CASE ~(m = 5 /\ i = Len(Line[5]) + 1)
        BY <2>8, <4>2
      <4> QED  BY <4>1, <4>2
    <3>2. Line[m][i] \in Elements(order) /\ Line[m][i] \in Event
      BY <2>6, <3>1
    <3>3. CASE j \in 1..Len(Line[n]) /\ Line'[n][j] = Line[n][j]
      <4>1. <<Line[m][i], Line[n][j]>> \in R
        BY <2>9, <3>1, <3>3 DEF InLine, Lined
      <4>2. PICK x \in Event, y \in Event :
                x = Line[m][i] /\ y = Line[n][j] /\ Before(x, y)
        BY <2>6, <3>2, <3>3, <4>1
      <4>3. Before(x, y)'
        BY <2>4, <4>2
      <4> QED  BY <3>1, <3>3, <4>2, <4>3 DEF Before
    <3>4. CASE Line'[n][j] = e
      BY <2>5, <3>1, <3>2, <3>4 DEF Before
    <3> QED  BY <2>8, <3>3, <3>4
  <2> HIDE DEF R
  <2>10. Lined(Line', R')
    BY <2>9 DEF Lined
  <2> QED  BY <2>10 DEF InLine, R, Lined
<1>3. CASE Ingress
  <2>1. queue # <<>> /\ queue' = Tail(queue) /\ UNCHANGED <<order, traceLog>>
    BY <1>3 DEF Ingress
  <2>2. /\ mailbox["session"] \in Seq(Msg) /\ Head(queue) \in Event
        /\ "session" \in Actor /\ "policy" \in Actor /\ "decision" \in Actor
        /\ "ingress" \notin Actor
    <3>1. /\ "session" \in Actor /\ "policy" \in Actor /\ "decision" \in Actor
          /\ "ingress" \notin Actor
      BY DEF Actor, Sink
    <3>2. queue \in Seq(Event) /\ mailbox["session"] \in Seq(Msg)
      BY <3>1 DEF TypeOK
    <3> QED  BY <2>1, <3>1, <3>2
  <2>3. /\ \/ mailbox'["session"] = mailbox["session"]
           \/ EventsOf(mailbox'["session"]) = Append(EventsOf(mailbox["session"]), Head(queue))
        /\ mailbox'["policy"] = mailbox["policy"]
        /\ mailbox'["decision"] = mailbox["decision"]
    <3>1. CASE future[Head(queue)] = "pending"
      <4> DEFINE m == [event |-> Head(queue), verdict |-> NoVerdict]
      <4>1. m \in Msg /\ m.event = Head(queue)
        BY <2>2 DEF Msg
      <4>2. Deliver("ingress", {"session"}, m)
        BY <1>3, <3>1 DEF Ingress
      <4> HIDE DEF m
      <4>3. /\ mailbox'["session"] \in {mailbox["session"], Append(mailbox["session"], m)}
            /\ mailbox'["policy"] = mailbox["policy"]
            /\ mailbox'["decision"] = mailbox["decision"]
        <5>1. "policy" \notin {"session"} /\ "decision" \notin {"session"}
              /\ "session" \in {"session"}
          OBVIOUS
        <5>2. ASSUME NEW a \in Actor
              PROVE  /\ a # "ingress" /\ a \notin {"session"} => mailbox'[a] = mailbox[a]
                     /\ a # "ingress" /\ a \in {"session"} =>
                            mailbox'[a] \in {mailbox[a], Append(mailbox[a], m)}
          BY <1>0, <2>2, <4>1, <4>2, DeliverOnce
        <5>3. ASSUME NEW a \in Actor
              PROVE  a # "ingress"
          BY <2>2
        <5> QED  BY <2>2, <5>1, <5>2, <5>3
      <4> QED  BY <2>2, <4>1, <4>3, EventsOfFacts
    <3>2. CASE future[Head(queue)] # "pending"
      BY <1>3, <3>2 DEF Ingress
    <3> QED  BY <3>1, <3>2
  <2>4. 4 \in 1..4 /\ (1..5) \ {4, 4 + 1} = {1, 2, 3}
    OBVIOUS
  <2>5. Moved(Line, Line', 4)
    BY <2>1, <2>3, <2>4, LineFacts DEF Moved
  <2> QED  BY <1>1, <2>1, <2>4, <2>5
<1>4. CASE Session
  <2>1. /\ mailbox["session"] # <<>>
        /\ UNCHANGED <<order, traceLog, queue>>
        /\ Received("session") = Head(mailbox["session"])
    BY <1>4 DEF Session, SessionForwards, SessionFails, Receives, Received
  <2>2. Received("session") \in Msg
    BY <2>1, HeadTailProperties DEF TypeOK, Actor
  <2>3. \/ Deliver("session", {}, Received("session"))
        \/ Deliver("session", {"policy"}, Received("session"))
    BY <1>4 DEF Session, SessionForwards, SessionFails
  <2>4. Moved(Line, Line', 3)
    <3>1. /\ "session" = (IF 3 = 2 THEN "policy" ELSE "session")
          /\ {} \in {{}, {IF 3 = 2 THEN "decision" ELSE "policy"}}
          /\ {"policy"} \in {{}, {IF 3 = 2 THEN "decision" ELSE "policy"}}
      OBVIOUS
    <3>2. CASE Deliver("session", {}, Received("session"))
      BY <1>0, <2>1, <2>2, <3>1, <3>2, DeliverMoves
    <3>3. CASE Deliver("session", {"policy"}, Received("session"))
      BY <1>0, <2>1, <2>2, <3>1, <3>3, DeliverMoves
    <3> QED  BY <2>3, <3>2, <3>3
  <2> QED  BY <1>1, <2>1, <2>4
<1>5. CASE Policy
  <2>1. /\ mailbox["policy"] # <<>>
        /\ UNCHANGED <<order, traceLog, queue>>
        /\ Received("policy") = Head(mailbox["policy"])
    BY <1>5 DEF Policy, PolicyDecides, PolicyFails, Receives, Received
  <2>2. Received("policy") \in Msg
    BY <2>1, HeadTailProperties DEF TypeOK, Actor
  <2>3. CASE PolicyFails
    <3>1. Deliver("policy", {}, Received("policy"))
      BY <2>3 DEF PolicyFails
    <3>2. Moved(Line, Line', 2)
      BY <1>0, <2>1, <2>2, <3>1, DeliverMoves
    <3> QED  BY <1>1, <2>1, <3>2
  <2>4. CASE PolicyDecides
    <3>1. PICK v \in Verdicts :
              Deliver("policy", {"decision"}, [Received("policy") EXCEPT !.verdict = v])
      BY <2>4 DEF PolicyDecides
    <3> DEFINE m == [Received("policy") EXCEPT !.verdict = v]
    <3>2. m \in Msg /\ m.event = Head(mailbox["policy"]).event
      BY <2>1, <2>2 DEF Msg
    <3>3. Deliver("policy", {"decision"}, m)
      BY <3>1
    <3> HIDE DEF m
    <3>4. Moved(Line, Line', 2)
      BY <1>0, <2>1, <3>2, <3>3, DeliverMoves
    <3> QED  BY <1>1, <2>1, <3>4
  <2> QED  BY <1>5, <2>3, <2>4 DEF Policy
<1>6. CASE Decide
  <2> DEFINE m == Received("decision")
  <2>1. /\ mailbox["decision"] # <<>> /\ m = Head(mailbox["decision"])
        /\ UNCHANGED <<order, queue>>
        /\ traceLog' \in {traceLog, Append(traceLog, m.event)}
    BY <1>6 DEF Decide, Receives, Received, Traced
  <2>2. PICK slow \in SlowPath : Deliver("decision", FanOut(m.verdict, slow), m)
    BY <1>6 DEF Decide
  <2>3. /\ "session" \in Actor /\ "policy" \in Actor /\ "decision" \in Actor
        /\ mailbox["decision"] \in Seq(Msg)
        /\ \A a \in {"session", "policy", "decision"} : a \notin FanOut(m.verdict, slow)
    <3> HIDE DEF m
    <3> QED  BY DEF Actor, TypeOK, FanOut
  <2>4. m \in Msg
    BY <2>1, <2>3, HeadTailProperties
  <2>5. /\ mailbox'["decision"] = Tail(mailbox["decision"])
        /\ mailbox'["policy"] = mailbox["policy"]
        /\ mailbox'["session"] = mailbox["session"]
    <3> HIDE DEF m
    <3> QED  BY <1>0, <2>1, <2>2, <2>3, <2>4, DeliverOnce, SMTT(30)
  <2>6. /\ EventsOf(mailbox["decision"]) # <<>>
        /\ EventsOf(mailbox'["decision"]) = Tail(EventsOf(mailbox["decision"]))
        /\ Head(EventsOf(mailbox["decision"])) = m.event
    BY <2>1, <2>3, <2>5, EventsOfFacts
  <2>7. 1 \in 1..4 /\ (1..5) \ {1, 1 + 1} = {3, 4, 5}
    OBVIOUS
  <2>8. Moved(Line, Line', 1)
    <3> HIDE DEF m
    <3> QED  BY <2>1, <2>5, <2>6, <2>7, LineFacts DEF Moved
  <2> QED  BY <1>1, <2>1, <2>7, <2>8
<1>7. ASSUME UNCHANGED <<order, traceLog, queue>>,
             \A a \in {"session", "policy", "decision"} : mailbox'[a] = mailbox[a]
      PROVE  InLine'
  <2>1. \A n \in {1, 2, 3, 4, 5} : Line'[n] = Line[n]
    BY <1>7, LineFacts
  <2>2. \A n \in 1..5 : Line'[n] = Line[n]
    <3>1. 1..5 = {1, 2, 3, 4, 5}
      OBVIOUS
    <3> QED  BY <2>1, <3>1
  <2> QED  BY <1>1, <1>7, <2>2
<1>8. ASSUME NEW s \in Sink, HandOn(s)
      PROVE  InLine'
  <2>1. /\ s \in Actor /\ s \notin {"session", "policy", "decision"}
        /\ {"session", "policy", "decision"} \subseteq Actor
    BY DEF Actor, Sink
  <2>2. /\ Receives(s) /\ Deliver(s, {}, Received(s))
        /\ UNCHANGED <<order, traceLog, queue>>
    BY <1>8 DEF HandOn
  <2>3. mailbox[s] # <<>> /\ Received(s) \in Msg
    BY <2>1, <2>2, ReceivedFacts
  <2>4. \A a \in {"session", "policy", "decision"} : mailbox'[a] = mailbox[a]
    BY <1>0, <2>1, <2>2, <2>3, DeliverOnce
  <2> QED  BY <1>7, <2>2, <2>4
<1>9. CASE \/ Start \/ StopBegin \/ StopNext \/ (\E e \in Event : GiveUp(e))
           \/ UNCHANGED vars
  <2>1. UNCHANGED <<order, traceLog, queue, mailbox>>
    BY <1>9 DEF Start, StopBegin, StopNext, GiveUp, vars
  <2> QED  BY <1>7, <2>1
<1> QED  BY <1>2, <1>3, <1>4, <1>5, <1>6, <1>8, <1>9 DEF Next

\* Every start() subscribes an actor once more: preserved by every step.
LEMMA KeepsSubscribedOnce ==
    ASSUME RuntimeAssumption, TypeOK, SubscribedOnce, [Next]_vars
    PROVE  SubscribedOnce'
<1> USE DEF SubscribedOnce
<1>1. starts \in Int /\ \A a \in Actor : subs[a] \in Int
  BY DEF TypeOK, RuntimeAssumption
<1>2. CASE Start
  BY <1>1, <1>2 DEF Start
<1>3. CASE StopNext
  <2>1. starts' = starts /\ \A a \in Actor : subs'[a] \in {subs[a], subs[a] - 1}
    BY <1>3 DEF StopNext, Unsubscribed
  <2> QED  BY <1>1, <2>1
<1>4. CASE UNCHANGED <<starts, subs>>
  BY <1>4
<1>5. Start \/ StopNext \/ UNCHANGED <<starts, subs>>
  BY DEF Next, vars, lifecycle, StopBegin, Submit, GiveUp, Ingress, Session, SessionForwards,
         SessionFails, Policy, PolicyDecides, PolicyFails, Decide, HandOn
<1> QED  BY <1>2, <1>3, <1>4, <1>5

-----------------------------------------------------------------------------
(* How often a call is decided.                                            *)

\* What a place of a sequence holds is counted once.
LEMMA TimesFacts ==
    ASSUME NEW S, NEW s \in Seq(S), NEW e
    PROVE  /\ Times(e, s) \in Nat
           /\ Times(e, s) = 0 <=> e \notin Elements(s)
<1> DEFINE P == {i \in 1..Len(s) : s[i] = e}
<1>1. IsFiniteSet(P)
  <2>1. PICK l \in Nat : l = Len(s)
    OBVIOUS
  <2>2. IsFiniteSet(1..l)
    BY <2>1, FS_Interval
  <2>3. P \in SUBSET (1..l)
    BY <2>1
  <2> QED BY <2>2, <2>3, FS_Subset
<1>2. Cardinality(P) \in Nat /\ (Cardinality(P) = 0 <=> P = {})
  BY <1>1, FS_CardinalityType, FS_EmptySet
<1>3. P = {} <=> e \notin Elements(s)
  BY DEF Elements
<1>4. Times(e, s) = Cardinality(P)
  BY DEF Times
<1> QED BY <1>2, <1>3, <1>4

\* Places behind the l first ones.
LEMMA ShiftFacts ==
    ASSUME NEW l \in Nat, NEW n \in Nat
    PROVE  /\ \A i \in 1..n : l + i \in 1..(l + n) /\ l + i \notin 1..l /\ (l + i) - l = i
           /\ \A i \in 1..(l + n) : i \notin 1..l => i - l \in 1..n /\ l + (i - l) = i
           /\ \A i \in 1..l : i \in 1..(l + n)
           /\ \A i, j \in 1..n : l + i = l + j => i = j
OBVIOUS

\* Two sequences put together.
LEMMA ConcatFacts ==
    ASSUME NEW S, NEW s \in Seq(S), NEW t \in Seq(S)
    PROVE  /\ s \o t \in Seq(S) /\ Len(s \o t) = Len(s) + Len(t)
           /\ \A i \in 1..Len(s) : (s \o t)[i] = s[i]
           /\ \A i \in 1..Len(t) : (s \o t)[Len(s) + i] = t[i]
OBVIOUS

\* In two sequences put together an element stands as often as in both.
LEMMA TimesConcat ==
    ASSUME NEW S, NEW s \in Seq(S), NEW t \in Seq(S), NEW e
    PROVE  Times(e, s \o t) = Times(e, s) + Times(e, t)
<1>1. PICK l \in Nat, n \in Nat : l = Len(s) /\ n = Len(t)
  OBVIOUS
<1>2. PICK u : u = s \o t
  OBVIOUS
<1>3. /\ Len(u) = l + n
      /\ \A i \in 1..l : u[i] = s[i]
      /\ \A i \in 1..n : u[l + i] = t[i]
  BY <1>1, <1>2
<1>4. PICK A : A = {i \in 1..l : s[i] = e}
  OBVIOUS
<1>5. PICK B : B = {i \in 1..n : t[i] = e}
  OBVIOUS
<1>6. PICK C : C = {l + i : i \in B}
  OBVIOUS
<1>7. {i \in 1..(l + n) : u[i] = e} = A \cup C
  <2>1. ASSUME NEW i \in 1..(l + n), u[i] = e PROVE i \in A \cup C
    <3>1. CASE i \in 1..l
      BY <2>1, <3>1, <1>3, <1>4
    <3>2. CASE i \notin 1..l
      <4>1. i - l \in 1..n /\ l + (i - l) = i
        BY <3>2, ShiftFacts
      <4>2. i - l \in B
        BY <4>1, <2>1, <1>3, <1>5
      <4> QED BY <4>1, <4>2, <1>6
    <3> QED BY <3>1, <3>2
  <2>2. ASSUME NEW i \in A PROVE i \in 1..(l + n) /\ u[i] = e
    BY <2>2, <1>3, <1>4, ShiftFacts
  <2>3. ASSUME NEW i \in C PROVE i \in 1..(l + n) /\ u[i] = e
    <3>1. PICK j \in B : i = l + j
      BY <2>3, <1>6
    <3> QED BY <3>1, <1>3, <1>5, ShiftFacts
  <2> QED BY <2>1, <2>2, <2>3
<1>8. IsFiniteSet(A) /\ IsFiniteSet(B)
  <2>1. IsFiniteSet(1..l) /\ IsFiniteSet(1..n)
    BY FS_Interval
  <2>2. A \in SUBSET (1..l) /\ B \in SUBSET (1..n)
    BY <1>4, <1>5
  <2> QED BY <2>1, <2>2, FS_Subset
<1>9. IsFiniteSet(C) /\ Cardinality(C) = Cardinality(B)
  <2>1. PICK f : f = [i \in B |-> l + i]
    OBVIOUS
  <2>2. f \in Bijection(B, C)
    <3>1. f \in [B -> C] /\ \A i \in B : f[i] = l + i
      BY <2>1, <1>6
    <3>2. \A i, j \in B : f[i] = f[j] => i = j
      BY <3>1, <1>5, ShiftFacts
    <3>3. \A c \in C : \E i \in B : f[i] = c
      BY <3>1, <1>6
    <3> QED BY <3>1, <3>2, <3>3 DEF Bijection, Injection, Surjection, IsInjective
  <2>3. ExistsBijection(B, C)
    BY <2>2 DEF ExistsBijection
  <2> QED BY <2>3, <1>8, FS_Bijection
<1>10. A \cap C = {}
  <2>1. \A i \in C : i \notin 1..l
    BY <1>5, <1>6, ShiftFacts
  <2> QED BY <2>1, <1>4
<1>11. Cardinality(A \cup C) = Cardinality(A) + Cardinality(C)
  <2>1. /\ Cardinality(A) \in Nat /\ Cardinality(C) \in Nat
        /\ Cardinality(A \cup C) = Cardinality(A) + Cardinality(C) - Cardinality(A \cap C)
    BY <1>8, <1>9, FS_Union, FS_CardinalityType
  <2>2. Cardinality(A \cap C) = 0
    BY <1>10, FS_EmptySet
  <2> QED BY <2>1, <2>2
<1>12. /\ Times(e, s) = Cardinality(A) /\ Times(e, t) = Cardinality(B)
       /\ Times(e, u) = Cardinality(A \cup C)
  BY <1>1, <1>3, <1>4, <1>5, <1>7 DEF Times
<1> QED BY <1>2, <1>9, <1>11, <1>12

\* A sequence of one.
LEMMA TimesOne ==
    ASSUME NEW x, NEW e PROVE Times(e, <<x>>) = IF x = e THEN 1 ELSE 0
<1>1. {i \in 1..Len(<<x>>) : <<x>>[i] = e} = IF x = e THEN {1} ELSE {}
  OBVIOUS
<1>2. Cardinality({1}) = 1 /\ Cardinality({}) = 0
  BY FS_Singleton, FS_EmptySet
<1> QED BY <1>1, <1>2 DEF Times

\* With the first element gone, it is counted once less.
LEMMA TimesTail ==
    ASSUME NEW S, NEW s \in Seq(S), s # <<>>, NEW e
    PROVE  Times(e, s) = Times(e, Tail(s)) + (IF Head(s) = e THEN 1 ELSE 0)
<1>1. s = <<Head(s)>> \o Tail(s) /\ <<Head(s)>> \in Seq(S) /\ Tail(s) \in Seq(S)
  OBVIOUS
<1>2. Times(e, s) = Times(e, <<Head(s)>>) + Times(e, Tail(s))
  BY <1>1, TimesConcat
<1>3. Times(e, Tail(s)) \in Nat
  BY <1>1, TimesFacts
<1> QED BY <1>2, <1>3, TimesOne

\* With an element more at the end, it is counted once more.
LEMMA TimesAppend ==
    ASSUME NEW S, NEW s \in Seq(S), NEW x \in S, NEW e
    PROVE  Times(e, Append(s, x)) = Times(e, s) + (IF x = e THEN 1 ELSE 0)
<1>1. Append(s, x) = s \o <<x>> /\ <<x>> \in Seq(S)
  BY AppendIsConcat
<1>2. Times(e, s \o <<x>>) = Times(e, s) + Times(e, <<x>>)
  BY <1>1, TimesConcat
<1> QED BY <1>1, <1>2, TimesOne

\* The events of two sequences of messages put together.
LEMMA EventsOfConcat ==
    ASSUME NEW s \in Seq(Msg), NEW t \in Seq(Msg)
    PROVE  EventsOf(s \o t) = EventsOf(s) \o EventsOf(t)
<1>1. PICK l \in Nat, n \in Nat : l = Len(s) /\ n = Len(t)
  OBVIOUS
<1>2. PICK u : u = s \o t
  OBVIOUS
<1>3. /\ u \in Seq(Msg) /\ Len(u) = l + n
      /\ \A i \in 1..l : u[i] = s[i]
      /\ \A i \in 1..n : u[l + i] = t[i]
  BY <1>1, <1>2
<1>4. PICK v : v = EventsOf(s) \o EventsOf(t)
  OBVIOUS
<1>5. EventsOf(s) \in Seq(Event) /\ EventsOf(t) \in Seq(Event)
      /\ Len(EventsOf(s)) = l /\ Len(EventsOf(t)) = n
  BY <1>1, EventsOfFacts
<1>6. /\ v \in Seq(Event) /\ Len(v) = l + n
      /\ \A i \in 1..l : v[i] = EventsOf(s)[i]
      /\ \A i \in 1..n : v[l + i] = EventsOf(t)[i]
  <2>1. PICK p \in Seq(Event), q \in Seq(Event) : p = EventsOf(s) /\ q = EventsOf(t)
    BY <1>5
  <2>2. v = p \o q /\ Len(p) = l /\ Len(q) = n
    BY <2>1, <1>4, <1>5
  <2>3. /\ p \o q \in Seq(Event) /\ Len(p \o q) = Len(p) + Len(q)
        /\ \A i \in 1..Len(p) : (p \o q)[i] = p[i]
        /\ \A i \in 1..Len(q) : (p \o q)[Len(p) + i] = q[i]
    BY <2>1, ConcatFacts
  <2> QED BY <2>1, <2>2, <2>3
<1>7. EventsOf(u) = [i \in 1..(l + n) |-> u[i].event]
  BY <1>3 DEF EventsOf
<1>8. v = [i \in 1..(l + n) |-> v[i]]
  BY <1>6
<1>9. ASSUME NEW i \in 1..(l + n) PROVE u[i].event = v[i]
  <2>1. CASE i \in 1..l
    BY <2>1, <1>1, <1>3, <1>6 DEF EventsOf
  <2>2. CASE i \notin 1..l
    <3>1. i - l \in 1..n /\ l + (i - l) = i
      BY <2>2, ShiftFacts
    <3>2. u[i] = t[i - l] /\ v[i] = EventsOf(t)[i - l]
      BY <3>1, <1>3, <1>6
    <3> QED BY <3>1, <3>2, <1>1 DEF EventsOf
  <2> QED BY <2>1, <2>2
<1> QED BY <1>2, <1>4, <1>7, <1>8, <1>9

\* How often an event stands in an actor's mailbox.
InMail(a, e) == Times(e, EventsOf(mailbox[a]))

\* What a publication adds to the mailbox of an actor.
Added(a, targets, m, e) ==
    IF a \in targets /\ m.event = e /\ subs[a] > 0 THEN subs[a] ELSE 0

\* The copies of a message, counted.
LEMMA CopiesFacts ==
    ASSUME TypeOK, NEW a \in Actor, NEW m \in Msg, NEW e
    PROVE  /\ Copies(a, m) \in Seq(Msg)
           /\ Times(e, EventsOf(Copies(a, m))) = Added(a, {a}, m, e)
<1>1. PICK n \in Int : n = subs[a]
  BY DEF TypeOK
<1>2. PICK c : c = Copies(a, m)
  OBVIOUS
<1>3. c = [i \in 1..n |-> m]
  BY <1>1, <1>2 DEF Copies
<1>4. PICK l \in Nat : l = IF n > 0 THEN n ELSE 0
  OBVIOUS
<1>5. 1..n = 1..l
  BY <1>4
<1>6. c \in Seq(Msg) /\ Len(c) = l /\ \A i \in 1..l : c[i] = m
  <2>1. c = [i \in 1..l |-> m]
    BY <1>3, <1>5
  <2>2. c \in [1..l -> Msg]
    BY <2>1
  <2>3. c \in Seq(Msg)
    BY <2>2, SeqDef
  <2>4. Len(c) = l
    BY <2>2, <2>3, LenProperties
  <2> QED BY <2>1, <2>3, <2>4
<1>7. Len(EventsOf(c)) = l /\ \A i \in 1..l : EventsOf(c)[i] = m.event
  <2>1. Len(EventsOf(c)) = l
    BY <1>6, EventsOfFacts
  <2>2. EventsOf(c) = [i \in 1..l |-> c[i].event]
    BY <1>6 DEF EventsOf
  <2> QED BY <1>6, <2>1, <2>2
<1>8. {i \in 1..Len(EventsOf(c)) : EventsOf(c)[i] = e} = IF m.event = e THEN 1..l ELSE {}
  BY <1>7
<1>9. Cardinality(1..l) = l /\ Cardinality({}) = 0
  <2>1. Cardinality(1..l) = IF 1 > l THEN 0 ELSE l - 1 + 1
    BY FS_Interval
  <2>2. Cardinality(1..l) = l
    BY <2>1
  <2> QED BY <2>2, FS_EmptySet
<1>10. Times(e, EventsOf(c)) = IF m.event = e THEN l ELSE 0
  BY <1>8, <1>9 DEF Times
<1> QED BY <1>1, <1>2, <1>4, <1>6, <1>10 DEF Added

\* A publication takes one message from the publisher and leaves its targets
\* one for each subscription.
LEMMA DeliverCounts ==
    ASSUME TypeOK, TypeOK',
           NEW from, from \in Actor => mailbox[from] # <<>>,
           NEW targets, NEW m \in Msg, Deliver(from, targets, m),
           NEW a \in Actor, NEW e
    PROVE  /\ InMail(a, e) \in Nat /\ InMail(a, e)' \in Nat
           /\ InMail(a, e)' = InMail(a, e)
                  - (IF a = from /\ Head(mailbox[a]).event = e THEN 1 ELSE 0)
                  + Added(a, targets, m, e)
<1>1. PICK k : k = IF a = from THEN Tail(mailbox[a]) ELSE mailbox[a]
  OBVIOUS
<1>2. PICK c : c = IF a \in targets THEN Copies(a, m) ELSE <<>>
  OBVIOUS
<1>3. mailbox'[a] = k \o c
  BY <1>1, <1>2 DEF Deliver
<1>4. mailbox[a] \in Seq(Msg) /\ mailbox'[a] \in Seq(Msg)
  BY DEF TypeOK
<1>5. k \in Seq(Msg) /\ c \in Seq(Msg)
  <2>1. k \in Seq(Msg)
    <3>1. a = from => Tail(mailbox[a]) \in Seq(Msg)
      BY <1>4
    <3> QED BY <3>1, <1>1, <1>4
  <2>2. Copies(a, m) \in Seq(Msg) /\ Times(e, EventsOf(Copies(a, m))) = Added(a, {a}, m, e)
    BY CopiesFacts
  <2>3. <<>> \in Seq(Msg)
    OBVIOUS
  <2> QED BY <1>2, <2>1, <2>2, <2>3
<1>6. EventsOf(mailbox'[a]) = EventsOf(k) \o EventsOf(c)
  BY <1>3, <1>5, EventsOfConcat
<1>7. /\ EventsOf(k) \in Seq(Event) /\ EventsOf(c) \in Seq(Event)
      /\ EventsOf(mailbox[a]) \in Seq(Event) /\ EventsOf(mailbox'[a]) \in Seq(Event)
  BY <1>4, <1>5, EventsOfFacts
<1>8. Times(e, EventsOf(mailbox'[a])) = Times(e, EventsOf(k)) + Times(e, EventsOf(c))
  BY <1>6, <1>7, TimesConcat
<1>9. /\ Times(e, EventsOf(k)) \in Nat /\ Times(e, EventsOf(c)) \in Nat
      /\ Times(e, EventsOf(mailbox[a])) \in Nat /\ Times(e, EventsOf(mailbox'[a])) \in Nat
  BY <1>7, TimesFacts
<1>10. Times(e, EventsOf(c)) = Added(a, targets, m, e)
  <2>1. CASE a \in targets
    BY <2>1, <1>2, CopiesFacts DEF Added
  <2>2. CASE a \notin targets
    <3>1. EventsOf(c) = <<>>
      <4>1. c = <<>>
        BY <2>2, <1>2
      <4> QED BY <4>1 DEF EventsOf
    <3>2. Elements(EventsOf(c)) = {}
      BY <3>1 DEF Elements
    <3> QED BY <2>2, <3>2, <1>7, TimesFacts DEF Added
  <2> QED BY <2>1, <2>2
<1>11. Times(e, EventsOf(k)) = Times(e, EventsOf(mailbox[a]))
                                  - (IF a = from /\ Head(mailbox[a]).event = e THEN 1 ELSE 0)
  <2>1. CASE a = from
    <3>1. mailbox[a] # <<>> /\ k = Tail(mailbox[a])
      BY <2>1, <1>1
    <3>2. /\ EventsOf(mailbox[a]) # <<>> /\ Head(EventsOf(mailbox[a])) = Head(mailbox[a]).event
          /\ EventsOf(k) = Tail(EventsOf(mailbox[a]))
      BY <3>1, <1>4, EventsOfFacts
    <3>3. Times(e, EventsOf(mailbox[a])) = Times(e, EventsOf(k))
              + (IF Head(mailbox[a]).event = e THEN 1 ELSE 0)
      BY <3>2, <1>7, TimesTail
    <3> QED BY <2>1, <3>3, <1>9
  <2>2. CASE a # from
    BY <2>2, <1>1, <1>9
  <2> QED BY <2>1, <2>2
<1> QED BY <1>8, <1>9, <1>10, <1>11 DEF InMail

\* Where a decision ends: in the trace, or with one of the sinks.
End == Sink \cup {"trace"}

\* How often an event is decided or on its way to be, seen from one end.
Load(e, x) ==
    InMail("policy", e) + InMail("decision", e)
        + (IF x = "trace" THEN Times(e, traceLog) ELSE InMail(x, e) + Times(e, EventsOf(out[x])))

\* A call that SessionActor has not forwarded is nowhere else, and one that it
\* has forwarded stands before an end as often as PolicyActor was subscribed.
LoadBounded ==
    \A e \in Event :
        /\ InMail("session", e) <= 1
        /\ \A x \in End : /\ Load(e, x) <= starts
                          /\ InMail("session", e) # 0 => Load(e, x) = 0

\* The other actors are subscribed once while the runtime is up and stop() has
\* not been past them.
SubscribedWhileUp ==
    /\ started \/ stopping = 0
    /\ \A a \in Actor \ {"policy"} :
        /\ subs[a] <= 1
        /\ (~started \/ \E k \in 1..11 : k < stopping /\ a \in StopOrder[k]) => subs[a] <= 0

\* All counts are numbers.
LEMMA LoadFacts ==
    ASSUME TypeOK, NEW e
    PROVE  /\ \A a \in Actor : InMail(a, e) \in Nat
           /\ Times(e, traceLog) \in Nat
           /\ \A s \in Sink : Times(e, EventsOf(out[s])) \in Nat
           /\ \A x \in End : Load(e, x) \in Nat
<1>1. ASSUME NEW a \in Actor PROVE InMail(a, e) \in Nat
  <2>1. mailbox[a] \in Seq(Msg)
    BY DEF TypeOK
  <2>2. EventsOf(mailbox[a]) \in Seq(Event)
    BY <2>1, EventsOfFacts
  <2> QED BY <2>2, TimesFacts DEF InMail
<1>2. Times(e, traceLog) \in Nat
  <2>1. traceLog \in Seq(Event)
    BY DEF TypeOK
  <2> QED BY <2>1, TimesFacts
<1>3. ASSUME NEW s \in Sink PROVE Times(e, EventsOf(out[s])) \in Nat
  <2>1. out[s] \in Seq(Msg)
    BY DEF TypeOK
  <2>2. EventsOf(out[s]) \in Seq(Event)
    BY <2>1, EventsOfFacts
  <2> QED BY <2>2, TimesFacts
<1>4. ASSUME NEW x \in End PROVE Load(e, x) \in Nat
  <2>1. InMail("policy", e) \in Nat /\ InMail("decision", e) \in Nat
    BY <1>1 DEF Actor
  <2>2. CASE x = "trace"
    BY <2>1, <2>2, <1>2 DEF Load
  <2>3. CASE x # "trace"
    <3>1. x \in Sink /\ x \in Actor
      BY <2>3 DEF End, Actor
    <3>2. InMail(x, e) \in Nat /\ Times(e, EventsOf(out[x])) \in Nat
      BY <3>1, <1>1, <1>3
    <3> QED BY <2>1, <2>3, <3>2 DEF Load
  <2> QED BY <2>2, <2>3
<1> QED BY <1>1, <1>2, <1>3, <1>4

\* What a publication adds: one message at most, but for PolicyActor.
LEMMA AddedFacts ==
    ASSUME TypeOK, SubscribedWhileUp, SubscribedOnce,
           NEW a \in Actor, NEW targets, NEW m, NEW e
    PROVE  /\ Added(a, targets, m, e) \in Nat
           /\ a \notin targets \/ m.event # e => Added(a, targets, m, e) = 0
           /\ a # "policy" => Added(a, targets, m, e) <= 1
           /\ Added(a, targets, m, e) <= starts
<1>1. subs[a] \in Int /\ starts \in Nat /\ subs[a] <= starts
  BY DEF TypeOK, SubscribedOnce
<1>2. a # "policy" => subs[a] <= 1
  BY DEF SubscribedWhileUp
<1> QED BY <1>1, <1>2 DEF Added

\* Start and stop subscribe and unsubscribe in turn.
LEMMA KeepsSubscribedWhileUp ==
    ASSUME TypeOK, SubscribedWhileUp, [Next]_vars
    PROVE  SubscribedWhileUp'
<1>1. /\ stopping \in 0..11 /\ started \in BOOLEAN
      /\ \A a \in Actor : subs[a] \in Int
  BY StopOrderFacts DEF TypeOK
<1>2. CASE Start
  <2>1. ~started /\ started' = TRUE /\ stopping' = stopping /\ subs' = [a \in Actor |-> subs[a] + 1]
    BY <1>2 DEF Start
  <2>2. stopping = 0
    BY <2>1 DEF SubscribedWhileUp
  <2>3. ASSUME NEW a \in Actor \ {"policy"} PROVE subs'[a] <= 1
    <3>1. subs[a] <= 0
      BY <2>1 DEF SubscribedWhileUp
    <3> QED BY <1>1, <2>1, <3>1
  <2>4. \A k \in 1..11 : ~(k < stopping')
    BY <2>1, <2>2
  <2> QED BY <2>1, <2>3, <2>4 DEF SubscribedWhileUp
<1>3. CASE StopBegin
  <2>1. started /\ started' = started /\ stopping' = 1 /\ subs' = subs
    BY <1>3 DEF StopBegin
  <2>2. \A k \in 1..11 : ~(k < stopping')
    BY <2>1
  <2> QED BY <2>1, <2>2 DEF SubscribedWhileUp
<1>4. CASE StopNext
  <2>1. /\ stopping > 0 /\ stopping \in 1..11
        /\ subs' = Unsubscribed(StopOrder[stopping])
        /\ \/ stopping < 11 /\ stopping' = stopping + 1 /\ started' = started
           \/ stopping = 11 /\ stopping' = 0 /\ started' = FALSE
    <3>1. /\ stopping > 0
          /\ subs' = Unsubscribed(StopOrder[stopping])
          /\ IF stopping < 11 THEN stopping' = stopping + 1 /\ started' = started
             ELSE stopping' = 0 /\ started' = FALSE
      BY <1>4, StopOrderFacts DEF StopNext
    <3> QED BY <3>1, <1>1
  <2>2. ASSUME NEW a \in Actor \ {"policy"}
        PROVE  /\ subs'[a] <= 1
               /\ (~started' \/ \E k \in 1..11 : k < stopping' /\ a \in StopOrder[k]) => subs'[a] <= 0
    <3>1. subs'[a] = IF a \in StopOrder[stopping] THEN subs[a] - 1 ELSE subs[a]
      BY <2>1 DEF Unsubscribed
    <3>2. subs[a] \in Int /\ subs[a] <= 1
      BY <1>1 DEF SubscribedWhileUp
    <3>3. CASE a \in StopOrder[stopping]
      BY <3>1, <3>2, <3>3
    <3>4. CASE a \notin StopOrder[stopping]
      <4>1. \E k \in 1..11 : a \in StopOrder[k]
        BY DEF StopOrder, Actor, Sink
      <4>2. ASSUME ~started' \/ \E k \in 1..11 : k < stopping' /\ a \in StopOrder[k]
            PROVE  ~started \/ \E k \in 1..11 : k < stopping /\ a \in StopOrder[k]
        <5>1. CASE stopping = 11
          <6>1. PICK k \in 1..11 : a \in StopOrder[k]
            BY <4>1
          <6>2. k < stopping
            BY <5>1, <6>1, <3>4
          <6> QED BY <6>1, <6>2
        <5>2. CASE stopping < 11
          <6>1. stopping' = stopping + 1 /\ started' = started
            BY <5>2, <2>1
          <6>2. CASE ~started
            BY <6>2
          <6>3. CASE \E k \in 1..11 : k < stopping' /\ a \in StopOrder[k]
            <7>1. PICK k \in 1..11 : k < stopping' /\ a \in StopOrder[k]
              BY <6>3
            <7>2. k < stopping
              BY <7>1, <6>1, <3>4, <2>1
            <7> QED BY <7>1, <7>2
          <6> QED BY <4>2, <6>1, <6>2, <6>3
        <5> QED BY <2>1, <5>1, <5>2
      <4> QED BY <3>1, <3>2, <3>4, <4>2 DEF SubscribedWhileUp
    <3> QED BY <3>3, <3>4
  <2>3. started' \/ stopping' = 0
    BY <2>1 DEF SubscribedWhileUp
  <2> QED BY <2>2, <2>3 DEF SubscribedWhileUp
<1>5. CASE UNCHANGED <<started, stopping, subs>>
  BY <1>5 DEF SubscribedWhileUp
<1>6. Start \/ StopBegin \/ StopNext \/ UNCHANGED <<started, stopping, subs>>
  BY DEF Next, vars, lifecycle, Submit, GiveUp, Ingress, Session, SessionForwards,
         SessionFails, Policy, PolicyDecides, PolicyFails, Decide, HandOn
<1> QED BY <1>2, <1>3, <1>4, <1>5, <1>6

\* What nobody mentions is counted nowhere.
LEMMA UnmentionedFacts ==
    ASSUME TypeOK, NEW e \in Event, ~Mentions(e)
    PROVE  /\ \A a \in Actor : InMail(a, e) = 0
           /\ \A x \in End : Load(e, x) = 0
<1>1. ASSUME NEW s \in Seq(Msg), \A m \in Elements(s) : m.event # e
      PROVE  Times(e, EventsOf(s)) = 0
  <2>1. EventsOf(s) \in Seq(Event) /\ Len(EventsOf(s)) = Len(s)
    BY EventsOfFacts
  <2>2. e \notin Elements(EventsOf(s))
    BY <1>1, <2>1 DEF Elements, EventsOf
  <2> QED BY <2>1, <2>2, TimesFacts
<1>2. ASSUME NEW a \in Actor PROVE InMail(a, e) = 0
  <2>1. mailbox[a] \in Seq(Msg) /\ \A m \in Elements(mailbox[a]) : m.event # e
    BY DEF Mentions, TypeOK
  <2> QED BY <1>1, <2>1 DEF InMail
<1>3. Times(e, traceLog) = 0
  <2>1. traceLog \in Seq(Event) /\ e \notin Elements(traceLog)
    BY DEF Mentions, TypeOK
  <2> QED BY <2>1, TimesFacts
<1>4. ASSUME NEW s \in Sink PROVE Times(e, EventsOf(out[s])) = 0
  <2>1. out[s] \in Seq(Msg) /\ \A m \in Elements(out[s]) : m.event # e
    BY DEF Mentions, TypeOK
  <2> QED BY <1>1, <2>1
<1>5. ASSUME NEW x \in End PROVE Load(e, x) = 0
  <2>1. InMail("policy", e) = 0 /\ InMail("decision", e) = 0
    BY <1>2 DEF Actor
  <2>2. CASE x = "trace"
    BY <2>1, <2>2, <1>3 DEF Load
  <2>3. CASE x # "trace"
    <3>1. x \in Sink /\ x \in Actor
      BY <2>3 DEF End, Actor
    <3>2. InMail(x, e) = 0 /\ Times(e, EventsOf(out[x])) = 0
      BY <3>1, <1>2, <1>4
    <3> QED BY <2>1, <2>3, <3>2 DEF Load
  <2> QED BY <2>2, <2>3
<1> QED BY <1>2, <1>5

\* All counts are numbers, also after a step.
LEMMA LaterLoadFacts ==
    ASSUME TypeOK', NEW e
    PROVE  /\ \A a \in Actor : InMail(a, e)' \in Nat
           /\ \A x \in End : Load(e, x)' \in Nat
<1>1. ASSUME NEW s \in Seq(Msg) PROVE Times(e, EventsOf(s)) \in Nat
  <2>1. EventsOf(s) \in Seq(Event)
    BY EventsOfFacts
  <2> QED BY <2>1, TimesFacts
<1>2. ASSUME NEW a \in Actor PROVE InMail(a, e)' \in Nat
  <2>1. mailbox'[a] \in Seq(Msg)
    BY DEF TypeOK
  <2> QED BY <1>1, <2>1 DEF InMail
<1>3. ASSUME NEW x \in End PROVE Load(e, x)' \in Nat
  <2>1. InMail("policy", e)' \in Nat /\ InMail("decision", e)' \in Nat
    BY <1>2 DEF Actor
  <2>2. CASE x = "trace"
    <3>1. traceLog' \in Seq(Event)
      BY DEF TypeOK
    <3>2. Times(e, traceLog') \in Nat
      BY <3>1, TimesFacts
    <3> QED BY <2>1, <2>2, <3>2 DEF Load
  <2>3. CASE x # "trace"
    <3>1. x \in Sink /\ x \in Actor
      BY <2>3 DEF End, Actor
    <3>2. out'[x] \in Seq(Msg)
      BY <3>1 DEF TypeOK
    <3>3. InMail(x, e)' \in Nat /\ Times(e, EventsOf(out'[x])) \in Nat
      BY <3>1, <3>2, <1>1, <1>2
    <3> QED BY <2>1, <2>3, <3>3 DEF Load
  <2> QED BY <2>2, <2>3
<1> QED BY <1>2, <1>3

\* The parts of a load, before and after a step.
LEMMA LoadParts ==
    ASSUME NEW e
    PROVE  /\ Load(e, "trace") = InMail("policy", e) + InMail("decision", e) + Times(e, traceLog)
           /\ Load(e, "trace")' = InMail("policy", e)' + InMail("decision", e)' + Times(e, traceLog')
           /\ \A s \in Sink :
                 /\ Load(e, s) = InMail("policy", e) + InMail("decision", e)
                                   + (InMail(s, e) + Times(e, EventsOf(out[s])))
                 /\ Load(e, s)' = InMail("policy", e)' + InMail("decision", e)'
                                   + (InMail(s, e)' + Times(e, EventsOf(out'[s])))
<1>1. \A s \in Sink : s # "trace"
  BY DEF Sink
<1> QED BY <1>1 DEF Load

\* A step that lets no load grow keeps the bounds.
LEMMA LoadsFall ==
    ASSUME TypeOK, TypeOK', LoadBounded, starts <= starts',
           \A e \in Event : /\ InMail("session", e)' <= InMail("session", e)
                            /\ \A x \in End : Load(e, x)' <= Load(e, x)
    PROVE  LoadBounded'
<1>1. starts \in Nat /\ starts' \in Nat
  BY DEF TypeOK
<1>2. ASSUME NEW e \in Event
      PROVE  /\ InMail("session", e)' <= 1
             /\ \A x \in End : /\ Load(e, x)' <= starts'
                               /\ InMail("session", e)' # 0 => Load(e, x)' = 0
  <2>1. /\ InMail("session", e) \in Nat /\ InMail("session", e)' \in Nat
        /\ InMail("session", e)' <= InMail("session", e) /\ InMail("session", e) <= 1
    BY LoadFacts, LaterLoadFacts DEF Actor, LoadBounded
  <2>2. ASSUME NEW x \in End
        PROVE  Load(e, x)' <= starts' /\ (InMail("session", e)' # 0 => Load(e, x)' = 0)
    <3>1. /\ Load(e, x) \in Nat /\ Load(e, x)' \in Nat /\ Load(e, x)' <= Load(e, x)
          /\ Load(e, x) <= starts /\ (InMail("session", e) # 0 => Load(e, x) = 0)
      BY LoadFacts, LaterLoadFacts DEF LoadBounded
    <3> QED BY <1>1, <2>1, <3>1
  <2> QED BY <2>1, <2>2
<1> QED BY <1>2 DEF LoadBounded

\* What is forwarded to an actor is counted there, what is decided is counted
\* on its way to every end.
LEMMA LoadsSum ==
    ASSUME TypeOK, TypeOK', NEW e,
           InMail("policy", e)' + InMail("decision", e)' + Times(e, traceLog')
               <= InMail("policy", e) + InMail("decision", e) + Times(e, traceLog),
           \A s \in Sink :
               InMail("policy", e)' + InMail("decision", e)'
                   + (InMail(s, e)' + Times(e, EventsOf(out'[s])))
               <= InMail("policy", e) + InMail("decision", e)
                   + (InMail(s, e) + Times(e, EventsOf(out[s])))
    PROVE  \A x \in End : Load(e, x)' <= Load(e, x)
<1>1. Load(e, "trace")' <= Load(e, "trace")
  BY LoadParts
<1>2. \A s \in Sink : Load(e, s)' <= Load(e, s)
  BY LoadParts
<1> QED BY <1>1, <1>2 DEF End

\* SessionActor takes a call and hands it to every subscription of PolicyActor.
LEMMA SessionKeepsLoadBounded ==
    ASSUME TypeOK, TypeOK', SubscribedOnce, SubscribedWhileUp, LoadBounded, Session
    PROVE  LoadBounded'
<1>1. "session" \in Actor /\ "policy" \in Actor /\ "decision" \in Actor /\ Sink \subseteq Actor
      /\ "session" \notin Sink /\ "policy" \notin Sink /\ "decision" \notin Sink
  BY DEF Actor, Sink
<1>2. PICK m : m = Received("session")
  OBVIOUS
<1>3. /\ Receives("session") /\ UNCHANGED <<starts, traceLog, out>>
      /\ Deliver("session", {"policy"}, m) \/ Deliver("session", {}, m)
  BY <1>2 DEF Session, SessionForwards, SessionFails, lifecycle
<1>4. m \in Msg /\ m.event \in Event /\ mailbox["session"] # <<>>
      /\ Head(mailbox["session"]) = m
  BY <1>1, <1>2, <1>3, ReceivedFacts DEF Received
<1>5. PICK targets \in {{"policy"}, {}} : Deliver("session", targets, m)
  BY <1>3
<1>6. ASSUME NEW e \in Event, NEW a \in Actor
      PROVE  /\ InMail(a, e) \in Nat /\ InMail(a, e)' \in Nat
             /\ Added(a, targets, m, e) \in Nat /\ Added(a, targets, m, e) <= starts
             /\ a # "policy" \/ m.event # e => Added(a, targets, m, e) = 0
             /\ InMail(a, e)' = InMail(a, e) - (IF a = "session" /\ m.event = e THEN 1 ELSE 0)
                                   + Added(a, targets, m, e)
  <2>1. InMail(a, e) \in Nat /\ InMail(a, e)' \in Nat
        /\ InMail(a, e)' = InMail(a, e)
               - (IF a = "session" /\ Head(mailbox[a]).event = e THEN 1 ELSE 0)
               + Added(a, targets, m, e)
    BY <1>4, <1>5, DeliverCounts
  <2>2. Added(a, targets, m, e) \in Nat /\ Added(a, targets, m, e) <= starts
        /\ (a \notin targets \/ m.event # e => Added(a, targets, m, e) = 0)
    BY AddedFacts
  <2>3. a = "session" => Head(mailbox[a]).event = m.event
    BY <1>4
  <2>4. InMail(a, e)' = InMail(a, e) - (IF a = "session" /\ m.event = e THEN 1 ELSE 0)
                             + Added(a, targets, m, e)
    BY <2>1, <2>3
  <2>5. a # "policy" => a \notin targets
    BY <1>5
  <2> QED BY <2>1, <2>2, <2>4, <2>5
<1>7. starts \in Nat
  BY DEF TypeOK
<1>8. ASSUME NEW e \in Event
      PROVE  /\ InMail("session", e)' <= 1
             /\ \A x \in End : /\ Load(e, x)' <= starts'
                               /\ InMail("session", e)' # 0 => Load(e, x)' = 0
  <2>1. /\ InMail("session", e) \in Nat /\ InMail("session", e) <= 1
        /\ \A x \in End : /\ Load(e, x) \in Nat /\ Load(e, x) <= starts
                          /\ InMail("session", e) # 0 => Load(e, x) = 0
    BY <1>1, LoadFacts DEF LoadBounded
  <2>2. PICK n \in Nat : /\ n <= starts /\ (m.event # e => n = 0)
                         /\ InMail("policy", e)' = InMail("policy", e) + n
    BY <1>1, <1>6
  <2>3. /\ InMail("session", e)' = InMail("session", e) - (IF m.event = e THEN 1 ELSE 0)
        /\ InMail("decision", e)' = InMail("decision", e)
        /\ \A s \in Sink : InMail(s, e)' = InMail(s, e)
    <3>1. ASSUME NEW a \in Actor, a # "policy"
          PROVE  InMail(a, e)' = InMail(a, e) - (IF a = "session" /\ m.event = e THEN 1 ELSE 0)
      BY <1>6, <3>1
    <3>2. ASSUME NEW a \in Actor, a # "policy", a # "session"
          PROVE  InMail(a, e)' = InMail(a, e)
      BY <1>6, <3>1, <3>2
    <3> QED BY <1>1, <3>1, <3>2
  <2>4. \A x \in End : Load(e, x)' = Load(e, x) + n
    <3>0. /\ InMail("policy", e) \in Nat /\ InMail("decision", e) \in Nat
          /\ Times(e, traceLog) \in Nat /\ traceLog' = traceLog /\ out' = out
          /\ \A s \in Sink : InMail(s, e) \in Nat /\ Times(e, EventsOf(out[s])) \in Nat
      BY <1>1, <1>3, LoadFacts
    <3>1. Load(e, "trace")' = Load(e, "trace") + n
      BY <2>2, <2>3, <3>0, LoadParts
    <3>2. \A s \in Sink : Load(e, s)' = Load(e, s) + n
      BY <2>2, <2>3, <3>0, LoadParts
    <3> QED BY <3>1, <3>2 DEF End
  <2>5. CASE m.event = e
    <3>1. InMail("session", e)' \in Nat
      BY <1>1, <1>6
    <3>2. InMail("session", e) = 1 /\ InMail("session", e)' = 0
      BY <2>1, <2>3, <2>5, <3>1
    <3> QED BY <1>3, <1>7, <2>1, <2>2, <2>4, <3>2
  <2>6. CASE m.event # e
    <3>1. n = 0 /\ InMail("session", e)' = InMail("session", e)
      BY <2>1, <2>2, <2>3, <2>6
    <3> QED BY <1>3, <2>1, <2>4, <3>1
  <2> QED BY <2>5, <2>6
<1> QED BY <1>8 DEF LoadBounded

\* PolicyActor takes a call and decides it once, or drops it.
LEMMA PolicyKeepsLoadBounded ==
    ASSUME RuntimeAssumption, TypeOK, TypeOK', SubscribedOnce, SubscribedWhileUp, LoadBounded,
           Policy
    PROVE  LoadBounded'
<1>1. "session" \in Actor /\ "policy" \in Actor /\ "decision" \in Actor /\ Sink \subseteq Actor
      /\ "session" \notin Sink /\ "policy" \notin Sink /\ "decision" \notin Sink
  BY DEF Actor, Sink
<1>2. Receives("policy") /\ UNCHANGED <<starts, traceLog, out>>
  BY DEF Policy, PolicyDecides, PolicyFails, lifecycle
<1>3. Received("policy") \in Msg /\ mailbox["policy"] # <<>>
      /\ Received("policy") = Head(mailbox["policy"])
  BY <1>1, <1>2, ReceivedFacts DEF Received
<1>4. PICK m \in Msg, targets \in {{"decision"}, {}} :
          m.event = Head(mailbox["policy"]).event /\ Deliver("policy", targets, m)
  <2>1. CASE PolicyFails
    <3>1. Deliver("policy", {}, Received("policy"))
      BY <2>1 DEF PolicyFails
    <3> QED BY <1>3, <3>1
  <2>2. CASE PolicyDecides
    <3>1. PICK v \in Verdicts :
              Deliver("policy", {"decision"}, [Received("policy") EXCEPT !.verdict = v])
      BY <2>2 DEF PolicyDecides
    <3>2. [Received("policy") EXCEPT !.verdict = v] \in Msg
      BY <1>3 DEF Msg
    <3>3. [Received("policy") EXCEPT !.verdict = v].event = Received("policy").event
      BY <1>3 DEF Msg
    <3> QED BY <1>3, <3>1, <3>2, <3>3
  <2> QED BY <2>1, <2>2 DEF Policy
<1>5. ASSUME NEW e \in Event
      PROVE  /\ InMail("session", e)' <= InMail("session", e)
             /\ \A x \in End : Load(e, x)' <= Load(e, x)
  <2>1. PICK h \in {0, 1} : h = IF m.event = e THEN 1 ELSE 0
    OBVIOUS
  <2>2. ASSUME NEW a \in Actor
        PROVE  /\ InMail(a, e) \in Nat /\ InMail(a, e)' \in Nat
               /\ InMail(a, e)' = InMail(a, e)
                      - (IF a = "policy" THEN h ELSE 0) + Added(a, targets, m, e)
    BY <1>3, <1>4, <2>1, DeliverCounts
  <2>3. ASSUME NEW a \in Actor
        PROVE  /\ Added(a, targets, m, e) \in Nat
               /\ a # "decision" => Added(a, targets, m, e) = 0
               /\ a = "decision" => Added(a, targets, m, e) <= h
    <3>1. /\ Added(a, targets, m, e) \in Nat
          /\ a \notin targets \/ m.event # e => Added(a, targets, m, e) = 0
          /\ a # "policy" => Added(a, targets, m, e) <= 1
      BY AddedFacts
    <3>2. CASE a = "decision" /\ m.event = e
      BY <2>1, <3>1, <3>2
    <3>3. CASE a = "decision" /\ m.event # e
      BY <2>1, <3>1, <3>3
    <3>4. CASE a # "decision"
      <4>1. a \notin targets
        BY <3>4
      <4> QED BY <3>1, <3>4, <4>1
    <3> QED BY <3>2, <3>3, <3>4
  <2>4. /\ InMail("policy", e)' = InMail("policy", e) - h
        /\ InMail("decision", e)' <= InMail("decision", e) + h
        /\ InMail("session", e)' = InMail("session", e)
    BY <1>1, <2>1, <2>2, <2>3
  <2>5. ASSUME NEW s \in Sink PROVE InMail(s, e)' = InMail(s, e)
    <3>1. s \in Actor /\ s # "policy" /\ s # "decision"
      BY <1>1
    <3> QED BY <2>2, <2>3, <3>1
  <2>6. /\ InMail("policy", e) \in Nat /\ InMail("decision", e) \in Nat
        /\ InMail("policy", e)' \in Nat /\ InMail("decision", e)' \in Nat
        /\ InMail("session", e) \in Nat
    BY <1>1, <2>2
  <2>7. Times(e, traceLog) \in Nat /\ traceLog' = traceLog /\ out' = out
        /\ \A s \in Sink : InMail(s, e) \in Nat /\ Times(e, EventsOf(out[s])) \in Nat
    BY <1>1, <1>2, LoadFacts
  <2>8. InMail("policy", e)' + InMail("decision", e)' <= InMail("policy", e) + InMail("decision", e)
    BY <2>1, <2>4, <2>6
  <2>9. \A x \in End : Load(e, x)' <= Load(e, x)
    BY <2>5, <2>6, <2>7, <2>8, LoadsSum
  <2> QED BY <2>4, <2>6, <2>9
<1>6. starts <= starts'
  BY <1>2 DEF TypeOK
<1> QED BY <1>5, <1>6, LoadsFall

\* DecisionActor takes a decision and leaves it once at each end, at most.
LEMMA DecideKeepsLoadBounded ==
    ASSUME RuntimeAssumption, TypeOK, TypeOK', SubscribedOnce, SubscribedWhileUp, LoadBounded,
           Decide
    PROVE  LoadBounded'
<1>1. "session" \in Actor /\ "policy" \in Actor /\ "decision" \in Actor /\ Sink \subseteq Actor
      /\ "session" \notin Sink /\ "policy" \notin Sink /\ "decision" \notin Sink
  BY DEF Actor, Sink
<1>2. Receives("decision") /\ UNCHANGED <<starts, out>>
  BY DEF Decide, lifecycle
<1>3. PICK m : m = Received("decision")
  OBVIOUS
<1>4. m \in Msg /\ m.event \in Event /\ mailbox["decision"] # <<>>
      /\ m = Head(mailbox["decision"])
  BY <1>1, <1>2, <1>3, ReceivedFacts DEF Received
<1>5. PICK targets \in SUBSET Sink : Deliver("decision", targets, m)
  <2>1. PICK slow \in BOOLEAN : Deliver("decision", FanOut(m.verdict, slow), m)
    BY <1>3 DEF Decide, SlowPath
  <2>2. FanOut(m.verdict, slow) \subseteq Sink
    BY DEF FanOut, Sink
  <2> QED BY <2>1, <2>2
<1>6. traceLog' \in {traceLog, Append(traceLog, m.event)}
  BY <1>3 DEF Decide, Traced
<1>7. ASSUME NEW e \in Event
      PROVE  /\ InMail("session", e)' <= InMail("session", e)
             /\ \A x \in End : Load(e, x)' <= Load(e, x)
  <2>1. PICK h \in {0, 1} : h = IF m.event = e THEN 1 ELSE 0
    OBVIOUS
  <2>2. ASSUME NEW a \in Actor
        PROVE  /\ InMail(a, e) \in Nat /\ InMail(a, e)' \in Nat
               /\ InMail(a, e)' = InMail(a, e)
                      - (IF a = "decision" THEN h ELSE 0) + Added(a, targets, m, e)
    BY <1>4, <1>5, <2>1, DeliverCounts
  <2>3. ASSUME NEW a \in Actor
        PROVE  /\ Added(a, targets, m, e) \in Nat
               /\ a \notin Sink => Added(a, targets, m, e) = 0
               /\ a \in Sink => Added(a, targets, m, e) <= h
    <3>1. /\ Added(a, targets, m, e) \in Nat
          /\ a \notin targets \/ m.event # e => Added(a, targets, m, e) = 0
          /\ a # "policy" => Added(a, targets, m, e) <= 1
      BY AddedFacts
    <3>2. CASE a \in Sink /\ m.event = e
      BY <1>1, <2>1, <3>1, <3>2
    <3>3. CASE a \in Sink /\ m.event # e
      BY <2>1, <3>1, <3>3
    <3>4. CASE a \notin Sink
      BY <1>5, <3>1, <3>4
    <3> QED BY <3>2, <3>3, <3>4
  <2>4. /\ InMail("policy", e)' = InMail("policy", e)
        /\ InMail("decision", e)' = InMail("decision", e) - h
        /\ InMail("session", e)' = InMail("session", e)
    BY <1>1, <2>1, <2>2, <2>3
  <2>5. ASSUME NEW s \in Sink
        PROVE  /\ InMail(s, e) \in Nat /\ InMail(s, e)' \in Nat
               /\ InMail(s, e)' <= InMail(s, e) + h
    <3>1. s \in Actor /\ s # "decision"
      BY <1>1
    <3> QED BY <2>1, <2>2, <2>3, <3>1
  <2>6. /\ InMail("policy", e) \in Nat /\ InMail("decision", e) \in Nat
        /\ InMail("policy", e)' \in Nat /\ InMail("decision", e)' \in Nat
        /\ InMail("session", e) \in Nat
    BY <1>1, <2>2
  <2>7. /\ Times(e, traceLog) \in Nat /\ Times(e, traceLog') \in Nat
        /\ Times(e, traceLog') <= Times(e, traceLog) + h
    <3>1. traceLog \in Seq(Event)
      BY DEF TypeOK
    <3>2. Times(e, traceLog) \in Nat
          /\ Times(e, Append(traceLog, m.event)) = Times(e, traceLog) + h
      BY <1>4, <2>1, <3>1, TimesFacts, TimesAppend
    <3>3. CASE traceLog' = traceLog
      BY <2>1, <3>2, <3>3
    <3>4. CASE traceLog' = Append(traceLog, m.event)
      <4>1. Times(e, traceLog') = Times(e, traceLog) + h
        BY <3>2, <3>4
      <4> QED BY <2>1, <3>2, <4>1
    <3> QED BY <1>6, <3>3, <3>4
  <2>8. out' = out /\ \A s \in Sink : Times(e, EventsOf(out[s])) \in Nat
    BY <1>2, LoadFacts
  <2>9. InMail("policy", e)' + InMail("decision", e)' + Times(e, traceLog')
            <= InMail("policy", e) + InMail("decision", e) + Times(e, traceLog)
    BY <2>1, <2>4, <2>6, <2>7
  <2>10. ASSUME NEW s \in Sink
         PROVE  InMail("policy", e)' + InMail("decision", e)'
                    + (InMail(s, e)' + Times(e, EventsOf(out'[s])))
                <= InMail("policy", e) + InMail("decision", e)
                    + (InMail(s, e) + Times(e, EventsOf(out[s])))
    <3>1. out'[s] = out[s] /\ Times(e, EventsOf(out[s])) \in Nat
      BY <2>8
    <3> QED BY <2>1, <2>4, <2>5, <2>6, <3>1
  <2>11. \A x \in End : Load(e, x)' <= Load(e, x)
    BY <2>9, <2>10, LoadsSum
  <2> QED BY <2>4, <2>6, <2>11
<1>8. starts <= starts'
  BY <1>2 DEF TypeOK
<1> QED BY <1>7, <1>8, LoadsFall

\* What a fan-out actor hands on has left its mailbox.
LEMMA HandOnKeepsLoadBounded ==
    ASSUME TypeOK, TypeOK', SubscribedOnce, SubscribedWhileUp, LoadBounded,
           NEW s \in Sink, HandOn(s)
    PROVE  LoadBounded'
<1>1. "session" \in Actor /\ "policy" \in Actor /\ "decision" \in Actor /\ Sink \subseteq Actor
      /\ "session" \notin Sink /\ "policy" \notin Sink /\ "decision" \notin Sink
  BY DEF Actor, Sink
<1>2. PICK m : m = Received(s)
  OBVIOUS
<1>3. /\ Receives(s) /\ Deliver(s, {}, m) /\ UNCHANGED <<starts, traceLog>>
      /\ out' \in {out, [out EXCEPT ![s] = Append(@, m)]}
  BY <1>2 DEF HandOn, lifecycle
<1>4. s \in Actor /\ m \in Msg /\ m.event \in Event /\ mailbox[s] # <<>>
      /\ m = Head(mailbox[s])
  BY <1>1, <1>2, <1>3, ReceivedFacts DEF Received
<1>5. ASSUME NEW e \in Event
      PROVE  /\ InMail("session", e)' <= InMail("session", e)
             /\ \A x \in End : Load(e, x)' <= Load(e, x)
  <2>1. PICK h \in {0, 1} : h = IF m.event = e THEN 1 ELSE 0
    OBVIOUS
  <2>2. ASSUME NEW a \in Actor
        PROVE  /\ InMail(a, e) \in Nat /\ InMail(a, e)' \in Nat
               /\ InMail(a, e)' = InMail(a, e) - (IF a = s THEN h ELSE 0)
    <3>1. /\ InMail(a, e) \in Nat /\ InMail(a, e)' \in Nat
          /\ InMail(a, e)' = InMail(a, e) - (IF a = s THEN h ELSE 0) + Added(a, {}, m, e)
      BY <1>3, <1>4, <2>1, DeliverCounts
    <3>2. Added(a, {}, m, e) = 0
      BY DEF Added
    <3> QED BY <2>1, <3>1, <3>2
  <2>3. /\ InMail("policy", e)' = InMail("policy", e)
        /\ InMail("decision", e)' = InMail("decision", e)
        /\ InMail("session", e)' = InMail("session", e)
    BY <1>1, <2>2
  <2>4. /\ InMail("policy", e) \in Nat /\ InMail("decision", e) \in Nat
        /\ InMail("session", e) \in Nat
    BY <1>1, <2>2
  <2>5. ASSUME NEW r \in Sink
        PROVE  /\ Times(e, EventsOf(out[r])) \in Nat /\ Times(e, EventsOf(out'[r])) \in Nat
               /\ Times(e, EventsOf(out'[r]))
                      <= Times(e, EventsOf(out[r])) + (IF r = s THEN h ELSE 0)
    <3>1. out[r] \in Seq(Msg) /\ out'[r] \in {out[r], IF r = s THEN Append(out[r], m) ELSE out[r]}
      BY <1>3 DEF TypeOK
    <3>2. EventsOf(out[r]) \in Seq(Event) /\ EventsOf(Append(out[r], m)) = Append(EventsOf(out[r]), m.event)
      BY <1>4, <3>1, EventsOfFacts
    <3>3. /\ Times(e, EventsOf(out[r])) \in Nat
          /\ Times(e, Append(EventsOf(out[r]), m.event)) = Times(e, EventsOf(out[r])) + h
      BY <1>4, <2>1, <3>2, TimesFacts, TimesAppend
    <3>4. CASE out'[r] = out[r]
      BY <2>1, <3>3, <3>4
    <3>5. CASE r = s /\ out'[r] = Append(out[r], m)
      <4>1. Times(e, EventsOf(out'[r])) = Times(e, EventsOf(out[r])) + h
        BY <3>2, <3>3, <3>5
      <4> QED BY <2>1, <3>3, <3>5, <4>1
    <3>6. out'[r] = out[r] \/ (r = s /\ out'[r] = Append(out[r], m))
      BY <3>1
    <3> QED BY <3>4, <3>5, <3>6
  <2>6. Times(e, traceLog) \in Nat /\ traceLog' = traceLog
    BY <1>3, LoadFacts
  <2>7. ASSUME NEW r \in Sink
        PROVE  InMail("policy", e)' + InMail("decision", e)'
                    + (InMail(r, e)' + Times(e, EventsOf(out'[r])))
               <= InMail("policy", e) + InMail("decision", e)
                    + (InMail(r, e) + Times(e, EventsOf(out[r])))
    <3>1. InMail(r, e) \in Nat /\ InMail(r, e)' \in Nat
          /\ InMail(r, e)' = InMail(r, e) - (IF r = s THEN h ELSE 0)
      BY <1>1, <2>2
    <3>2. CASE r = s
      BY <2>1, <2>3, <2>4, <2>5, <3>1, <3>2
    <3>3. CASE r # s
      BY <2>3, <2>4, <2>5, <3>1, <3>3
    <3> QED BY <3>2, <3>3
  <2>8. \A x \in End : Load(e, x)' <= Load(e, x)
    BY <2>3, <2>4, <2>6, <2>7, LoadsSum
  <2> QED BY <2>3, <2>4, <2>8
<1>6. starts <= starts'
  BY <1>3 DEF TypeOK
<1> QED BY <1>5, <1>6, LoadsFall

\* The ingress takes a call that was published nowhere, for SessionActor alone.
LEMMA IngressKeepsLoadBounded ==
    ASSUME RuntimeAssumption, TypeOK, TypeOK', QueueUnpublished, SubscribedOnce,
           SubscribedWhileUp, LoadBounded, Ingress, future[Head(queue)] = "pending"
    PROVE  LoadBounded'
<1>1. "session" \in Actor /\ "policy" \in Actor /\ "decision" \in Actor /\ Sink \subseteq Actor
      /\ "session" \notin Sink /\ "ingress" \notin Actor
  BY DEF Actor, Sink
<1>2. queue \in Seq(Event) /\ queue # <<>>
  BY DEF Ingress, TypeOK
<1>3. Head(queue) \in Event /\ Head(queue) \in Elements(queue)
  BY <1>2, ElementsFacts
<1>4. ~Mentions(Head(queue))
  BY <1>3 DEF QueueUnpublished
<1>5. PICK m \in Msg : m.event = Head(queue) /\ Deliver("ingress", {"session"}, m)
  <2>1. [event |-> Head(queue), verdict |-> NoVerdict] \in Msg
    BY <1>3 DEF Msg
  <2> QED BY <2>1 DEF Ingress
<1>6. UNCHANGED <<starts, traceLog, out>>
  BY DEF Ingress, lifecycle
<1>7. ASSUME NEW e \in Event, NEW a \in Actor
      PROVE  /\ InMail(a, e) \in Nat
             /\ a # "session" \/ e # Head(queue) => InMail(a, e)' = InMail(a, e)
             /\ a = "session" => InMail(a, e)' <= InMail(a, e) + 1
  <2>1. /\ InMail(a, e) \in Nat /\ InMail(a, e)' = InMail(a, e) + Added(a, {"session"}, m, e)
    <3>1. InMail(a, e)' = InMail(a, e)
              - (IF a = "ingress" /\ Head(mailbox[a]).event = e THEN 1 ELSE 0)
              + Added(a, {"session"}, m, e)
      BY <1>1, <1>5, DeliverCounts
    <3>2. InMail(a, e) \in Nat /\ Added(a, {"session"}, m, e) \in Nat /\ a # "ingress"
      BY <1>1, LoadFacts, AddedFacts
    <3> QED BY <3>1, <3>2
  <2>2. /\ Added(a, {"session"}, m, e) \in Nat
        /\ a \notin {"session"} \/ m.event # e => Added(a, {"session"}, m, e) = 0
        /\ a # "policy" => Added(a, {"session"}, m, e) <= 1
    BY AddedFacts
  <2> QED BY <1>5, <2>1, <2>2
<1>8. ASSUME NEW e \in Event, NEW x \in End PROVE Load(e, x)' = Load(e, x)
  <2>1. ASSUME NEW a \in Actor \ {"session"} PROVE InMail(a, e)' = InMail(a, e)
    BY <1>7
  <2>2. "policy" \in Actor \ {"session"} /\ "decision" \in Actor \ {"session"}
        /\ Sink \subseteq Actor \ {"session"}
    BY <1>1
  <2>3. InMail("policy", e)' = InMail("policy", e) /\ InMail("decision", e)' = InMail("decision", e)
    BY <2>1, <2>2
  <2>4. \A s \in Sink : InMail(s, e)' = InMail(s, e)
    BY <2>1, <2>2
  <2>5. x = "trace" \/ x \in Sink
    BY DEF End
  <2>6. traceLog' = traceLog /\ out' = out
    BY <1>6
  <2> QED BY <2>3, <2>4, <2>5, <2>6, LoadParts
<1>9. ASSUME NEW e \in Event
      PROVE  /\ InMail("session", e)' <= 1
             /\ \A x \in End : /\ Load(e, x)' <= starts'
                               /\ InMail("session", e)' # 0 => Load(e, x)' = 0
  <2>1. InMail("session", e) <= 1
        /\ \A x \in End : /\ Load(e, x) <= starts
                          /\ InMail("session", e) # 0 => Load(e, x) = 0
    BY DEF LoadBounded
  <2>2. CASE e = Head(queue)
    <3>1. InMail("session", e) = 0 /\ \A x \in End : Load(e, x) = 0
      BY <1>1, <1>4, <2>2, UnmentionedFacts
    <3>2. InMail("session", e)' <= 1
      <4>1. InMail("session", e)' <= InMail("session", e) + 1
        BY <1>1, <1>7
      <4> QED BY <3>1, <4>1
    <3>3. \A x \in End : Load(e, x)' = 0
      BY <1>8, <3>1
    <3> QED BY <1>6, <2>1, <3>1, <3>2, <3>3
  <2>3. CASE e # Head(queue)
    <3>1. InMail("session", e)' = InMail("session", e)
      BY <1>1, <1>7, <2>3
    <3> QED BY <1>6, <1>8, <2>1, <3>1
  <2> QED BY <2>2, <2>3
<1> QED BY <1>9 DEF LoadBounded

\* A call is decided and recorded once per start at most: preserved by every step.
LEMMA KeepsLoadBounded ==
    ASSUME RuntimeAssumption, TypeOK, TypeOK', QueueUnpublished, SubscribedOnce,
           SubscribedWhileUp, LoadBounded, [Next]_vars
    PROVE  LoadBounded'
<1>1. CASE UNCHANGED <<mailbox, traceLog, out>> /\ starts' \in {starts, starts + 1}
  <2>1. starts <= starts'
    BY <1>1 DEF TypeOK
  <2>2. ASSUME NEW e \in Event
        PROVE  /\ InMail("session", e)' <= InMail("session", e)
               /\ \A x \in End : Load(e, x)' <= Load(e, x)
    <3>1. \A a \in Actor : InMail(a, e)' = InMail(a, e)
      BY <1>1 DEF InMail
    <3>2. /\ \A a \in Actor : InMail(a, e) \in Nat
          /\ \A x \in End : Load(e, x) \in Nat
      BY LoadFacts
    <3>3. "session" \in Actor /\ "policy" \in Actor /\ "decision" \in Actor /\ Sink \subseteq Actor
      BY DEF Actor
    <3>4. Load(e, "trace")' = Load(e, "trace") /\ \A s \in Sink : Load(e, s)' = Load(e, s)
      BY <1>1, <3>1, <3>3, LoadParts
    <3>5. \A x \in End : Load(e, x)' = Load(e, x)
      BY <3>4 DEF End
    <3>6. \A x \in End : Load(e, x)' <= Load(e, x)
      BY <3>2, <3>5
    <3> QED BY <3>1, <3>2, <3>3, <3>6
  <2> QED BY <2>1, <2>2, LoadsFall
<1>2. CASE Start \/ StopBegin \/ StopNext \/ UNCHANGED vars
  BY <1>1, <1>2 DEF Start, StopBegin, StopNext, vars
<1>3. CASE \E e \in Event : Submit(e) \/ GiveUp(e)
  <2>1. UNCHANGED <<starts, mailbox, traceLog, out>>
    BY <1>3 DEF Submit, GiveUp, lifecycle
  <2> QED BY <1>1, <2>1
<1>4. CASE Ingress
  <2>1. CASE future[Head(queue)] = "pending"
    BY <1>4, <2>1, IngressKeepsLoadBounded
  <2>2. CASE future[Head(queue)] # "pending"
    BY <1>1, <1>4, <2>2 DEF Ingress, lifecycle
  <2> QED BY <2>1, <2>2
<1>5. CASE Session
  BY <1>5, SessionKeepsLoadBounded
<1>6. CASE Policy
  BY <1>6, PolicyKeepsLoadBounded
<1>7. CASE Decide
  BY <1>7, DecideKeepsLoadBounded
<1>8. CASE \E s \in Sink : HandOn(s)
  BY <1>8, HandOnKeepsLoadBounded
<1> QED BY <1>2, <1>3, <1>4, <1>5, <1>6, <1>7, <1>8 DEF Next

\* The actors a call passes on its way to its decision.
Upstream == {"session", "policy", "decision"}

\* In a runtime started once, an answered call has left the queue and the actors
\* before its answer for good.
AnsweredIsThrough ==
    starts <= 1 =>
        \A e \in Event : future[e] = "result" =>
            /\ e \notin Elements(queue)
            /\ \A a \in Upstream : \A m \in Elements(mailbox[a]) : m.event # e

\* What is not counted is not there.
LEMMA NotCounted ==
    ASSUME NEW s \in Seq(Msg), NEW e
    PROVE  Times(e, EventsOf(s)) = 0 <=> \A m \in Elements(s) : m.event # e
<1>1. EventsOf(s) \in Seq(Event) /\ Len(EventsOf(s)) = Len(s)
  BY EventsOfFacts
<1>2. e \in Elements(EventsOf(s)) <=> \E m \in Elements(s) : m.event = e
  BY <1>1 DEF Elements, EventsOf
<1> QED BY <1>1, <1>2, TimesFacts

\* Only DecisionActor answers with a decision, and only a caller that waits.
LEMMA AnsweredByDecide ==
    ASSUME RuntimeAssumption, TypeOK, [Next]_vars, NEW e \in Event,
           future'[e] = "result", future[e] # "result"
    PROVE  /\ Decide
           /\ e = Received("decision").event
           /\ future[e] = "pending"
<1> USE DEF lifecycle
<1>1. CASE UNCHANGED future
  BY <1>1
<1>2. ASSUME NEW f \in Event, Submit(f) \/ GiveUp(f) PROVE FALSE
  BY <1>2 DEF Submit, GiveUp, TypeOK
<1>3. CASE StopNext
  BY <1>3 DEF StopNext, Released, TypeOK
<1>4. CASE SessionFails
  <2>1. Receives("session") /\ "session" \in Actor
    BY <1>4 DEF SessionFails, Actor
  <2>2. Resolve(Received("session").event, "failed")
    BY <1>4 DEF SessionFails
  <2> QED  BY <2>1, <2>2, ReceivedFacts, ResolveFacts DEF States
<1>5. CASE Decide
  <2>1. Receives("decision") /\ "decision" \in Actor
    BY <1>5 DEF Decide, Actor
  <2>2. Resolve(Received("decision").event, "result")
    BY <1>5 DEF Decide
  <2>3. e = Received("decision").event /\ future[e] = "pending"
    BY <2>1, <2>2, ReceivedFacts, ResolveFacts DEF States
  <2> QED  BY <1>5, <2>3
<1>6. CASE UNCHANGED vars
  BY <1>1, <1>6 DEF vars
<1>7. CASE Start \/ StopBegin \/ Ingress \/ SessionForwards \/ Policy \/ \E s \in Sink : HandOn(s)
  <2>1. UNCHANGED future
    BY <1>7 DEF Start, StopBegin, Ingress, SessionForwards, Policy, PolicyDecides, PolicyFails,
                HandOn
  <2> QED  BY <1>1, <2>1
<1> QED  BY <1>2, <1>3, <1>4, <1>5, <1>6, <1>7 DEF Next, Session

\* A message that reaches an actor before the answer is of a call that stood
\* there already, or in the queue.
LEMMA UpstreamSpread ==
    ASSUME RuntimeAssumption, TypeOK, [Next]_vars,
           NEW a \in Upstream, NEW x \in Elements(mailbox'[a])
    PROVE  \/ \E b \in Upstream : \E y \in Elements(mailbox[b]) : y.event = x.event
           \/ x.event \in Elements(queue)
<1>0. Upstream \subseteq Actor /\ Sink \subseteq Actor /\ Upstream \cap Sink = {}
      /\ "ingress" \notin Actor
  BY DEF Actor, Sink, Upstream
<1>1. CASE UNCHANGED mailbox
  BY <1>1
<1>2. ASSUME NEW b \in Upstream, Receives(b), NEW targets, NEW m \in Msg,
             m.event = Received(b).event, Deliver(b, targets, m)
      PROVE  \E c \in Upstream : \E y \in Elements(mailbox[c]) : y.event = x.event
  <2>1. Received(b) \in Elements(mailbox[b]) /\ mailbox[b] # <<>>
    BY <1>0, <1>2, ReceivedFacts
  <2>2. x \in Elements(mailbox[a]) \/ x = m
    BY <1>0, <1>2, <2>1, DeliverFacts DEF TypeOK
  <2> QED BY <1>2, <2>1, <2>2
<1>3. CASE Ingress
  <2>1. CASE future[Head(queue)] # "pending"
    BY <1>1, <1>3, <2>1 DEF Ingress
  <2>2. CASE future[Head(queue)] = "pending"
    <3>1. queue \in Seq(Event) /\ queue # <<>>
      BY <1>3 DEF Ingress, TypeOK
    <3>2. Head(queue) \in Event /\ Head(queue) \in Elements(queue)
      BY <3>1, ElementsFacts
    <3>3. PICK m \in Msg : m.event = Head(queue) /\ Deliver("ingress", {"session"}, m)
      <4>1. [event |-> Head(queue), verdict |-> NoVerdict] \in Msg
        BY <3>2 DEF Msg
      <4> QED BY <1>3, <2>2, <4>1 DEF Ingress
    <3>4. x \in Elements(mailbox[a]) \/ x = m
      BY <1>0, <3>3, DeliverFacts DEF TypeOK
    <3> QED BY <3>2, <3>3, <3>4
  <2> QED BY <2>1, <2>2
<1>4. CASE Session
  <2>1. Receives("session") /\ "session" \in Upstream
        /\ \E targets : Deliver("session", targets, Received("session"))
    BY <1>4 DEF Session, SessionForwards, SessionFails, Upstream
  <2>2. Received("session") \in Msg
    BY <1>0, <2>1, ReceivedFacts
  <2> QED BY <1>2, <2>1, <2>2
<1>5. CASE Policy
  <2>1. Receives("policy") /\ "policy" \in Upstream
    BY <1>5 DEF Policy, PolicyDecides, PolicyFails, Upstream
  <2>2. Received("policy") \in Msg
    BY <1>0, <2>1, ReceivedFacts
  <2>3. CASE PolicyFails
    <3>1. Deliver("policy", {}, Received("policy"))
      BY <2>3 DEF PolicyFails
    <3> QED BY <1>2, <2>1, <2>2, <3>1
  <2>4. CASE PolicyDecides
    <3>1. PICK v \in Verdicts :
              Deliver("policy", {"decision"}, [Received("policy") EXCEPT !.verdict = v])
      BY <2>4 DEF PolicyDecides
    <3>2. PICK m : m = [Received("policy") EXCEPT !.verdict = v]
      OBVIOUS
    <3>3. m \in Msg /\ m.event = Received("policy").event
      BY <2>2, <3>2 DEF Msg
    <3> QED BY <1>2, <2>1, <3>1, <3>2, <3>3
  <2> QED BY <1>5, <2>3, <2>4 DEF Policy
<1>6. CASE Decide
  <2>1. Receives("decision") /\ "decision" \in Upstream
        /\ \E targets : Deliver("decision", targets, Received("decision"))
    BY <1>6 DEF Decide, Upstream
  <2>2. Received("decision") \in Msg
    BY <1>0, <2>1, ReceivedFacts
  <2> QED BY <1>2, <2>1, <2>2
<1>7. ASSUME NEW s \in Sink, HandOn(s)
      PROVE  x \in Elements(mailbox[a])
  <2>1. Receives(s) /\ Deliver(s, {}, Received(s))
    BY <1>7 DEF HandOn
  <2>2. Received(s) \in Msg /\ mailbox[s] # <<>>
    BY <1>0, <2>1, ReceivedFacts
  <2> QED BY <1>0, <2>1, <2>2, DeliverFacts DEF TypeOK
<1>8. CASE \/ Start \/ StopBegin \/ StopNext \/ (\E e \in Event : Submit(e) \/ GiveUp(e))
           \/ UNCHANGED vars
  BY <1>1, <1>8 DEF Start, StopBegin, StopNext, Submit, GiveUp, vars
<1> QED BY <1>3, <1>4, <1>5, <1>6, <1>7, <1>8 DEF Next

\* What reaches a fan-out actor and its records comes from DecisionActor.
LEMMA SinkSpread ==
    ASSUME RuntimeAssumption, TypeOK, [Next]_vars,
           NEW s \in Sink, NEW x \in Elements(mailbox'[s]) \cup Elements(out'[s])
    PROVE  \/ x \in Elements(mailbox[s]) \cup Elements(out[s])
           \/ Decide /\ x = Received("decision")
<1>0. Sink \subseteq Actor /\ s \in Actor /\ "session" \in Actor /\ "policy" \in Actor
      /\ "decision" \in Actor /\ "ingress" \notin Actor
      /\ s \notin {"session", "policy", "decision"}
  BY DEF Actor, Sink
<1>1. CASE UNCHANGED <<mailbox, out>>
  BY <1>1
<1>2. ASSUME NEW from, from \in Actor => mailbox[from] # <<>>, NEW targets, s \notin targets,
             NEW m \in Msg, Deliver(from, targets, m), UNCHANGED out
      PROVE  x \in Elements(mailbox[s]) \cup Elements(out[s])
  <2>1. \A y \in Elements(mailbox'[s]) : y \in Elements(mailbox[s])
    BY <1>0, <1>2, DeliverFacts DEF TypeOK
  <2> QED BY <1>2, <2>1
<1>3. CASE Ingress
  <2>1. CASE future[Head(queue)] # "pending"
    BY <1>1, <1>3, <2>1 DEF Ingress
  <2>2. CASE future[Head(queue)] = "pending"
    <3>1. queue \in Seq(Event) /\ queue # <<>> /\ UNCHANGED out
      BY <1>3 DEF Ingress, TypeOK
    <3>2. [event |-> Head(queue), verdict |-> NoVerdict] \in Msg
      BY <3>1 DEF Msg
    <3>3. Deliver("ingress", {"session"}, [event |-> Head(queue), verdict |-> NoVerdict])
      BY <1>3, <2>2 DEF Ingress
    <3> QED BY <1>0, <1>2, <3>1, <3>2, <3>3
  <2> QED BY <2>1, <2>2
<1>4. CASE Session
  <2>1. /\ Receives("session") /\ UNCHANGED out
        /\ \E targets : s \notin targets /\ Deliver("session", targets, Received("session"))
    BY <1>0, <1>4 DEF Session, SessionForwards, SessionFails
  <2>2. Received("session") \in Msg /\ mailbox["session"] # <<>>
    BY <1>0, <2>1, ReceivedFacts
  <2> QED BY <1>2, <2>1, <2>2
<1>5. CASE Policy
  <2>1. Receives("policy") /\ UNCHANGED out
    BY <1>5 DEF Policy, PolicyDecides, PolicyFails
  <2>2. Received("policy") \in Msg /\ mailbox["policy"] # <<>>
    BY <1>0, <2>1, ReceivedFacts
  <2>3. CASE PolicyFails
    <3>1. Deliver("policy", {}, Received("policy"))
      BY <2>3 DEF PolicyFails
    <3> QED BY <1>2, <2>1, <2>2, <3>1
  <2>4. CASE PolicyDecides
    <3>1. PICK v \in Verdicts :
              Deliver("policy", {"decision"}, [Received("policy") EXCEPT !.verdict = v])
      BY <2>4 DEF PolicyDecides
    <3>2. PICK m : m = [Received("policy") EXCEPT !.verdict = v]
      OBVIOUS
    <3>3. m \in Msg /\ Deliver("policy", {"decision"}, m)
      BY <2>2, <3>1, <3>2 DEF Msg
    <3> QED BY <1>0, <1>2, <2>1, <2>2, <3>3
  <2> QED BY <1>5, <2>3, <2>4 DEF Policy
<1>6. CASE Decide
  <2>1. /\ Receives("decision") /\ UNCHANGED out
        /\ \E targets : Deliver("decision", targets, Received("decision"))
    BY <1>6 DEF Decide
  <2>2. Received("decision") \in Msg /\ mailbox["decision"] # <<>>
    BY <1>0, <2>1, ReceivedFacts
  <2>3. \A y \in Elements(mailbox'[s]) : y \in Elements(mailbox[s]) \/ y = Received("decision")
    <3>1. mailbox \in [Actor -> Seq(Msg)] /\ subs \in [Actor -> Int]
      BY DEF TypeOK
    <3>2. PICK targets : Deliver("decision", targets, Received("decision"))
      BY <2>1
    <3>3. \A a \in Actor : \A y \in Elements(mailbox'[a]) :
              y \in Elements(mailbox[a]) \/ (a \in targets /\ y = Received("decision"))
      BY <2>2, <3>1, <3>2, DeliverFacts
    <3>4. s \in Actor
      BY DEF Actor
    <3> QED BY <3>3, <3>4
  <2> QED BY <1>6, <2>1, <2>3
<1>7. ASSUME NEW r \in Sink, HandOn(r)
      PROVE  x \in Elements(mailbox[s]) \cup Elements(out[s])
  <2>1. Receives(r) /\ Deliver(r, {}, Received(r))
    BY <1>7 DEF HandOn
  <2>2. Received(r) \in Msg /\ mailbox[r] # <<>> /\ Received(r) \in Elements(mailbox[r])
    BY <1>0, <2>1, ReceivedFacts
  <2>3. \A y \in Elements(mailbox'[s]) : y \in Elements(mailbox[s])
    <3>1. mailbox \in [Actor -> Seq(Msg)] /\ subs \in [Actor -> Int]
      BY DEF TypeOK
    <3>2. \A a \in Actor : \A y \in Elements(mailbox'[a]) :
              y \in Elements(mailbox[a]) \/ (a \in {} /\ y = Received(r))
      BY <2>1, <2>2, <3>1, DeliverFacts
    <3>3. s \in Actor
      BY DEF Actor
    <3> QED BY <3>2, <3>3
  <2>4. out'[s] = out[s] \/ (s = r /\ out'[s] = Append(out[s], Received(r)))
    BY <1>7 DEF HandOn, TypeOK
  <2>5. Elements(Append(out[s], Received(r))) = Elements(out[s]) \cup {Received(r)}
    BY ElementsFacts DEF TypeOK
  <2> QED BY <2>2, <2>3, <2>4, <2>5
<1>8. CASE \/ Start \/ StopBegin \/ StopNext \/ (\E e \in Event : Submit(e) \/ GiveUp(e))
           \/ UNCHANGED vars
  BY <1>1, <1>8 DEF Start, StopBegin, StopNext, Submit, GiveUp, vars
<1> QED BY <1>3, <1>4, <1>5, <1>6, <1>7, <1>8 DEF Next

\* In a runtime started once, the decision DecisionActor takes is the last that
\* stands of its call, and the first.
LEMMA DecidedLast ==
    ASSUME RuntimeAssumption, TypeOK, TypeOK', QueueUnpublished, SubscribedOnce,
           SubscribedWhileUp, LoadBounded, starts <= 1, Decide,
           NEW e, e = Received("decision").event
    PROVE  /\ e \in Event
           /\ e \notin Elements(queue)
           /\ \A a \in Upstream : \A m \in Elements(mailbox'[a]) : m.event # e
           /\ \A s \in Sink : \A m \in Elements(mailbox[s]) \cup Elements(out[s]) : m.event # e
<1>1. "session" \in Actor /\ "policy" \in Actor /\ "decision" \in Actor /\ Sink \subseteq Actor
      /\ "session" \notin Sink /\ "policy" \notin Sink /\ "decision" \notin Sink
  BY DEF Actor, Sink
<1>2. PICK m : m = Received("decision")
  OBVIOUS
<1>3. Receives("decision") /\ m \in Msg /\ m \in Elements(mailbox["decision"])
      /\ mailbox["decision"] # <<>> /\ m = Head(mailbox["decision"]) /\ e \in Event /\ m.event = e
  BY <1>1, <1>2, ReceivedFacts DEF Decide, Received
<1>4. e \notin Elements(queue)
  <2>1. Mentions(e)
    BY <1>1, <1>3 DEF Mentions
  <2> QED BY <2>1 DEF QueueUnpublished
<1>5. \A a \in Actor : InMail(a, e) \in Nat
  BY LoadFacts
<1>6. \A s \in Sink : Times(e, EventsOf(out[s])) \in Nat
  BY LoadFacts
<1>7. InMail("decision", e) # 0
  <2>1. mailbox["decision"] \in Seq(Msg)
    BY <1>1 DEF TypeOK
  <2> QED BY <1>3, <2>1, NotCounted DEF InMail
<1>8. ASSUME NEW s \in Sink
      PROVE  /\ InMail("session", e) = 0 /\ InMail("policy", e) = 0 /\ InMail("decision", e) = 1
             /\ InMail(s, e) = 0 /\ Times(e, EventsOf(out[s])) = 0
  <2>1. /\ Load(e, s) <= starts /\ starts \in Nat
        /\ InMail("session", e) # 0 => Load(e, s) = 0
    <3>1. s \in End /\ e \in Event
      BY <1>3 DEF End
    <3>2. starts \in Nat
      BY DEF TypeOK
    <3> QED BY <3>1, <3>2 DEF LoadBounded
  <2>2. Load(e, s) = InMail("policy", e) + InMail("decision", e)
                         + (InMail(s, e) + Times(e, EventsOf(out[s])))
    BY LoadParts
  <2>3. /\ InMail("session", e) \in Nat /\ InMail("policy", e) \in Nat
        /\ InMail("decision", e) \in Nat /\ InMail(s, e) \in Nat
        /\ Times(e, EventsOf(out[s])) \in Nat
    BY <1>1, <1>5, <1>6
  <2> QED BY <1>7, <2>1, <2>2, <2>3
<1>9. \A s \in Sink : \A x \in Elements(mailbox[s]) \cup Elements(out[s]) : x.event # e
  <2>1. ASSUME NEW s \in Sink
        PROVE  /\ \A x \in Elements(mailbox[s]) : x.event # e
               /\ \A x \in Elements(out[s]) : x.event # e
    <3>1. mailbox[s] \in Seq(Msg) /\ out[s] \in Seq(Msg)
      BY <1>1 DEF TypeOK
    <3>2. Times(e, EventsOf(mailbox[s])) = 0 /\ Times(e, EventsOf(out[s])) = 0
      BY <1>8 DEF InMail
    <3> QED BY <3>1, <3>2, NotCounted
  <2> QED BY <2>1
<1>10. ASSUME NEW a \in Upstream PROVE \A x \in Elements(mailbox'[a]) : x.event # e
  <2>1. PICK targets \in SUBSET Sink : Deliver("decision", targets, m)
    <3>1. PICK slow \in BOOLEAN : Deliver("decision", FanOut(m.verdict, slow), m)
      BY <1>2 DEF Decide, SlowPath
    <3>2. FanOut(m.verdict, slow) \subseteq Sink
      BY DEF FanOut, Sink
    <3> QED BY <3>1, <3>2
  <2>2. a \in Actor /\ a \notin targets
    BY <1>1, <2>1 DEF Upstream
  <2>3. InMail(a, e)' = InMail(a, e) - (IF a = "decision" THEN 1 ELSE 0)
    <3>1. InMail(a, e)' = InMail(a, e)
              - (IF a = "decision" /\ Head(mailbox[a]).event = e THEN 1 ELSE 0)
              + Added(a, targets, m, e)
      BY <1>3, <2>1, <2>2, DeliverCounts
    <3>2. Added(a, targets, m, e) = 0
      BY <2>2 DEF Added
    <3>3. a = "decision" => Head(mailbox[a]).event = e
      BY <1>3
    <3> QED BY <1>5, <2>2, <3>1, <3>2, <3>3
  <2>4. InMail(a, e)' = 0
    <3>1. "audit" \in Sink
      BY DEF Sink
    <3>2. InMail("session", e) = 0 /\ InMail("policy", e) = 0 /\ InMail("decision", e) = 1
      BY <1>8, <3>1
    <3> QED BY <2>3, <3>2 DEF Upstream
  <2>5. mailbox'[a] \in Seq(Msg)
    BY <2>2 DEF TypeOK
  <2> QED BY <2>4, <2>5, NotCounted DEF InMail
<1> QED BY <1>3, <1>4, <1>9, <1>10

\* The starts are only counted up.
LEMMA StartsGrow ==
    ASSUME RuntimeAssumption, TypeOK, [Next]_vars, starts' <= 1 PROVE starts <= 1
<1>1. starts' \in {starts, starts + 1}
  BY DEF Next, vars, lifecycle, Start, StopBegin, StopNext, Submit, GiveUp, Ingress, Session,
         SessionForwards, SessionFails, Policy, PolicyDecides, PolicyFails, Decide, HandOn
<1> QED BY <1>1 DEF TypeOK

\* Preserved by every step.
LEMMA KeepsAnsweredIsThrough ==
    ASSUME RuntimeAssumption, TypeOK, TypeOK', QueueUnpublished, SubscribedOnce,
           SubscribedWhileUp, LoadBounded, AnsweredIsThrough, [Next]_vars
    PROVE  AnsweredIsThrough'
<1>0. queue \in Seq(Event)
  BY DEF TypeOK
<1>1. ASSUME starts <= 1, NEW e \in Event, future'[e] = "result"
      PROVE  /\ e \notin Elements(queue')
             /\ \A a \in Upstream : \A m \in Elements(mailbox'[a]) : m.event # e
  <2>1. CASE future[e] = "result"
    <3>1. /\ e \notin Elements(queue)
          /\ \A a \in Upstream : \A m \in Elements(mailbox[a]) : m.event # e
      BY <1>1, <2>1 DEF AnsweredIsThrough
    <3>2. e \notin Elements(queue')
      <4>1. ASSUME NEW f \in Event, Submit(f) PROVE e \notin Elements(queue')
        <5>1. f # e /\ queue' = Append(queue, f)
          BY <2>1, <4>1 DEF Submit
        <5> QED BY <1>0, <3>1, <5>1, ElementsFacts
      <4>2. CASE Ingress
        <5>1. queue # <<>> /\ queue' = Tail(queue)
          BY <4>2 DEF Ingress
        <5> QED BY <1>0, <3>1, <5>1, ElementsFacts
      <4> QED BY <3>1, <4>1, <4>2, QueueSteps
    <3>3. \A a \in Upstream : \A m \in Elements(mailbox'[a]) : m.event # e
      BY <3>1, UpstreamSpread
    <3> QED BY <3>2, <3>3
  <2>2. CASE future[e] # "result"
    <3>1. Decide /\ e = Received("decision").event
      BY <1>1, <2>2, AnsweredByDecide
    <3>2. UNCHANGED queue
      BY <3>1 DEF Decide
    <3> QED BY <1>1, <3>1, <3>2, DecidedLast
  <2> QED BY <2>1, <2>2
<1> QED BY <1>1, StartsGrow DEF AnsweredIsThrough

\* What is recorded is what the caller was told: preserved by every step.
LEMMA KeepsRecordsAgree ==
    ASSUME RuntimeAssumption, TypeOK, TypeOK', QueueUnpublished, SubscribedOnce,
           SubscribedWhileUp, LoadBounded, AnsweredIsThrough, RecordsAgree, [Next]_vars
    PROVE  RecordsAgree'
<1>1. ASSUME starts <= 1, NEW e \in Event, NEW s \in Sink, future'[e] = "result",
             NEW m \in Elements(mailbox'[s]) \cup Elements(out'[s]), m.event = e
      PROVE  m.verdict = verdict'[e]
  <2>1. CASE future[e] = "result"
    <3>1. ASSUME Decide PROVE Received("decision").event # e
      <4>1. Received("decision") \in Elements(mailbox["decision"])
        BY <3>1, ReceivedFacts DEF Decide, Actor
      <4> QED BY <1>1, <2>1, <4>1 DEF AnsweredIsThrough, Upstream
    <3>2. m \in Elements(mailbox[s]) \cup Elements(out[s])
      BY <1>1, <3>1, SinkSpread
    <3>3. verdict'[e] = verdict[e]
      <4>1. CASE Decide
        BY <3>1, <4>1 DEF Decide, TypeOK
      <4>2. CASE UNCHANGED verdict
        BY <4>2
      <4>3. Decide \/ UNCHANGED verdict
        BY DEF Next, vars, Start, StopBegin, StopNext, Submit, GiveUp, Ingress, Session,
               SessionForwards, SessionFails, Policy, PolicyDecides, PolicyFails, HandOn
      <4> QED BY <4>1, <4>2, <4>3
    <3> QED BY <1>1, <2>1, <3>2, <3>3 DEF RecordsAgree
  <2>2. CASE future[e] # "result"
    <3>1. Decide /\ e = Received("decision").event /\ future[e] = "pending"
      BY <1>1, <2>2, AnsweredByDecide
    <3>2. m = Received("decision")
      <4>1. \A x \in Elements(mailbox[s]) \cup Elements(out[s]) : x.event # e
        BY <1>1, <3>1, DecidedLast
      <4> QED BY <1>1, <4>1, SinkSpread
    <3>3. verdict'[e] = Received("decision").verdict
      BY <3>1 DEF Decide, TypeOK
    <3> QED BY <3>2, <3>3
  <2> QED BY <2>1, <2>2
<1> QED BY <1>1, StartsGrow DEF RecordsAgree

-----------------------------------------------------------------------------
(* The theorems.                                                           *)

\* What holds whatever the constants are.
IInv == /\ TypeOK
        /\ OnlySubmitted
        /\ QueueUnpublished
        /\ ShutdownReleasesCallers

\* The invariant of the pipeline, without the trace.
LEMMA Invariance == ASSUME RuntimeAssumption PROVE Spec => []IInv
<1>1. ASSUME Init
      PROVE  IInv
  <2>1. Elements(<<>>) = {}
    BY DEF Elements
  <2>2. DOMAIN seen = {}
    BY <1>1 DEF Init
  <2>3. \A e \in Event : ~Mentions(e)
    BY <1>1, <2>1 DEF Init, Mentions
  <2>4. OnlySubmitted
    BY <1>1, <2>1, <2>2, <2>3 DEF Init, OnlySubmitted
  <2>5. QueueUnpublished
    BY <1>1, <2>1 DEF Init, QueueUnpublished
  <2>6. ShutdownReleasesCallers
    BY <1>1 DEF Init, ShutdownReleasesCallers, IngressStopped
  <2> QED  BY <1>1, <2>4, <2>5, <2>6, InitTypeOK DEF IInv
<1>2. ASSUME IInv, [Next]_vars
      PROVE  IInv'
  BY <1>2, NextKeepsTypeOK, KeepsOnlySubmitted, KeepsQueueUnpublished,
     KeepsShutdownReleasesCallers DEF IInv
<1> QED  BY <1>1, <1>2, PTL DEF Spec

\* Every variable of the runtime keeps its type, and stop() stands at one of
\* the tasks it awaits.
THEOREM TypeCorrect == Spec => []TypeOK
BY RuntimeAssumption, Invariance, PTL DEF IInv

\* IngressLoop.stop: no caller hangs after a stop, whatever else ran meanwhile
\* and however often the runtime was started.
THEOREM ShutdownReleases == Spec => []ShutdownReleasesCallers
BY RuntimeAssumption, Invariance, PTL DEF IInv

\* IngressLoop._run: a call given up before the ingress took it is published
\* nowhere.
THEOREM GivenUpIsSilent == Spec => GivenUpInTimeIsSilent
<1> USE RuntimeAssumption
<1>1. ASSUME IInv, [Next]_vars, NEW e \in Elements(queue), future[e] # "pending"
      PROVE  ~Mentions(e)'
  <2>1. e \in Event
    BY <1>1, ElementsFacts DEF IInv, TypeOK
  <2> QED  BY <1>1, <2>1, MentionsSpread DEF IInv, QueueUnpublished
<1>2. IInv /\ [Next]_vars =>
          [\A e \in Elements(queue) : future[e] # "pending" => ~Mentions(e)']_vars
  BY <1>1
<1> QED  BY <1>2, Invariance, PTL DEF Spec, GivenUpInTimeIsSilent

\* DecisionActor writes the trace before it answers: a caller that has its
\* decision and submits the next call has it judged against a trace that holds
\* the first one -- in a StateCache whose append does not fail.
THEOREM TraceIsVisible ==
    ASSUME ~TraceMayFail PROVE Spec => []TraceVisible
<1> USE RuntimeAssumption
<1> DEFINE Traces == AnsweredIsTraced /\ TraceVisible
<1>1. ASSUME Init
      PROVE  Traces
  <2>1. DOMAIN seen = {}
    BY <1>1 DEF Init
  <2>2. \A e \in Attempt : e \in Event
    BY DEF RuntimeAssumption
  <2> QED  BY <1>1, <2>1, <2>2 DEF Init, AnsweredIsTraced, TraceVisible
<1>2. ASSUME IInv, Traces, [Next]_vars
      PROVE  Traces'
  BY <1>2, KeepsAnsweredIsTraced, KeepsTraceVisible DEF IInv
<1>3. Spec => []Traces
  BY <1>1, <1>2, Invariance, PTL DEF Spec
<1> QED  BY <1>3, PTL

\* The queue, the mailboxes and the trace are first in, first out: in a runtime
\* started once, the trace is chronological, whatever was skipped, failed or
\* dropped on the way.  (A second start() subscribes PolicyActor twice.)
THEOREM TraceIsInOrder ==
    ASSUME MaxStarts <= 1 PROVE Spec => []TraceInOrder
<1> USE RuntimeAssumption
<1> DEFINE Ordered == SubscribedOnce /\ InLine
<1>1. ASSUME Init
      PROVE  Ordered
  <2>1. SubscribedOnce
    BY <1>1 DEF Init, SubscribedOnce
  <2>2. \A n \in 1..5 : Len(Line[n]) = 0
    <3>1. EventsOf(<<>>) = <<>>
      BY DEF EventsOf
    <3>2. \A n \in {1, 2, 3, 4, 5} : Line[n] = <<>>
      BY <1>1, <3>1 DEF Init, Line, Actor
    <3>3. 1..5 = {1, 2, 3, 4, 5}
      OBVIOUS
    <3> QED  BY <3>2, <3>3
  <2>3. \A n \in 1..5 : 1..Len(Line[n]) = {}
    BY <2>2
  <2> QED  BY <2>1, <2>3 DEF InLine, Lined
<1>2. ASSUME IInv, IInv', Ordered, [Next]_vars
      PROVE  Ordered'
  BY <1>2, KeepsInLine, KeepsSubscribedOnce DEF IInv
<1>3. Spec => []Ordered
  BY <1>1, <1>2, Invariance, PTL DEF Spec
<1>4. ASSUME IInv, Ordered
      PROVE  TraceInOrder
  <2>1. 1 \in 1..5 /\ Line[1] = traceLog
    BY DEF Line
  <2>2. \A i, j \in 1..Len(traceLog) : i < j => Before(traceLog[i], traceLog[j])
    BY <1>4, <2>1 DEF InLine, Lined
  <2>3. order \in Seq(Event)
    BY <1>4 DEF IInv, TypeOK
  <2> QED  BY <2>2 DEF TraceInOrder, Before
<1> QED  BY <1>3, <1>4, Invariance, PTL

\* What bounds the decisions of a call, over any number of starts.
Counting == /\ SubscribedOnce
            /\ SubscribedWhileUp
            /\ LoadBounded
            /\ AnsweredIsThrough

\* The invariant of the counts.
LEMMA CountInvariance == ASSUME RuntimeAssumption PROVE Spec => []Counting
<1>1. ASSUME Init
      PROVE  Counting
  <2>1. SubscribedOnce /\ SubscribedWhileUp
    <3>1. starts = 0 /\ stopping = 0 /\ \A a \in Actor : subs[a] = 0
      BY <1>1 DEF Init
    <3>2. \A a \in Actor : subs[a] <= 0 /\ subs[a] <= 1 /\ subs[a] <= starts
      BY <3>1
    <3> QED BY <3>1, <3>2 DEF SubscribedOnce, SubscribedWhileUp
  <2>2. LoadBounded
    <3>1. \A e \in Event : ~Mentions(e)
      BY <1>1 DEF Init, Mentions, Elements
    <3>2. TypeOK /\ starts = 0 /\ "session" \in Actor
      BY <1>1, InitTypeOK DEF Init, Actor
    <3>3. ASSUME NEW e \in Event
          PROVE  InMail("session", e) = 0 /\ \A x \in End : Load(e, x) = 0
      BY <3>1, <3>2, UnmentionedFacts
    <3> QED BY <3>2, <3>3 DEF LoadBounded
  <2>3. AnsweredIsThrough
    BY <1>1 DEF Init, AnsweredIsThrough
  <2> QED BY <2>1, <2>2, <2>3 DEF Counting
<1>2. ASSUME IInv, IInv', Counting, [Next]_vars
      PROVE  Counting'
  BY <1>2, KeepsSubscribedOnce, KeepsSubscribedWhileUp, KeepsLoadBounded, KeepsAnsweredIsThrough
  DEF IInv, Counting
<1> QED BY <1>1, <1>2, Invariance, PTL DEF Spec

\* AgentGuardRuntime.start and stop: however often the runtime is stopped and
\* started in the middle of a call, and although PolicyActor stays subscribed,
\* the call is decided, traced, recorded and handed to a reviewer once per start
\* at most.
THEOREM DecidedOnce == Spec => []DecidedOncePerStart
<1> USE RuntimeAssumption
<1>1. ASSUME IInv, Counting
      PROVE  DecidedOncePerStart
  <2>1. ASSUME NEW e \in Event
        PROVE  /\ Times(e, traceLog) <= starts
               /\ \A s \in Sink : Times(e, EventsOf(out[s])) <= starts
    <3>1. TypeOK /\ starts \in Nat
      BY <1>1 DEF IInv, TypeOK
    <3>2. /\ InMail("policy", e) \in Nat /\ InMail("decision", e) \in Nat
          /\ Times(e, traceLog) \in Nat
          /\ \A s \in Sink : InMail(s, e) \in Nat /\ Times(e, EventsOf(out[s])) \in Nat
      BY <3>1, LoadFacts DEF Actor
    <3>3. \A x \in End : Load(e, x) <= starts
      BY <1>1 DEF Counting, LoadBounded
    <3>4. Times(e, traceLog) <= starts
      <4>1. Load(e, "trace") <= starts
        BY <3>3 DEF End
      <4> QED BY <3>1, <3>2, <4>1, LoadParts
    <3>5. ASSUME NEW s \in Sink PROVE Times(e, EventsOf(out[s])) <= starts
      <4>1. Load(e, s) <= starts
        BY <3>3 DEF End
      <4>2. Load(e, s) = InMail("policy", e) + InMail("decision", e)
                             + (InMail(s, e) + Times(e, EventsOf(out[s])))
        BY LoadParts
      <4> QED BY <3>1, <3>2, <4>1, <4>2
    <3> QED BY <3>4, <3>5
  <2> QED BY <2>1 DEF DecidedOncePerStart
<1> QED BY <1>1, Invariance, CountInvariance, PTL

\* DecisionActor answers and publishes one decision: in a runtime started once,
\* whatever interleaves, no record, ticket or message of an answered call
\* differs from the decision its caller acts on.
THEOREM RecordsDoAgree == Spec => []RecordsAgree
<1> USE RuntimeAssumption
<1>1. Init => RecordsAgree
  BY DEF Init, RecordsAgree
<1>2. ASSUME IInv, IInv', Counting, RecordsAgree, [Next]_vars
      PROVE  RecordsAgree'
  BY <1>2, KeepsRecordsAgree DEF IInv, Counting
<1> QED BY <1>1, <1>2, Invariance, CountInvariance, PTL DEF Spec
=============================================================================
