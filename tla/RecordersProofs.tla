--------------------------- MODULE RecordersProofs ---------------------------
(***************************************************************************)
(* Proofs about the recorders: the audit trail, the slow path, the graph   *)
(* writer and the callers between them.  The slow path's promises rest on  *)
(* what the ring buffer of the audit trail holds, and the agreement of the *)
(* two histories on the order in which calls are handed to the writer and  *)
(* wait, are held and are listed.                                          *)
(***************************************************************************)
EXTENDS Recorders, SequenceTheorems, WellFoundedInduction, TLAPS

Decisions == Verdict \cup {"none"}
Record == [call : Thread \X Nat, decision : Decisions]

AuditTypeOK ==
    /\ logged \in Seq(Record)
    /\ buffer \in Seq(Nat)
    /\ dropped \in Nat
    /\ loopOn \in BOOLEAN
    /\ sent \subseteq Nat

Places == {"none", "queued", "found", "missed", "synth", "done"}
Buckets == {BucketOf[c] : c \in Task}

SlowTypeOK ==
    /\ attached \in BOOLEAN
    /\ loops \in Seq({"starting", "running", "stopped"})
    /\ task \in [Task -> [at : Places, loop : Nat]]
    /\ found \in [Task -> Decisions]
    /\ counter \in Nat
    /\ lastSynth \in [Buckets -> Int]
    /\ synths \subseteq Task \X Nat
    /\ dynamic \subseteq NewRules
    /\ now \in Nat

CallerTypeOK ==
    /\ pc \in [Thread -> {"idle", "traced", "submitted", "dispatched", "logged",
                          "resulted", "flushing", "flushed"}]
    /\ made \in [Thread -> Nat]
    /\ decision \in [Thread -> Decisions]
    /\ trace \in [Sessions -> Seq(Call)]
    /\ stats \in [total : Nat, refused : Nat]
    /\ closing \in {"open", "detached", "sentinel", "closed"}
    /\ stops \in Nat
    /\ gone \subseteq Call /\ before \in [Call -> SUBSET Call]

Item == (Call \X {"attempt", "result"}) \cup {Sentinel}

GraphTypeOK ==
    /\ queue \in Seq(Item)
    /\ unfinished \in Nat
    /\ worker \in {"waiting", "writing", "pushing", "returned"}
    /\ held \in Item
    /\ worker \in {"writing", "pushing"} => held # Sentinel
    /\ worker = "pushing" => held[2] = "attempt"
    /\ recent \in [Sessions -> Seq(Call)]
    /\ \A s \in Sessions : Len(recent[s]) <= RecentCap
    /\ lost \subseteq Item

TypeOK == AuditTypeOK /\ SlowTypeOK /\ CallerTypeOK /\ GraphTypeOK

-----------------------------------------------------------------------------
(* The audit trail.                                                        *)

\* The buffer holds the newest records, as many as it has room for.
BufferIsNewest ==
    /\ Len(buffer) <= BufferSize /\ Len(buffer) <= Len(logged)
    /\ Len(buffer) = Len(logged) \/ Len(buffer) = BufferSize
    /\ \A k \in 1 .. Len(buffer) : buffer[k] = Len(logged) - Len(buffer) + k

\* A bucket's last synthesis is noted, and not in the future.
SynthesesNoted ==
    \A x \in synths : x[2] <= now /\ x[2] <= lastSynth[BucketOf[x[1]]]

\* A set of natural numbers with a bound has a greatest one.
LEMMA MaxFacts ==
    ASSUME NEW n \in Nat, NEW S \in SUBSET (0 .. n), S # {}
    PROVE  Max(S) \in S /\ \A y \in S : Max(S) >= y
<1> DEFINE T == {n - x : x \in S}
<1>1. T \subseteq Nat /\ T # {}
  <2>1. \A x \in S : x \in 0 .. n
    OBVIOUS
  <2>2. \A x \in S : n - x \in Nat
    BY <2>1
  <2> QED  BY <2>2
<1>2. PICK m \in T : \A y \in T : ~(<<y, m>> \in OpToRel(<, Nat))
  <2> HIDE DEF T
  <2> QED  BY <1>1, NatLessThanWellFounded, WFMin
<1>3. PICK x \in S : m = n - x
  OBVIOUS
<1>4. \A y \in S : x >= y
  <2> SUFFICES ASSUME NEW y \in S, y > x PROVE FALSE
    OBVIOUS
  <2>1. n - y \in T /\ n - y \in Nat /\ m \in Nat /\ n - y < m
    BY <1>3
  <2>2. <<n - y, m>> \in OpToRel(<, Nat)
    BY <2>1 DEF OpToRel
  <2> QED  BY <1>2, <2>1, <2>2
<1> QED  BY <1>4 DEF Max

\* Of two numbers Min takes the smaller one.
LEMMA MinFacts ==
    ASSUME NEW a \in Nat, NEW b \in Nat
    PROVE  Min({a, b}) \in {a, b} /\ Min({a, b}) <= a /\ Min({a, b}) <= b
<1>1. \E x \in {a, b} : \A y \in {a, b} : x <= y
  OBVIOUS
<1> QED  BY <1>1 DEF Min

\* What the hook's window shows: the newest records.
LEMMA RecentFacts ==
    ASSUME AuditAssumption, AuditTypeOK, BufferIsNewest, NEW n \in Nat
    PROVE  /\ ToSet(Recent(n)) \subseteq 1 .. Len(logged)
           /\ \A i \in 1 .. Len(logged) :
                  Len(logged) - i < n /\ Len(logged) - i < BufferSize => i \in ToSet(Recent(n))
<1>1. Len(buffer) \in Nat /\ Len(logged) \in Nat /\ BufferSize \in Nat
  BY DEF AuditTypeOK, AuditAssumption
<1>2. CASE n = 0 \/ n >= Len(buffer)
  <2>1. Recent(n) = buffer /\ DOMAIN buffer = 1 .. Len(buffer)
    BY <1>2 DEF Recent, AuditTypeOK
  <2>2. ASSUME NEW i \in 1 .. Len(logged), Len(logged) - i < n, Len(logged) - i < BufferSize
        PROVE  i \in ToSet(buffer)
    <3>1. Len(logged) - i < Len(buffer)
      BY <1>1, <2>2 DEF BufferIsNewest
    <3> DEFINE k == i - (Len(logged) - Len(buffer))
    <3>2. k \in 1 .. Len(buffer) /\ buffer[k] = i
      BY <1>1, <3>1 DEF BufferIsNewest
    <3> QED  BY <2>1, <3>2 DEF ToSet
  <2>3. ToSet(buffer) \subseteq 1 .. Len(logged)
    <3>1. \A k \in 1 .. Len(buffer) : buffer[k] \in 1 .. Len(logged)
      BY <1>1 DEF BufferIsNewest
    <3> QED  BY <2>1, <3>1 DEF ToSet
  <2> QED  BY <2>1, <2>2, <2>3
<1>3. CASE ~(n = 0 \/ n >= Len(buffer))
  <2> DEFINE m == Len(buffer) - n
             s == SubSeq(buffer, m + 1, Len(buffer))
  <2>1. Recent(n) = s /\ m \in Nat
    BY <1>1, <1>3 DEF Recent
  <2>2. Len(s) = n /\ DOMAIN s = 1 .. n /\ \A k \in 1 .. n : s[k] = buffer[m + k]
    <3>1. s = [k \in 1 .. n |-> buffer[m + k]]
      BY <1>1, <1>3, SubSeqProperties DEF AuditTypeOK
    <3>2. s \in Seq(Nat) /\ Len(s) = n
      BY <1>1, <1>3, SubSeqProperties DEF AuditTypeOK
    <3> QED  BY <3>1, <3>2
  <2>3. \A k \in 1 .. n : s[k] = Len(logged) - n + k
    <3>1. ASSUME NEW k \in 1 .. n
          PROVE  s[k] = Len(logged) - n + k
      <4>1. m + k \in 1 .. Len(buffer)
        BY <1>1, <1>3
      <4>2. buffer[m + k] = Len(logged) - Len(buffer) + (m + k)
        BY <4>1 DEF BufferIsNewest
      <4> QED  BY <1>1, <2>2, <4>2
    <3> QED  BY <3>1
  <2> HIDE DEF s
  <2>4. ASSUME NEW i \in 1 .. Len(logged), Len(logged) - i < n
        PROVE  i \in ToSet(s)
    <3> DEFINE k == i - (Len(logged) - n)
    <3>1. k \in 1 .. n
      BY <1>1, <2>4
    <3>2. s[k] = i
      BY <1>1, <2>3, <3>1
    <3> QED  BY <2>2, <3>1, <3>2 DEF ToSet
  <2>5. ToSet(s) \subseteq 1 .. Len(logged)
    <3>1. n <= Len(logged)
      BY <1>1, <1>3 DEF BufferIsNewest
    <3>2. \A k \in 1 .. n : s[k] \in 1 .. Len(logged)
      BY <1>1, <2>3, <3>1
    <3> QED  BY <2>2, <3>2 DEF ToSet
  <2> QED  BY <2>1, <2>4, <2>5
<1> QED  BY <1>2, <1>3

\* _latest_decision_for finds nothing only if nothing is in its window, and
\* what it finds is a decision.
LEMMA LatestDecisionFacts ==
    ASSUME AuditAssumption, SlowAssumption, AuditTypeOK, BufferIsNewest, NEW c
    PROVE  /\ LatestDecision(c) \in Decisions
           /\ LatestDecision(c) = "none" =>
                  \A i \in ToSet(Recent(Window)) :
                      ~(logged[i].call = c /\ logged[i].decision # "none")
<1> DEFINE of == {i \in ToSet(Recent(Window)) :
                     logged[i].call = c /\ logged[i].decision # "none"}
<1>1. Len(logged) \in Nat /\ of \subseteq 1 .. Len(logged)
  <2>1. Window \in Nat
    BY DEF SlowAssumption
  <2> QED  BY <2>1, RecentFacts DEF AuditTypeOK
<1>2. LatestDecision(c) = IF of = {} THEN "none" ELSE logged[Max(of)].decision
  BY DEF LatestDecision
<1>3. ASSUME of # {}
      PROVE  Max(of) \in of /\ logged[Max(of)] \in Record
  <2> HIDE DEF of
  <2>1. of \in SUBSET (0 .. Len(logged))
    BY <1>1
  <2>2. Max(of) \in of
    BY <1>1, <1>3, <2>1, MaxFacts
  <2>3. logged \in Seq(Record) /\ Max(of) \in 1 .. Len(logged)
    BY <1>1, <2>2 DEF AuditTypeOK
  <2>4. logged[Max(of)] \in Record
    BY <2>3, ElementOfSeq
  <2> QED  BY <2>2, <2>4
<1>4. CASE of = {}
  BY <1>2, <1>4 DEF Decisions
<1>5. CASE of # {}
  <2>1. LatestDecision(c) = logged[Max(of)].decision
    BY <1>2, <1>5
  <2>2. logged[Max(of)].decision # "none" /\ logged[Max(of)].decision \in Decisions
    BY <1>3, <1>5 DEF Record
  <2> HIDE DEF of
  <2> QED  BY <2>1, <2>2
<1> QED  BY <1>4, <1>5
-----------------------------------------------------------------------------
(* The two histories.  A call begins, is handed to the graph writer, waits, *)
(* is held and is listed, and no step lets it pass another.                *)

Between == {"idle", "flushing", "flushed"}
Handed == {"submitted", "dispatched", "logged", "resulted"}

\* How many calls a thread has begun, and the calls that were begun.
Attempted(t) == made[t] + IF pc[t] \in Between THEN 0 ELSE 1
Begun == {c \in Call : c[2] <= Attempted(c[1])}

CallsBounded == \A t \in Thread : Attempted(t) <= MaxCalls[t]

\* A call that began stands once in the trace of its session, or is gone from it.
TraceHolds ==
    /\ \A s \in Sessions : \A k \in 1 .. Len(trace[s]) :
           /\ trace[s][k] \in Begun \ gone /\ SessionOf[trace[s][k]] = s
           /\ \A l \in 1 .. Len(trace[s]) : k < l => trace[s][k] # trace[s][l]
    /\ gone \subseteq Begun
    /\ \A c \in Begun : c \in gone \/ c \in ToSet(trace[SessionOf[c]])

\* What had been handed on before a call began had been handed on.
HandedBefore == \A c \in Call : before[c] \subseteq HandedOn

\* Items that stand for a call that began.
IsAttempt(item) == item # Sentinel /\ item[2] = "attempt"
Busy == worker \in {"writing", "pushing"}

\* Calls stand in line if no one of them comes after another that had not been
\* handed on when it began: a call in a list before the one the worker holds,
\* and that before those that wait.  `on` are the calls handed on and `bf` those
\* handed on before each began.
Follows(b, a, bf) == a # b /\ b \notin bf[a]

QueueInLine(on, bf) ==
    \A j \in 1 .. Len(queue) : IsAttempt(queue[j]) =>
        /\ queue[j][1] \in on
        /\ \A i \in 1 .. Len(queue) :
               i < j /\ IsAttempt(queue[i]) => Follows(queue[j][1], queue[i][1], bf)

HeldInLine(on, bf) ==
    Busy /\ IsAttempt(held) =>
        /\ held[1] \in on
        /\ \A j \in 1 .. Len(queue) : IsAttempt(queue[j]) => Follows(queue[j][1], held[1], bf)

RecentInLine(on, bf) ==
    \A s \in Sessions : \A i \in 1 .. Len(recent[s]) :
        /\ recent[s][i] \in on /\ SessionOf[recent[s][i]] = s
        /\ \A j \in 1 .. Len(recent[s]) : i < j => Follows(recent[s][i], recent[s][j], bf)
        /\ Busy /\ IsAttempt(held) => Follows(held[1], recent[s][i], bf)
        /\ \A j \in 1 .. Len(queue) : IsAttempt(queue[j])
                                           => Follows(queue[j][1], recent[s][i], bf)

InLine(on, bf) == QueueInLine(on, bf) /\ HeldInLine(on, bf) /\ RecentInLine(on, bf)

\* A call that began and is not gone is somewhere.
Placed == LocalGraph => \A c \in Begun : c \in gone \/ Accounted(c)

\* What was handed on has its edges, or waits for them, or was lost.
Edged(c) == \A ref \in Refs[c] : <<c, ref.node>> \in edges
Waits(c) ==
    \/ <<c, "attempt">> \in ToSet(queue) \cup lost
    \/ held = <<c, "attempt">> /\ worker = "writing"
Written == \A c \in HandedOn : Waits(c) \/ Edged(c)

\* flush counts what waits and what the worker is at.
UnfinishedCounted == unfinished = Len(queue) + IF Busy THEN 1 ELSE 0
FlushesLocally == \A t \in Thread : pc[t] \in {"flushing", "flushed"} => LocalGraph
-----------------------------------------------------------------------------
(* What a step does to each of the three.                                  *)

AuditStep ==
    \/ \E record \in Record : Log(record)
    \/ StartLoop \/ StopLoop \/ \E accepted \in BOOLEAN : Tick(accepted)

SlowStep ==
    \/ \E t \in Thread : SlowSubmit(CallOf(t))
    \/ \E l \in DOMAIN loops : LoopRuns(l)
    \/ \E c \in Task : HookStep(c)
    \/ Elapse \/ SlowClose \/ Detach

\* A step of the system logs a record, is one of the AuditLoop, or leaves the
\* audit trail alone.
LEMMA NextAudit ==
    ASSUME CallerTypeOK, [Next]_vars
    PROVE  AuditStep \/ UNCHANGED auditVars
<1>1. ASSUME NEW t \in Thread, Caller(t)
      PROVE  AuditStep \/ UNCHANGED auditVars
  <2>1. CallOf(t) \in Thread \X Nat /\ decision[t] \in Decisions
    BY DEF CallerTypeOK, CallOf
  <2>2. CASE LogAttempt(t)
    <3> DEFINE record == [call |-> CallOf(t), decision |-> decision[t]]
    <3>1. record \in Record
      BY <2>1 DEF Record
    <3> HIDE DEF record
    <3>2. Audited(record)
      BY <2>2 DEF LogAttempt, record
    <3> QED  BY <3>1, <3>2 DEF Audited, AuditStep
  <2>3. CASE LogResult(t)
    <3> DEFINE record == [call |-> CallOf(t), decision |-> "none"]
    <3>1. record \in Record
      BY <2>1 DEF Record, Decisions
    <3> HIDE DEF record
    <3>2. Audited(record)
      BY <2>3 DEF LogResult, record
    <3> QED  BY <3>1, <3>2 DEF Audited, AuditStep
  <2>4. CASE ~LogAttempt(t) /\ ~LogResult(t)
    BY <1>1, <2>4 DEF Caller, Attempt, ToGraph, ToSlowPath, ResultToGraph, Flush, Flushed
  <2> QED  BY <2>2, <2>3, <2>4
<1>2. ASSUME ClearSession \/ Close \/ ActorStops
      PROVE  UNCHANGED auditVars
  BY <1>2 DEF ClearSession, Close, ActorStops
<1>3. ASSUME Behind
      PROVE  AuditStep \/ UNCHANGED auditVars
  BY <1>3 DEF Behind, AuditStep
<1> QED  BY <1>1, <1>2, <1>3 DEF Next, vars

\* A step of the system is one of the slow path or leaves it alone.
LEMMA NextSlow ==
    ASSUME [Next]_vars
    PROVE  SlowStep \/ UNCHANGED slowVars
<1>1. ASSUME NEW t \in Thread, Caller(t)
      PROVE  SlowStep \/ UNCHANGED slowVars
  BY <1>1 DEF Caller, Attempt, ToGraph, ToSlowPath, LogAttempt, ResultToGraph, LogResult,
              Flush, Flushed, SlowStep
<1>2. ASSUME ClearSession
      PROVE  UNCHANGED slowVars
  BY <1>2 DEF ClearSession
<1>3. ASSUME Close \/ ActorStops
      PROVE  SlowStep \/ UNCHANGED slowVars
  BY <1>3 DEF Close, ActorStops, SlowStep
<1>4. ASSUME Behind
      PROVE  SlowStep \/ UNCHANGED slowVars
  BY <1>4 DEF Behind, SlowStep
<1> QED  BY <1>1, <1>2, <1>3, <1>4 DEF Next, vars

\* The trail keeps its types and its buffer what it is.
LEMMA AuditKept ==
    ASSUME AuditAssumption, AuditTypeOK, BufferIsNewest, AuditStep \/ UNCHANGED auditVars
    PROVE  AuditTypeOK' /\ BufferIsNewest'
<1>1. ASSUME NEW record \in Record, Log(record)
      PROVE  AuditTypeOK' /\ BufferIsNewest'
  <2> DEFINE all == Append(buffer, Len(logged) + 1)
  <2>1. /\ logged \in Seq(Record) /\ buffer \in Seq(Nat)
        /\ Len(logged) \in Nat /\ Len(buffer) \in Nat /\ BufferSize \in Nat
    BY DEF AuditTypeOK, AuditAssumption
  <2>2. logged' \in Seq(Record) /\ Len(logged') = Len(logged) + 1
    BY <1>1, <2>1, AppendProperties DEF Log
  <2>3. /\ all \in Seq(Nat) /\ Len(all) = Len(buffer) + 1
        /\ \A k \in 1 .. Len(all) : all[k] = Len(logged) - Len(buffer) + k
    <3>1. /\ all \in Seq(Nat) /\ Len(all) = Len(buffer) + 1
          /\ \A k \in 1 .. Len(buffer) : all[k] = buffer[k]
          /\ all[Len(buffer) + 1] = Len(logged) + 1
      BY <2>1, AppendProperties
    <3>2. \A k \in 1 .. Len(all) : k \in 1 .. Len(buffer) \/ k = Len(buffer) + 1
      BY <2>1, <3>1
    <3> HIDE DEF all
    <3>3. ASSUME NEW k \in 1 .. Len(all)
          PROVE  all[k] = Len(logged) - Len(buffer) + k
      <4>1. CASE k \in 1 .. Len(buffer)
        <5>1. all[k] = buffer[k]
          BY <3>1, <4>1
        <5>2. buffer[k] = Len(logged) - Len(buffer) + k
          BY <4>1 DEF BufferIsNewest
        <5> QED  BY <5>1, <5>2
      <4>2. CASE k = Len(buffer) + 1
        BY <2>1, <3>1, <4>2
      <4> QED  BY <3>2, <4>1, <4>2
    <3> QED  BY <3>1, <3>3
  <2>4. buffer' = IF Len(all) > BufferSize THEN Tail(all) ELSE all
    BY <1>1 DEF Log
  <2> HIDE DEF all
  <2>5. CASE Len(all) > BufferSize
    <3>1. /\ Tail(all) \in Seq(Nat) /\ Len(Tail(all)) = Len(buffer)
          /\ \A k \in 1 .. Len(Tail(all)) : Tail(all)[k] = all[k + 1]
      BY <2>1, <2>3, HeadTailProperties, EmptySeq
    <3>2. \A k \in 1 .. Len(buffer) : Tail(all)[k] = Len(logged) + 1 - Len(buffer) + k
      BY <2>1, <2>3, <3>1, SMTT(30)
    <3>3. Len(buffer') = Len(buffer) /\ Len(buffer) = BufferSize
      BY <2>1, <2>3, <2>4, <2>5, <3>1 DEF BufferIsNewest
    <3>4. buffer' = Tail(all) /\ Len(logged') - Len(buffer') = Len(logged) + 1 - Len(buffer)
      <4>1. buffer' = Tail(all)
        BY <2>4, <2>5
      <4> QED  BY <2>1, <2>2, <3>3, <4>1
    <3>5. \A k \in 1 .. Len(buffer') : buffer'[k] = Len(logged') - Len(buffer') + k
      BY <2>1, <3>2, <3>3, <3>4
    <3>6. Len(buffer') <= BufferSize /\ Len(buffer') <= Len(logged') /\ Len(buffer') = BufferSize
      BY <2>1, <2>2, <3>3 DEF BufferIsNewest
    <3>7. BufferIsNewest'
      BY <3>5, <3>6 DEF BufferIsNewest
    <3> QED  BY <1>1, <2>2, <3>1, <3>4, <3>7 DEF AuditTypeOK, Log
  <2>6. CASE ~(Len(all) > BufferSize)
    <3>1. buffer' = all /\ Len(buffer) = Len(logged)
      BY <2>1, <2>3, <2>4, <2>6 DEF BufferIsNewest
    <3>2. BufferIsNewest'
      BY <2>1, <2>2, <2>3, <2>6, <3>1 DEF BufferIsNewest
    <3> QED  BY <1>1, <2>2, <2>3, <3>1, <3>2 DEF AuditTypeOK, Log
  <2> QED  BY <2>5, <2>6
<1>2. ASSUME NEW accepted \in BOOLEAN, Tick(accepted)
      PROVE  AuditTypeOK' /\ BufferIsNewest'
  <2>1. ToSet(Recent(Batch)) \subseteq Nat
    <3>1. Batch \in Nat /\ Len(logged) \in Nat
      BY DEF AuditAssumption, AuditTypeOK
    <3> QED  BY <3>1, RecentFacts
  <2> QED  BY <1>2, <2>1 DEF Tick, AuditTypeOK, BufferIsNewest
<1>3. ASSUME StartLoop \/ StopLoop \/ UNCHANGED auditVars
      PROVE  AuditTypeOK' /\ BufferIsNewest'
  BY <1>3 DEF StartLoop, StopLoop, auditVars, AuditTypeOK, BufferIsNewest
<1> QED  BY <1>1, <1>2, <1>3 DEF AuditStep
\* The slow path keeps its types, and notes each synthesis for its bucket.
LEMMA SlowKept ==
    ASSUME AuditAssumption, SlowAssumption, AuditTypeOK, BufferIsNewest, SlowTypeOK,
           SynthesesNoted, SlowStep \/ UNCHANGED slowVars
    PROVE  SlowTypeOK' /\ SynthesesNoted'
<1> DEFINE State == {"starting", "running", "stopped"}
<1>0. /\ loops \in Seq(State) /\ Len(loops) \in Nat
      /\ task \in [Task -> [at : Places, loop : Nat]]
      /\ found \in [Task -> Decisions] /\ lastSynth \in [Buckets -> Int]
      /\ now \in Nat /\ counter \in Nat
  BY DEF SlowTypeOK
<1>1. ASSUME NEW c, SlowSubmit(c)
      PROVE  SlowTypeOK' /\ SynthesesNoted'
  <2>1. loops' \in Seq(State)
    <3>1. Append(loops, "starting") \in Seq(State)
      <4>1. "starting" \in State /\ loops \in Seq(State)
        BY <1>0
      <4> HIDE DEF State
      <4> QED  BY <4>1, AppendProperties
    <3> HIDE DEF State
    <3>2. loops' = loops \/ loops' = Append(loops, "starting")
      BY <1>1 DEF SlowSubmit
    <3> QED  BY <1>0, <3>1, <3>2
  <2>2. Len(loops') \in Nat
    BY <2>1
  <2>3. task' \in [Task -> [at : Places, loop : Nat]]
    <3> DEFINE new == [at |-> "queued", loop |-> Len(loops')]
    <3>1. new \in [at : Places, loop : Nat]
      BY <2>2 DEF Places
    <3> HIDE DEF new
    <3>2. task' = [task EXCEPT ![c] = new] \/ task' = task
      BY <1>1 DEF SlowSubmit, new
    <3> QED  BY <1>0, <3>1, <3>2
  <2> QED  BY <1>1, <2>1, <2>3 DEF SlowSubmit, SlowTypeOK, SynthesesNoted
<1>2. ASSUME NEW l \in DOMAIN loops, LoopRuns(l)
      PROVE  SlowTypeOK' /\ SynthesesNoted'
  <2>1. loops' \in Seq(State)
    BY <1>0, <1>2, ExceptSeq DEF LoopRuns
  <2> QED  BY <1>2, <2>1 DEF LoopRuns, SlowTypeOK, SynthesesNoted
<1>3. ASSUME SlowClose
      PROVE  SlowTypeOK' /\ SynthesesNoted'
  <2>1. loops' \in Seq(State)
    <3>1. CASE Running
      <4>1. Len(loops) \in 1 .. Len(loops)
        BY <1>0, <3>1, EmptySeq DEF Running
      <4> QED  BY <1>0, <1>3, <3>1, <4>1, ExceptSeq DEF SlowClose
    <3> QED  BY <1>0, <1>3, <3>1 DEF SlowClose
  <2> QED  BY <1>3, <2>1 DEF SlowClose, SlowTypeOK, SynthesesNoted
<1>4. ASSUME Detach \/ Elapse \/ UNCHANGED slowVars
      PROVE  SlowTypeOK' /\ SynthesesNoted'
  <2>1. UNCHANGED <<loops, task, found, counter, lastSynth, synths, dynamic>>
    BY <1>4 DEF Detach, Elapse, slowVars
  <2>2. now' \in Nat /\ now' >= now /\ attached' \in BOOLEAN
    <3>1. now' = now \/ now' = now + 1
      BY <1>4 DEF Detach, Elapse, slowVars
    <3>2. attached' \in BOOLEAN
      BY <1>4 DEF Detach, Elapse, slowVars, SlowTypeOK
    <3> QED  BY <1>0, <3>1, <3>2
  <2>3. SlowTypeOK'
    BY <2>1, <2>2 DEF SlowTypeOK
  <2>4. SynthesesNoted'
    <3> SUFFICES ASSUME NEW x \in synths
                 PROVE  x[2] <= now' /\ x[2] <= lastSynth[BucketOf[x[1]]]
      BY <2>1 DEF SynthesesNoted
    <3>1. x[2] \in Nat /\ x[2] <= now /\ x[2] <= lastSynth[BucketOf[x[1]]]
      BY DEF SynthesesNoted, SlowTypeOK
    <3> QED  BY <1>0, <2>2, <3>1
  <2> QED  BY <2>3, <2>4
<1>5. ASSUME NEW c \in Task, LookUp(c)
      PROVE  SlowTypeOK' /\ SynthesesNoted'
  <2>1. LatestDecision(c) \in Decisions /\ "none" \in Decisions
    BY LatestDecisionFacts DEF Decisions
  <2>2. found' \in [Task -> Decisions]
    BY <1>0, <1>5, <2>1 DEF LookUp
  <2>3. task' \in [Task -> [at : Places, loop : Nat]]
    <3>1. task[c] \in [at : Places, loop : Nat]
      BY <1>0
    <3>2. \A p \in {"found", "missed", "done"} :
              [task EXCEPT ![c].at = p] \in [Task -> [at : Places, loop : Nat]]
      BY <1>0, <3>1 DEF Places
    <3> QED  BY <1>5, <3>2 DEF LookUp
  <2> QED  BY <1>5, <2>2, <2>3 DEF LookUp, SlowTypeOK, SynthesesNoted
<1>6. ASSUME NEW c \in Task, Judge(c)
      PROVE  SlowTypeOK' /\ SynthesesNoted'
  <2> DEFINE b == BucketOf[c]
             fires == ShouldFire(c, counter') /\ now - lastSynth[b] >= Cooldown
  <2>1. /\ counter' = counter + 1 /\ UNCHANGED <<attached, loops, found, dynamic, now>>
        /\ lastSynth' = IF fires THEN [lastSynth EXCEPT ![b] = now] ELSE lastSynth
        /\ synths' = IF fires THEN synths \cup {<<c, now>>} ELSE synths
        /\ task' = [task EXCEPT ![c].at = IF fires THEN "synth" ELSE "done"]
    BY <1>6 DEF Judge
  <2>2. b \in Buckets /\ Cooldown \in Nat
    BY DEF Buckets, SlowAssumption
  <2> HIDE DEF fires
  <2>3. task' \in [Task -> [at : Places, loop : Nat]]
    <3>1. \A p \in {"synth", "done"} :
              [task EXCEPT ![c].at = p] \in [Task -> [at : Places, loop : Nat]]
      BY <1>0 DEF Places
    <3> QED  BY <2>1, <3>1
  <2>4. CASE fires
    <3>1. lastSynth' \in [Buckets -> Int] /\ lastSynth' = [lastSynth EXCEPT ![b] = now]
      BY <1>0, <2>1, <2>2, <2>4
    <3>2. synths' = synths \cup {<<c, now>>} /\ synths' \subseteq Task \X Nat
      BY <1>0, <2>1, <2>4 DEF SlowTypeOK
    <3>3. SlowTypeOK'
      <4>1. counter' \in Nat
        BY <1>0, <2>1
      <4>2. /\ attached' \in BOOLEAN /\ dynamic' \subseteq NewRules /\ now' \in Nat
            /\ loops' \in Seq({"starting", "running", "stopped"})
            /\ found' \in [Task -> Decisions]
        BY <2>1 DEF SlowTypeOK
      <4> QED  BY <2>3, <3>1, <3>2, <4>1, <4>2 DEF SlowTypeOK
    <3>4. ASSUME NEW x \in synths'
          PROVE  x[2] <= now /\ x[2] <= lastSynth'[BucketOf[x[1]]]
      <4>1. CASE x = <<c, now>>
        BY <1>0, <2>2, <3>1, <4>1
      <4>2. CASE x \in synths
        <5>1. x[1] \in Task /\ x[2] \in Nat /\ BucketOf[x[1]] \in Buckets
          BY <4>2 DEF SlowTypeOK, Buckets
        <5>2. x[2] <= now /\ x[2] <= lastSynth[BucketOf[x[1]]]
          BY <4>2 DEF SynthesesNoted
        <5>3. CASE BucketOf[x[1]] = b
          BY <1>0, <2>2, <3>1, <5>2, <5>3
        <5>4. CASE BucketOf[x[1]] # b
          BY <1>0, <2>2, <3>1, <5>1, <5>2, <5>4
        <5> QED  BY <5>3, <5>4
      <4> QED  BY <3>2, <4>1, <4>2
    <3> QED  BY <2>1, <3>3, <3>4 DEF SynthesesNoted
  <2>5. CASE ~fires
    <3>1. UNCHANGED <<synths, lastSynth>>
      BY <2>1, <2>5
    <3>2. counter' \in Nat
      BY <1>0, <2>1
    <3>3. SlowTypeOK'
      BY <2>1, <2>3, <3>1, <3>2 DEF SlowTypeOK
    <3>4. SynthesesNoted'
      BY <2>1, <3>1 DEF SynthesesNoted
    <3> QED  BY <3>3, <3>4
  <2> QED  BY <2>4, <2>5
<1>7. ASSUME NEW c \in Task, NEW rule \in NewRules, Synthesized(c, rule)
      PROVE  SlowTypeOK' /\ SynthesesNoted'
  <2>1. task' \in [Task -> [at : Places, loop : Nat]]
    BY <1>0, <1>7 DEF Synthesized, Places
  <2>2. dynamic' \subseteq NewRules
    BY <1>7 DEF Synthesized, SlowTypeOK
  <2> QED  BY <1>7, <2>1, <2>2 DEF Synthesized, SlowTypeOK, SynthesesNoted
<1> QED  BY <1>1, <1>2, <1>3, <1>4, <1>5, <1>6, <1>7 DEF SlowStep, HookStep
-----------------------------------------------------------------------------
(* What the slow path promises.                                            *)

SlowInv == AuditTypeOK /\ BufferIsNewest /\ SlowTypeOK /\ SynthesesNoted

\* Two syntheses of a bucket are a cooldown apart: the later one found the time
\* of the earlier one noted.
LEMMA CooldownKept ==
    ASSUME SlowAssumption, SlowTypeOK, SynthesesNoted, OneSynthesisPerCooldown,
           SlowStep \/ UNCHANGED slowVars
    PROVE  OneSynthesisPerCooldown'
<1>1. CASE UNCHANGED synths
  BY <1>1 DEF OneSynthesisPerCooldown
<1>2. ASSUME NEW c \in Task, Judge(c), synths' # synths
      PROVE  OneSynthesisPerCooldown'
  <2> DEFINE b == BucketOf[c]
  <2>1. synths' = synths \cup {<<c, now>>} /\ now - lastSynth[b] >= Cooldown
    BY <1>2 DEF Judge
  <2>2. now \in Nat /\ Cooldown \in Nat /\ lastSynth[b] \in Int
    BY DEF SlowTypeOK, SlowAssumption, Buckets
  <2>3. ASSUME NEW x \in synths, BucketOf[x[1]] = b
        PROVE  x[2] \in Nat /\ now - x[2] >= Cooldown
    <3>1. x[2] \in Nat /\ x[2] <= lastSynth[b]
      BY <2>3 DEF SynthesesNoted, SlowTypeOK
    <3> QED  BY <2>1, <2>2, <3>1
  <2>4. ASSUME NEW x \in synths', NEW y \in synths', x # y, BucketOf[x[1]] = BucketOf[y[1]]
        PROVE  x[2] - y[2] >= Cooldown \/ y[2] - x[2] >= Cooldown
    <3>1. CASE x \in synths /\ y \in synths
      BY <2>4, <3>1 DEF OneSynthesisPerCooldown
    <3>2. CASE x = <<c, now>> /\ y \in synths
      BY <2>3, <2>4, <3>2
    <3>3. CASE x \in synths /\ y = <<c, now>>
      BY <2>3, <2>4, <3>3
    <3> QED  BY <2>1, <2>4, <3>1, <3>2, <3>3
  <2> QED  BY <2>4 DEF OneSynthesisPerCooldown
<1>3. ASSUME synths' # synths
      PROVE  \E c \in Task : Judge(c)
  BY <1>3 DEF SlowStep, slowVars, SlowSubmit, LoopRuns, HookStep, LookUp, Synthesized, Elapse,
              SlowClose, Detach
<1> QED  BY <1>1, <1>2, <1>3

\* A call is passed over only where the window shows no decision on it.
LEMMA MissedByWindow ==
    ASSUME AuditAssumption, SlowAssumption, AuditTypeOK, BufferIsNewest, SlowTypeOK,
           SlowStep \/ UNCHANGED slowVars, NEW c \in Task,
           task[c].at # "missed", task'[c].at = "missed",
           NEW i \in DOMAIN logged, logged[i].call = c, logged[i].decision # "none"
    PROVE  Len(logged) - i >= Min({Window, BufferSize})
<1>1. task \in [Task -> [at : Places, loop : Nat]]
  BY DEF SlowTypeOK
<1>2. LookUp(c)
  <2>1. ASSUME NEW p, NEW d \in Task, p # "missed", task' = [task EXCEPT ![d].at = p]
        PROVE  FALSE
    BY <1>1, <2>1
  <2>2. ASSUME NEW d, SlowSubmit(d)
        PROVE  FALSE
    BY <1>1, <2>2 DEF SlowSubmit
  <2>3. ASSUME NEW d \in Task, Judge(d)
        PROVE  FALSE
    <3> DEFINE fires == ShouldFire(d, counter') /\ now - lastSynth[BucketOf[d]] >= Cooldown
    <3>1. task' = [task EXCEPT ![d].at = IF fires THEN "synth" ELSE "done"]
      BY <2>3 DEF Judge
    <3> HIDE DEF fires
    <3> QED  BY <2>1, <3>1
  <2>4. ASSUME NEW d \in Task, NEW rule \in NewRules, Synthesized(d, rule)
        PROVE  FALSE
    BY <2>1, <2>4 DEF Synthesized
  <2>5. ASSUME NEW d \in Task, LookUp(d), d # c
        PROVE  FALSE
    BY <1>1, <2>5 DEF LookUp
  <2>6. task' # task
    OBVIOUS
  <2> QED  BY <2>2, <2>3, <2>4, <2>5, <2>6
           DEF SlowStep, slowVars, LoopRuns, HookStep, Elapse, SlowClose, Detach
<1>3. LatestDecision(c) = "none"
  BY <1>1, <1>2 DEF LookUp
<1>4. i \notin ToSet(Recent(Window))
  BY <1>3, LatestDecisionFacts
<1>5. /\ Window \in Nat /\ BufferSize \in Nat /\ Len(logged) \in Nat
      /\ i \in 1 .. Len(logged)
  BY DEF SlowAssumption, AuditAssumption, AuditTypeOK
<1>6. ~(Len(logged) - i < Window /\ Len(logged) - i < BufferSize)
  BY <1>4, <1>5, RecentFacts
<1>7. /\ Min({Window, BufferSize}) \in {Window, BufferSize}
      /\ Min({Window, BufferSize}) <= Window /\ Min({Window, BufferSize}) <= BufferSize
  BY <1>5, MinFacts
<1> DEFINE least == Min({Window, BufferSize})
<1> HIDE DEF least
<1> QED  BY <1>5, <1>6, <1>7 DEF least
-----------------------------------------------------------------------------
(* The callers.                                                            *)

\* A call with a number a thread may reach is one of the calls.
LEMMA CallFacts ==
    ASSUME CallerAssumption, NEW t \in Thread
    PROVE  /\ MaxCalls[t] \in Nat \ {0}
           /\ \A n \in 1 .. MaxCalls[t] : <<t, n>> \in Call /\ <<t, n>> \in Task
  BY DEF CallerAssumption

\* Every call has a thread, a number and a session.
LEMMA SessionFacts ==
    ASSUME CallerAssumption, NEW c \in Call
    PROVE  /\ SessionOf[c] \in Sessions /\ c[1] \in Thread /\ c[2] \in Nat \ {0}
           /\ c = <<c[1], c[2]>>
  BY DEF CallerAssumption, Sessions

\* The numbers of a thread's calls.
LEMMA NumberFacts ==
    ASSUME CallerTypeOK, NEW t \in Thread
    PROVE  /\ made[t] \in Nat /\ Attempted(t) \in Nat /\ Submitted(t) \in Nat
           /\ made[t] <= Submitted(t) /\ Submitted(t) <= Attempted(t)
           /\ Attempted(t) <= made[t] + 1
           /\ pc[t] \in Between => Attempted(t) = made[t]
           /\ pc[t] \notin Between => Attempted(t) = made[t] + 1 /\ CallOf(t) = <<t, Attempted(t)>>
           /\ pc[t] \in Handed => Submitted(t) = made[t] + 1
           /\ pc[t] \notin Handed => Submitted(t) = made[t]
           /\ Submitted(t) # Attempted(t) => pc[t] = "traced"
<1>1. made[t] \in Nat /\ (pc[t] \in Handed => pc[t] \notin Between)
      /\ (pc[t] \notin Handed /\ pc[t] \notin Between => pc[t] = "traced")
  BY DEF CallerTypeOK, Handed, Between
<1>2. Submitted(t) = made[t] + IF pc[t] \in Handed THEN 1 ELSE 0
  BY DEF Submitted, Handed
<1> QED  BY <1>1, <1>2 DEF Attempted, CallOf

\* A call that began is one of the calls.
LEMMA BegunFacts ==
    ASSUME CallerAssumption, CallerTypeOK, CallsBounded, NEW t \in Thread, pc[t] \notin Between
    PROVE  CallOf(t) \in Call /\ CallOf(t) = <<t, Attempted(t)>>
<1>1. Attempted(t) = made[t] + 1 /\ CallOf(t) = <<t, Attempted(t)>> /\ made[t] \in Nat
  BY NumberFacts
<1>2. Attempted(t) \in 1 .. MaxCalls[t]
  BY <1>1, CallFacts DEF CallsBounded
<1> QED  BY <1>1, <1>2, CallFacts

\* What moves the counters: an attempt, and its way to the graph writer.
LEMMA CountersMove ==
    ASSUME CallerTypeOK, [Next]_vars, NEW u \in Thread
    PROVE  /\ made'[u] \in Nat
           /\ \/ Attempted(u)' = Attempted(u)
              \/ pc[u] = "idle" /\ Attempted(u)' = Attempted(u) + 1
                 /\ \E v \in Verdict : Attempt(u, v)
           /\ \/ Submitted(u)' = Submitted(u)
              \/ Submitted(u)' = Submitted(u) + 1 /\ ToGraph(u)
<1>1. made \in [Thread -> Nat] /\ made[u] \in Nat
      /\ pc \in [Thread -> {"idle", "traced", "submitted", "dispatched", "logged",
                            "resulted", "flushing", "flushed"}]
  BY DEF CallerTypeOK
<1>2. ASSUME pc'[u] = pc[u], made'[u] = made[u]
      PROVE  Attempted(u)' = Attempted(u) /\ Submitted(u)' = Submitted(u)
  BY <1>2 DEF Attempted, Submitted
<1>3. ASSUME ClearSession \/ Close \/ ActorStops \/ Behind \/ UNCHANGED vars
      PROVE  pc' = pc /\ made' = made
  BY <1>3 DEF ClearSession, Close, ActorStops, Behind, callerVars, vars
<1>4. ASSUME NEW t \in Thread, Caller(t), t # u
      PROVE  pc'[u] = pc[u] /\ made'[u] = made[u]
  BY <1>1, <1>4 DEF Caller, Attempt, ToGraph, ToSlowPath, LogAttempt, ResultToGraph, LogResult,
              Flush, Flushed
<1>5. ASSUME NEW v \in Verdict, Attempt(u, v)
      PROVE  /\ pc[u] = "idle" /\ made'[u] = made[u]
             /\ Attempted(u)' = Attempted(u) + 1 /\ Submitted(u)' = Submitted(u)
  <2>1. pc[u] = "idle" /\ pc'[u] = "traced" /\ made'[u] = made[u]
    BY <1>1, <1>5 DEF Attempt
  <2> QED  BY <1>1, <2>1 DEF Attempted, Submitted, Between, Handed
<1>6. ASSUME ToGraph(u)
      PROVE  /\ made'[u] = made[u]
             /\ Attempted(u)' = Attempted(u) /\ Submitted(u)' = Submitted(u) + 1
  <2>1. pc[u] = "traced" /\ pc'[u] = "submitted" /\ made'[u] = made[u]
    BY <1>1, <1>6 DEF ToGraph
  <2> QED  BY <1>1, <2>1 DEF Attempted, Submitted, Between, Handed
<1>7. ASSUME ToSlowPath(u) \/ LogAttempt(u) \/ ResultToGraph(u)
      PROVE  /\ made'[u] = made[u]
             /\ Attempted(u)' = Attempted(u) /\ Submitted(u)' = Submitted(u)
  <2>1. /\ pc[u] \in {"submitted", "dispatched", "logged"}
        /\ pc'[u] \in {"dispatched", "logged", "resulted"} /\ made'[u] = made[u]
    BY <1>1, <1>7 DEF ToSlowPath, LogAttempt, ResultToGraph
  <2> QED  BY <1>1, <2>1 DEF Attempted, Submitted, Between, Handed
<1>8. ASSUME LogResult(u)
      PROVE  /\ made'[u] \in Nat
             /\ Attempted(u)' = Attempted(u) /\ Submitted(u)' = Submitted(u)
  <2>1. pc[u] = "resulted" /\ pc'[u] = "idle" /\ made'[u] = made[u] + 1
    BY <1>1, <1>8 DEF LogResult
  <2> QED  BY <1>1, <2>1 DEF Attempted, Submitted, Between, Handed
<1>9. ASSUME Flush(u) \/ Flushed(u)
      PROVE  /\ made'[u] = made[u]
             /\ Attempted(u)' = Attempted(u) /\ Submitted(u)' = Submitted(u)
  <2>1. /\ pc[u] \in {"idle", "flushing"} /\ pc'[u] \in {"flushing", "flushed"}
        /\ made'[u] = made[u]
    BY <1>1, <1>9 DEF Flush, Flushed
  <2> QED  BY <1>1, <2>1 DEF Attempted, Submitted, Between, Handed
<1>10. ASSUME Caller(u)
       PROVE  /\ made'[u] \in Nat
              /\ \/ Attempted(u)' = Attempted(u)
                 \/ pc[u] = "idle" /\ Attempted(u)' = Attempted(u) + 1
                    /\ \E v \in Verdict : Attempt(u, v)
              /\ \/ Submitted(u)' = Submitted(u)
                 \/ Submitted(u)' = Submitted(u) + 1 /\ ToGraph(u)
  BY <1>1, <1>5, <1>6, <1>7, <1>8, <1>9, <1>10 DEF Caller
<1> QED  BY <1>1, <1>2, <1>3, <1>4, <1>10 DEF Next
\* What an attempt leaves of the trace of its session: everything, or all but the
\* oldest call, and behind it the new one.
LEMMA Tracing ==
    ASSUME CallerAssumption, CallerTypeOK, NEW t \in Thread, NEW v, Attempt(t, v), CallOf(t) \in Call
    PROVE  LET c == CallOf(t)
               s == SessionOf[c]
           IN /\ trace' \in [Sessions -> Seq(Call)] /\ gone' \subseteq Call
              /\ \A r \in Sessions : r # s => trace'[r] = trace[r]
              /\ \E d \in {0, 1} :
                     /\ Len(trace[s]) \in Nat /\ d <= Len(trace[s])
                     /\ Len(trace'[s]) = Len(trace[s]) - d + 1
                     /\ \A k \in 1 .. Len(trace[s]) - d : trace'[s][k] = trace[s][k + d]
                     /\ trace'[s][Len(trace[s]) - d + 1] = c
                     /\ gone' = IF d = 1 THEN gone \cup {trace[s][1]} ELSE gone
<1> DEFINE c == CallOf(t)
           s == SessionOf[c]
           full == Len(trace[s]) = TraceCap
           kept == IF full THEN Tail(trace[s]) ELSE trace[s]
<1>1. /\ trace' = [trace EXCEPT ![s] = Append(kept, c)]
      /\ gone' = IF full THEN gone \cup {Head(trace[s])} ELSE gone
  BY DEF Attempt
<1>2. s \in Sessions /\ c \in Call /\ trace \in [Sessions -> Seq(Call)] /\ trace[s] \in Seq(Call)
      /\ Len(trace[s]) \in Nat /\ gone \subseteq Call /\ TraceCap \in Nat \ {0}
  <2>1. s \in Sessions /\ trace \in [Sessions -> Seq(Call)]
    BY SessionFacts DEF CallerTypeOK
  <2> QED  BY <2>1 DEF CallerTypeOK, CallerAssumption
<1> DEFINE d == IF full THEN 1 ELSE 0
           old == trace[s]
<1>3. /\ kept \in Seq(Call) /\ Len(kept) = Len(old) - d /\ d <= Len(old)
      /\ \A k \in 1 .. Len(old) - d : kept[k] = old[k + d]
      /\ full => Head(old) = old[1] /\ Head(old) \in Call
  <2>1. CASE full
    <3>1. old # <<>>
      BY <1>2, <2>1
    <3>2. /\ Tail(old) \in Seq(Call) /\ Len(Tail(old)) = Len(old) - 1
          /\ \A k \in 1 .. Len(Tail(old)) : Tail(old)[k] = old[k + 1]
          /\ Head(old) = old[1] /\ Head(old) \in Call
      BY <1>2, <3>1, HeadTailProperties
    <3> QED  BY <1>2, <2>1, <3>2
  <2>2. CASE ~full
    BY <1>2, <2>2
  <2> QED  BY <2>1, <2>2
<1> HIDE DEF kept, full, c, s
<1>4. /\ Append(kept, c) \in Seq(Call) /\ Len(Append(kept, c)) = Len(kept) + 1
      /\ \A k \in 1 .. Len(kept) : Append(kept, c)[k] = kept[k]
      /\ Append(kept, c)[Len(kept) + 1] = c
  <2>1. kept \in Seq(Call) /\ c \in Call
    BY <1>2, <1>3
  <2> HIDE DEF d, old
  <2> QED  BY <2>1, AppendProperties
<1>5. trace'[s] = Append(kept, c) /\ \A r \in Sessions : r # s => trace'[r] = trace[r]
  BY <1>1, <1>2
<1>6. trace' \in [Sessions -> Seq(Call)]
  BY <1>1, <1>2, <1>4
<1>7. gone' \subseteq Call /\ gone' = IF d = 1 THEN gone \cup {old[1]} ELSE gone
  BY <1>1, <1>2, <1>3
<1>8. d \in {0, 1} /\ Len(old) \in Nat
  BY <1>2
<1>9. /\ Len(trace'[s]) = Len(old) - d + 1 /\ trace'[s][Len(old) - d + 1] = c
      /\ \A k \in 1 .. Len(old) - d : trace'[s][k] = old[k + d]
  BY <1>3, <1>4, <1>5
<1> HIDE DEF d
<1> QED  BY <1>3, <1>5, <1>6, <1>7, <1>8, <1>9 DEF c, s

\* The callers keep their types, stay within their bounds, and flush only the
\* graph writer of this process.
LEMMA CallersKept ==
    ASSUME CallerAssumption, CallerTypeOK, CallsBounded, FlushesLocally, [Next]_vars
    PROVE  /\ CallerTypeOK' /\ CallsBounded' /\ FlushesLocally'
           /\ \A t \in Thread : \A v \in Verdict : Attempt(t, v) => CallOf(t) \in Call
<1> DEFINE PCs == {"idle", "traced", "submitted", "dispatched", "logged", "resulted",
                   "flushing", "flushed"}
<1>0. /\ pc \in [Thread -> PCs] /\ made \in [Thread -> Nat]
      /\ decision \in [Thread -> Decisions] /\ trace \in [Sessions -> Seq(Call)]
      /\ before \in [Call -> SUBSET Call]
      /\ stats \in [total : Nat, refused : Nat]
      /\ closing \in {"open", "detached", "sentinel", "closed"} /\ gone \subseteq Call
      /\ stops \in Nat
  BY DEF CallerTypeOK
<1>1. ASSUME NEW t \in Thread, NEW v \in Verdict, Attempt(t, v)
      PROVE  CallOf(t) \in Call /\ made[t] + 1 \in 1 .. MaxCalls[t]
  <2>1. made[t] < MaxCalls[t] /\ made[t] \in Nat /\ MaxCalls[t] \in Nat
    BY <1>0, <1>1, CallFacts DEF Attempt
  <2>2. made[t] + 1 \in 1 .. MaxCalls[t]
    BY <2>1
  <2> QED  BY <2>2, CallFacts DEF CallOf
<1>2. pc' \in [Thread -> PCs]
  <2>1. pc' = pc \/ \E t \in Thread : \E at \in PCs : pc' = [pc EXCEPT ![t] = at]
    BY DEF Next, Caller, Attempt, ToGraph, ToSlowPath, LogAttempt, ResultToGraph, LogResult,
           Flush, Flushed, ClearSession, Close, ActorStops, Behind, vars, callerVars
  <2> HIDE DEF PCs
  <2> QED  BY <1>0, <2>1
<1>3. made' \in [Thread -> Nat]
  <2>1. made' = made \/ \E t \in Thread : made' = [made EXCEPT ![t] = @ + 1]
    BY DEF Next, Caller, Attempt, ToGraph, ToSlowPath, LogAttempt, ResultToGraph, LogResult,
           Flush, Flushed, ClearSession, Close, ActorStops, Behind, vars, callerVars
  <2>2. ASSUME NEW t \in Thread
        PROVE  [made EXCEPT ![t] = @ + 1] \in [Thread -> Nat]
    <3>1. made[t] + 1 \in Nat
      BY <1>0
    <3> QED  BY <1>0, <3>1
  <2>3. CASE \E t \in Thread : made' = [made EXCEPT ![t] = @ + 1]
    <3>1. PICK t \in Thread : made' = [made EXCEPT ![t] = @ + 1]
      BY <2>3
    <3>2. [made EXCEPT ![t] = @ + 1] \in [Thread -> Nat]
      BY <2>2
    <3> QED  BY <3>1, <3>2
  <2> QED  BY <1>0, <2>1, <2>3
<1>4. decision' \in [Thread -> Decisions]
  <2>1. decision' = decision \/
        \E t \in Thread : \E v \in Verdict : decision' = [decision EXCEPT ![t] = v]
    BY DEF Next, Caller, Attempt, ToGraph, ToSlowPath, LogAttempt, ResultToGraph, LogResult,
           Flush, Flushed, ClearSession, Close, ActorStops, Behind, vars, callerVars
  <2> QED  BY <1>0, <2>1 DEF Decisions
<1>5. trace' \in [Sessions -> Seq(Call)] /\ gone' \subseteq Call
      /\ before' \in [Call -> SUBSET Call]
  <2>1. ASSUME NEW t \in Thread, NEW v \in Verdict, Attempt(t, v)
        PROVE  /\ trace' \in [Sessions -> Seq(Call)] /\ gone' \subseteq Call
               /\ before' \in [Call -> SUBSET Call]
    <3> DEFINE c == CallOf(t)
               s == SessionOf[c]
    <3>1. c \in Call /\ s \in Sessions
      BY <1>1, <2>1, SessionFacts
    <3>2. HandedOn \in SUBSET Call
      BY DEF HandedOn
    <3>3. before' = [before EXCEPT ![c] = HandedOn]
      BY <2>1 DEF Attempt
    <3> QED  BY <1>0, <2>1, <3>1, <3>2, <3>3, Tracing
  <2>2. ASSUME ClearSession
        PROVE  /\ trace' \in [Sessions -> Seq(Call)] /\ gone' \subseteq Call
               /\ before' = before
    <3>1. << >> \in Seq(Call)
      OBVIOUS
    <3>2. \A s \in Sessions : ToSet(trace[s]) \subseteq Call
      <4>1. \A s \in Sessions : trace[s] \in Seq(Call)
        BY <1>0
      <4> QED  BY <4>1 DEF ToSet
    <3> QED  BY <1>0, <2>2, <3>1, <3>2 DEF ClearSession
  <2>3. \/ UNCHANGED <<trace, gone, before>> \/ ClearSession
        \/ \E t \in Thread : \E v \in Verdict : Attempt(t, v)
    BY DEF Next, Caller, ToGraph, ToSlowPath, LogAttempt, ResultToGraph, LogResult,
           Flush, Flushed, Close, ActorStops, Behind, vars, callerVars
  <2> QED  BY <1>0, <2>1, <2>2, <2>3
<1>6. stats' \in [total : Nat, refused : Nat]
  <2>1. stats' = stats \/ \E t \in Thread : stats' = Counted(decision[t])
    BY DEF Next, Caller, Attempt, ToGraph, ToSlowPath, LogAttempt, ResultToGraph, LogResult,
           Flush, Flushed, ClearSession, Close, ActorStops, Behind, vars, callerVars
  <2>2. \A d : Counted(d) \in [total : Nat, refused : Nat]
    BY <1>0 DEF Counted
  <2> QED  BY <1>0, <2>1, <2>2
<1>7. closing' \in {"open", "detached", "sentinel", "closed"}
  <2>1. closing' = closing \/ closing' \in {"detached", "sentinel", "closed"}
    BY DEF Next, Caller, Attempt, ToGraph, ToSlowPath, LogAttempt, ResultToGraph, LogResult,
           Flush, Flushed, ClearSession, Close, ActorStops, Behind, vars, callerVars
  <2> QED  BY <1>0, <2>1
<1>11. stops' \in Nat
  <2>1. stops' \in {stops, stops + 1}
    BY DEF Next, Caller, Attempt, ToGraph, ToSlowPath, LogAttempt, ResultToGraph, LogResult,
           Flush, Flushed, ClearSession, Close, ActorStops, Behind, vars, callerVars
  <2> QED  BY <1>0, <2>1
<1>8. CallerTypeOK'
  BY <1>2, <1>3, <1>4, <1>5, <1>6, <1>7, <1>11 DEF CallerTypeOK
<1>9. CallsBounded'
  <2> SUFFICES ASSUME NEW t \in Thread PROVE Attempted(t)' <= MaxCalls[t]
    BY DEF CallsBounded
  <2>1. Attempted(t) <= MaxCalls[t]
    BY DEF CallsBounded
  <2>2. CASE Attempted(t)' = Attempted(t)
    BY <2>1, <2>2
  <2>3. CASE pc[t] = "idle" /\ Attempted(t)' = Attempted(t) + 1
             /\ \E v \in Verdict : Attempt(t, v)
    <3>1. Attempted(t) = made[t] /\ made[t] + 1 \in 1 .. MaxCalls[t]
      BY <1>1, <2>3, NumberFacts DEF Between
    <3> QED  BY <1>0, <2>3, <3>1, CallFacts
  <2> QED  BY <2>2, <2>3, CountersMove
<1>10. FlushesLocally'
  <2>1. \A t \in Thread : pc'[t] \in {"flushing", "flushed"} =>
                              LocalGraph \/ pc[t] \in {"flushing", "flushed"}
    BY <1>0, ZenonT(30) DEF Next, Caller, Attempt, ToGraph, ToSlowPath, LogAttempt, ResultToGraph, LogResult,
                Flush, Flushed, ClearSession, Close, ActorStops, Behind, vars, callerVars
  <2> QED  BY <2>1 DEF FlushesLocally
<1> QED  BY <1>1, <1>8, <1>9, <1>10

\* An attempt is of one of the calls.
LEMMA AttemptedIsCall ==
    ASSUME CallerAssumption, CallerTypeOK, NEW t \in Thread, NEW v \in Verdict, Attempt(t, v)
    PROVE  CallOf(t) \in Call
<1>1. made[t] < MaxCalls[t] /\ made[t] \in Nat /\ MaxCalls[t] \in Nat
  BY CallFacts, NumberFacts DEF Attempt
<1>2. made[t] + 1 \in 1 .. MaxCalls[t]
  BY <1>1
<1> QED  BY <1>2, CallFacts DEF CallOf

\* The calls begun and the calls handed on grow by the call of an attempt and of
\* its way to the graph writer, and by nothing else.
LEMMA Growing ==
    ASSUME CallerAssumption, CallerTypeOK, CallsBounded, [Next]_vars
    PROVE  /\ HandedOn \subseteq Begun /\ HandedOn \subseteq HandedOn' /\ Begun \subseteq Begun'
           /\ \A t \in Thread : \A v \in Verdict : Attempt(t, v) =>
                  CallOf(t) \in Call \ Begun /\ Begun' = Begun \cup {CallOf(t)}
           /\ \/ Begun' = Begun
              \/ \E t \in Thread : \E v \in Verdict : Attempt(t, v)
           /\ \A t \in Thread : LocalGraph /\ ToGraph(t) =>
                  CallOf(t) \in Call \ HandedOn /\ HandedOn' = HandedOn \cup {CallOf(t)}
           /\ \/ HandedOn' = HandedOn
              \/ LocalGraph /\ \E t \in Thread : ToGraph(t)
<1>0. \A c \in Call : /\ c[1] \in Thread /\ c[2] \in Nat \ {0} /\ c = <<c[1], c[2]>>
                      /\ Submitted(c[1]) \in Nat /\ Attempted(c[1]) \in Nat
                      /\ Submitted(c[1]) <= Attempted(c[1])
                      /\ \/ Submitted(c[1])' = Submitted(c[1])
                         \/ Submitted(c[1])' = Submitted(c[1]) + 1 /\ ToGraph(c[1])
                      /\ \/ Attempted(c[1])' = Attempted(c[1])
                         \/ Attempted(c[1])' = Attempted(c[1]) + 1
                            /\ \E v \in Verdict : Attempt(c[1], v)
  BY SessionFacts, NumberFacts, CountersMove
<1>1. /\ HandedOn \subseteq Begun /\ HandedOn \subseteq HandedOn' /\ Begun \subseteq Begun'
      /\ Begun' = Begun \/ \E t \in Thread : \E v \in Verdict : Attempt(t, v)
      /\ HandedOn' = HandedOn \/ (LocalGraph /\ \E t \in Thread : ToGraph(t))
  <2>1. ASSUME NEW c \in Call
        PROVE  /\ c \in HandedOn => c \in Begun /\ c \in HandedOn'
               /\ c \in Begun => c \in Begun'
    BY <1>0 DEF HandedOn, Begun
  <2>2. ASSUME ~\E t \in Thread : \E v \in Verdict : Attempt(t, v), NEW c \in Call
        PROVE  c \in Begun' => c \in Begun
    BY <1>0, <2>2 DEF Begun
  <2>3. ASSUME ~(LocalGraph /\ \E t \in Thread : ToGraph(t)), NEW c \in Call
        PROVE  c \in HandedOn' => c \in HandedOn
    BY <1>0, <2>3 DEF HandedOn
  <2>4. HandedOn \subseteq Call /\ HandedOn' \subseteq Call /\ Begun \subseteq Call /\ Begun' \subseteq Call
    BY DEF HandedOn, Begun
  <2> QED  BY <2>1, <2>2, <2>3, <2>4
<1>2. ASSUME NEW t \in Thread, NEW v \in Verdict, Attempt(t, v)
      PROVE  CallOf(t) \in Call \ Begun /\ Begun' = Begun \cup {CallOf(t)}
  <2>1. /\ pc[t] = "idle" /\ pc' = [pc EXCEPT ![t] = "traced"] /\ made' = made
        /\ pc \in [Thread -> {"idle", "traced", "submitted", "dispatched", "logged",
                              "resulted", "flushing", "flushed"}]
    BY <1>2 DEF Attempt, CallerTypeOK
  <2>2. made[t] \in Nat /\ Attempted(t) = made[t] /\ Attempted(t)' = made[t] + 1
    BY <2>1, NumberFacts DEF Attempted, Between
  <2>3. \A u \in Thread : u # t => Attempted(u)' = Attempted(u)
    BY <2>1 DEF Attempted
  <2>4. CallOf(t) \in Call /\ CallOf(t)[1] = t /\ CallOf(t)[2] = made[t] + 1
    BY <1>2, AttemptedIsCall DEF CallOf
  <2>5. CallOf(t) \notin Begun
    BY <2>2, <2>4 DEF Begun
  <2>6. ASSUME NEW c \in Call
        PROVE  c \in Begun' <=> c \in Begun \/ c = CallOf(t)
    <3>1. CASE c[1] # t
      BY <1>0, <2>3, <2>4, <3>1 DEF Begun
    <3>2. CASE c[1] = t
      <4>1. c \in Begun' <=> c[2] <= made[t] + 1
        BY <2>2, <3>2 DEF Begun
      <4>2. c \in Begun <=> c[2] <= made[t]
        BY <2>2, <3>2 DEF Begun
      <4>3. c = CallOf(t) <=> c[2] = made[t] + 1
        BY <1>0, <3>2 DEF CallOf
      <4>4. c[2] \in Nat
        BY <1>0
      <4> QED  BY <2>2, <4>1, <4>2, <4>3, <4>4
    <3> QED  BY <3>1, <3>2
  <2>7. Begun \subseteq Call /\ Begun' \subseteq Call
    BY DEF Begun
  <2> QED  BY <2>4, <2>5, <2>6, <2>7
<1>3. ASSUME NEW t \in Thread, LocalGraph, ToGraph(t)
      PROVE  CallOf(t) \in Call \ HandedOn /\ HandedOn' = HandedOn \cup {CallOf(t)}
  <2>1. /\ pc[t] = "traced" /\ pc' = [pc EXCEPT ![t] = "submitted"] /\ made' = made
        /\ pc \in [Thread -> {"idle", "traced", "submitted", "dispatched", "logged",
                              "resulted", "flushing", "flushed"}]
    BY <1>3 DEF ToGraph, CallerTypeOK
  <2>2. made[t] \in Nat /\ Submitted(t) = made[t] /\ Submitted(t)' = made[t] + 1
    <3>1. made[t] \in Nat
      BY NumberFacts
    <3> QED  BY <2>1, <3>1 DEF Submitted
  <2>3. \A u \in Thread : u # t => Submitted(u)' = Submitted(u)
    BY <2>1 DEF Submitted
  <2>4. CallOf(t) \in Call /\ CallOf(t)[1] = t /\ CallOf(t)[2] = made[t] + 1
    <3>1. CallOf(t) \in Call
      BY <2>1, BegunFacts DEF Between
    <3> QED  BY <3>1 DEF CallOf
  <2>5. CallOf(t) \notin HandedOn
    BY <2>2, <2>4 DEF HandedOn
  <2>6. ASSUME NEW c \in Call
        PROVE  c \in HandedOn' <=> c \in HandedOn \/ c = CallOf(t)
    <3>1. CASE c[1] # t
      BY <1>0, <2>3, <2>4, <3>1 DEF HandedOn
    <3>2. CASE c[1] = t
      <4>1. c \in HandedOn' <=> c[2] <= made[t] + 1
        BY <1>3, <2>2, <3>2 DEF HandedOn
      <4>2. c \in HandedOn <=> c[2] <= made[t]
        BY <1>3, <2>2, <3>2 DEF HandedOn
      <4>3. c = CallOf(t) <=> c[2] = made[t] + 1
        BY <1>0, <3>2 DEF CallOf
      <4>4. c[2] \in Nat
        BY <1>0
      <4> QED  BY <2>2, <4>1, <4>2, <4>3, <4>4
    <3> QED  BY <3>1, <3>2
  <2>7. HandedOn \subseteq Call /\ HandedOn' \subseteq Call
    BY DEF HandedOn
  <2> QED  BY <2>4, <2>5, <2>6, <2>7
<1> QED  BY <1>1, <1>2, <1>3

\* What was handed on before a call began stays what it was.
LEMMA BeforeKept ==
    ASSUME CallerAssumption, CallerTypeOK, CallsBounded, HandedBefore, [Next]_vars
    PROVE  HandedBefore' /\ \A c \in HandedOn : before'[c] = before[c]
<1>1. before \in [Call -> SUBSET Call] /\ HandedOn \subseteq Begun /\ HandedOn \subseteq HandedOn'
      /\ HandedOn \subseteq Call
  BY Growing DEF CallerTypeOK, HandedOn
<1>2. ASSUME NEW t \in Thread, NEW v \in Verdict, Attempt(t, v)
      PROVE  HandedBefore' /\ \A c \in HandedOn : before'[c] = before[c]
  <2>1. before' = [before EXCEPT ![CallOf(t)] = HandedOn] /\ CallOf(t) \in Call \ Begun
    BY <1>2, Growing DEF Attempt
  <2>2. \A c \in Call : before'[c] = before[c] \/ before'[c] = HandedOn
    BY <1>1, <2>1
  <2>3. \A c \in Call : before[c] \subseteq HandedOn
    BY DEF HandedBefore
  <2>4. \A c \in Call : before'[c] \subseteq HandedOn'
    BY <1>1, <2>2, <2>3
  <2> QED  BY <1>1, <2>1, <2>4 DEF HandedBefore
<1>3. ASSUME before' = before
      PROVE  HandedBefore' /\ \A c \in HandedOn : before'[c] = before[c]
  <2>1. \A c \in Call : before'[c] \subseteq HandedOn'
    BY <1>1, <1>3 DEF HandedBefore
  <2> QED  BY <1>3, <2>1 DEF HandedBefore
<1>4. before' = before \/ \E t \in Thread : \E v \in Verdict : Attempt(t, v)
  BY DEF Next, Caller, ToGraph, ToSlowPath, LogAttempt, ResultToGraph, LogResult,
         Flush, Flushed, ClearSession, Close, ActorStops, Behind, vars, callerVars
<1> QED  BY <1>2, <1>3, <1>4

\* The trace goes on holding each call that began once, until it is gone.
LEMMA TraceKept ==
    ASSUME CallerAssumption, CallerTypeOK, CallsBounded, TraceHolds, [Next]_vars
    PROVE  TraceHolds'
<1>0. \A s \in Sessions : /\ trace[s] \in Seq(Call) /\ Len(trace[s]) \in Nat
                          /\ DOMAIN trace[s] = 1 .. Len(trace[s])
  <2>1. \A s \in Sessions : trace[s] \in Seq(Call)
    BY DEF CallerTypeOK
  <2> QED  BY <2>1
<1>1. ASSUME NEW t \in Thread, NEW v \in Verdict, Attempt(t, v)
      PROVE  TraceHolds'
  <2> DEFINE c == CallOf(t)
             s == SessionOf[c]
             n == Len(trace[s])
  <2>1. /\ c \in Call \ Begun /\ Begun' = Begun \cup {c} /\ s \in Sessions
        /\ \A e \in Call : SessionOf[e] \in Sessions
    BY <1>1, Growing, SessionFacts
  <2>2. \A r \in Sessions : r # s => trace'[r] = trace[r]
    BY <1>1, <2>1, Tracing
  <2>3. PICK d \in {0, 1} :
            /\ n \in Nat /\ d <= n /\ Len(trace'[s]) = n - d + 1
            /\ \A k \in 1 .. n - d : trace'[s][k] = trace[s][k + d]
            /\ trace'[s][n - d + 1] = c
            /\ gone' = IF d = 1 THEN gone \cup {trace[s][1]} ELSE gone
    BY <1>1, <2>1, Tracing
  <2>4. /\ \A r \in Sessions : \A k \in 1 .. Len(trace[r]) :
               /\ trace[r][k] \in Begun /\ trace[r][k] \notin gone
               /\ SessionOf[trace[r][k]] = r
               /\ \A l \in 1 .. Len(trace[r]) : k < l => trace[r][k] # trace[r][l]
        /\ gone \subseteq Begun /\ gone \subseteq gone'
    BY <2>3 DEF TraceHolds
  <2> HIDE DEF n, s, c
  <2>5. d = 1 => trace[s][1] \in Begun /\ SessionOf[trace[s][1]] = s
    BY <2>1, <2>3, <2>4 DEF n
  <2>6. gone' \subseteq Begun /\ c \notin gone'
    BY <2>1, <2>3, <2>4, <2>5
  <2>7. ASSUME NEW k \in 1 .. n - d
        PROVE  /\ k + d \in 1 .. n /\ trace'[s][k] = trace[s][k + d]
               /\ trace'[s][k] \in Begun /\ trace'[s][k] \notin gone' /\ trace'[s][k] # c
               /\ SessionOf[trace'[s][k]] = s
    <3>1. k + d \in 1 .. n /\ trace'[s][k] = trace[s][k + d] /\ (d = 1 => 1 < k + d)
      BY <2>3
    <3>2. d = 1 => trace[s][k + d] # trace[s][1]
      BY <2>1, <2>4, <3>1, SMTT(30) DEF n
    <3>3. /\ trace[s][k + d] \in Begun /\ trace[s][k + d] \notin gone
          /\ SessionOf[trace[s][k + d]] = s
      BY <2>1, <2>4, <3>1 DEF n
    <3> QED  BY <2>1, <2>3, <3>1, <3>2, <3>3
  <2>8. \A k \in 1 .. Len(trace'[s]) : k \in 1 .. n - d \/ k = n - d + 1
    BY <2>3
  <2>9. ASSUME NEW k \in 1 .. Len(trace'[s])
        PROVE  /\ trace'[s][k] \in Begun' \ gone' /\ SessionOf[trace'[s][k]] = s
               /\ \A l \in 1 .. Len(trace'[s]) : k < l => trace'[s][k] # trace'[s][l]
    <3>1. CASE k = n - d + 1
      <4>1. trace'[s][k] = c
        BY <2>3, <3>1
      <4>2. \A l \in 1 .. Len(trace'[s]) : ~(k < l)
        BY <2>3, <3>1
      <4>3. SessionOf[c] = s
        BY DEF s
      <4> QED  BY <2>1, <2>6, <4>1, <4>2, <4>3
    <3>2. CASE k \in 1 .. n - d
      <4>1. ASSUME NEW l \in 1 .. Len(trace'[s]), k < l
            PROVE  trace'[s][k] # trace'[s][l]
        <5>1. CASE l = n - d + 1
          BY <2>3, <2>7, <3>2, <5>1
        <5>2. CASE l \in 1 .. n - d
          <6>1. /\ k + d < l + d /\ k + d \in 1 .. n /\ l + d \in 1 .. n
                /\ trace'[s][k] = trace[s][k + d] /\ trace'[s][l] = trace[s][l + d]
            BY <2>3, <2>7, <3>2, <4>1, <5>2
          <6> QED  BY <2>1, <2>4, <6>1, SMTT(30) DEF n
        <5> QED  BY <2>8, <5>1, <5>2
      <4> QED  BY <2>1, <2>7, <3>2, <4>1
    <3> QED  BY <2>8, <3>1, <3>2
  <2>10. ASSUME NEW r \in Sessions, r # s, NEW k \in 1 .. Len(trace'[r])
         PROVE  /\ trace'[r][k] \in Begun' \ gone' /\ SessionOf[trace'[r][k]] = r
                /\ \A l \in 1 .. Len(trace'[r]) : k < l => trace'[r][k] # trace'[r][l]
    <3>1. trace'[r] = trace[r] /\ k \in 1 .. Len(trace[r])
      BY <2>2, <2>10
    <3>2. /\ trace[r][k] \in Begun /\ trace[r][k] \notin gone /\ SessionOf[trace[r][k]] = r
          /\ \A l \in 1 .. Len(trace[r]) : k < l => trace[r][k] # trace[r][l]
      BY <2>4, <3>1
    <3>3. trace[r][k] \notin gone'
      BY <2>3, <2>5, <2>10, <3>2
    <3> QED  BY <2>1, <3>1, <3>2, <3>3
  <2>11. ASSUME NEW e \in Begun', e \notin gone'
         PROVE  e \in ToSet(trace'[SessionOf[e]])
    <3>1. CASE e = c
      <4>1. n - d + 1 \in 1 .. Len(trace'[s]) /\ trace'[s][n - d + 1] = e /\ SessionOf[e] = s
        BY <2>3, <3>1 DEF s
      <4>2. e \in ToSet(trace'[s])
        <5>1. DOMAIN trace'[s] = 1 .. Len(trace'[s])
          <6>1. trace'[s] \in Seq(Call)
            BY <1>1, <2>1, Tracing DEF c
          <6> QED  BY <6>1
        <5> QED  BY <4>1, <5>1 DEF ToSet
      <4> QED  BY <4>1, <4>2
    <3>2. CASE e # c
      <4>1. e \in Begun /\ e \notin gone /\ e \in Call
        BY <2>1, <2>4, <2>11, <3>2 DEF Begun
      <4>2. e \in ToSet(trace[SessionOf[e]]) /\ SessionOf[e] \in Sessions
        BY <2>1, <4>1 DEF TraceHolds
      <4>3. CASE SessionOf[e] # s
        BY <2>2, <4>2, <4>3
      <4>4. CASE SessionOf[e] = s
        <5>1. PICK i \in 1 .. n : trace[s][i] = e
          <6>1. e \in ToSet(trace[s]) /\ DOMAIN trace[s] = 1 .. n
            BY <1>0, <2>1, <4>2, <4>4 DEF n
          <6> QED  BY <6>1 DEF ToSet
        <5>2. ~(d = 1 /\ i = 1)
          BY <2>3, <2>11, <5>1
        <5>3. i - d \in 1 .. n - d /\ (i - d) + d = i
          BY <2>3, <5>2
        <5>4. trace'[s][i - d] = e
          BY <2>3, <5>1, <5>3
        <5>5. i - d \in 1 .. Len(trace'[s])
          BY <2>3, <5>3
        <5>6. DOMAIN trace'[s] = 1 .. Len(trace'[s])
          <6>1. trace'[s] \in Seq(Call)
            BY <1>1, <2>1, Tracing DEF c
          <6> QED  BY <6>1
        <5> QED  BY <4>4, <5>4, <5>5, <5>6 DEF ToSet
      <4> QED  BY <4>3, <4>4
    <3> QED  BY <3>1, <3>2
  <2>12. gone' \subseteq Begun'
    BY <2>1, <2>6
  <2> QED  BY <2>9, <2>10, <2>11, <2>12 DEF TraceHolds
<1>2. ASSUME ClearSession
      PROVE  TraceHolds'
  <2>1. /\ \A s \in Sessions : trace'[s] = <<>> /\ Len(trace'[s]) = 0
        /\ gone' = gone \cup UNION {ToSet(trace[s]) : s \in Sessions}
    BY <1>2 DEF ClearSession
  <2>2. Begun' = Begun
    <3>1. pc' = pc /\ made' = made
      BY <1>2 DEF ClearSession
    <3> QED  BY <3>1 DEF Begun, Attempted
  <2>3. \A s \in Sessions : ToSet(trace[s]) \subseteq Begun
    <3>1. \A s \in Sessions : \A k \in DOMAIN trace[s] : trace[s][k] \in Begun
      BY <1>0, SMTT(30) DEF TraceHolds
    <3> QED  BY <3>1 DEF ToSet
  <2>4. gone' \subseteq Begun'
    BY <2>1, <2>2, <2>3 DEF TraceHolds
  <2>5. ASSUME NEW c \in Begun
        PROVE  c \in gone'
    <3>1. c \in Call /\ SessionOf[c] \in Sessions
      BY SessionFacts DEF Begun
    <3> QED  BY <2>1, <3>1 DEF TraceHolds
  <2> QED  BY <2>1, <2>2, <2>4, <2>5 DEF TraceHolds
<1>3. ASSUME UNCHANGED <<trace, gone>>, Begun' = Begun
      PROVE  TraceHolds'
  BY <1>3 DEF TraceHolds
<1>4. \/ UNCHANGED <<trace, gone>> \/ ClearSession
      \/ \E t \in Thread : \E v \in Verdict : Attempt(t, v)
  BY DEF Next, Caller, ToGraph, ToSlowPath, LogAttempt, ResultToGraph, LogResult,
         Flush, Flushed, Close, ActorStops, Behind, vars, callerVars
<1> QED  BY <1>1, <1>2, <1>3, <1>4, Growing
-----------------------------------------------------------------------------
(* The graph writer.                                                       *)

GraphStep ==
    \/ \E t \in Thread : LocalGraph /\ ToGraph(t) /\ GraphSubmit(<<CallOf(t), "attempt">>)
    \/ \E t \in Thread : LocalGraph /\ ResultToGraph(t) /\ GraphSubmit(<<CallOf(t), "result">>)
    \/ PutSentinel /\ UNCHANGED <<pc, made, trace, gone, before>>
    \/ ClearSession /\ ClearRecent
    \/ WorkerStep /\ UNCHANGED callerVars

\* A step of the system is one of the graph writer's or leaves it alone.
LEMMA NextGraph ==
    ASSUME [Next]_vars
    PROVE  GraphStep \/ UNCHANGED graphVars
<1>1. ASSUME NEW t \in Thread, Caller(t)
      PROVE  GraphStep \/ UNCHANGED graphVars
  <2>1. CASE ToGraph(t)
    BY <2>1 DEF ToGraph, Recorded, GraphStep
  <2>2. CASE ResultToGraph(t)
    BY <2>2 DEF ResultToGraph, Recorded, GraphStep
  <2>3. CASE ~ToGraph(t) /\ ~ResultToGraph(t)
    BY <1>1, <2>3 DEF Caller, Attempt, ToSlowPath, LogAttempt, LogResult, Flush, Flushed
  <2> QED  BY <2>1, <2>2, <2>3
<1>2. ASSUME ClearSession
      PROVE  GraphStep
  BY <1>2 DEF ClearSession, GraphStep
<1>3. ASSUME Close \/ ActorStops
      PROVE  GraphStep \/ UNCHANGED graphVars
  BY <1>3 DEF Close, ActorStops, GraphStep
<1>4. ASSUME Behind
      PROVE  GraphStep \/ UNCHANGED graphVars
  BY <1>4 DEF Behind, GraphStep
<1> QED  BY <1>1, <1>2, <1>3, <1>4 DEF Next, vars

\* What waits is an item, and what stands for a call is one of a session.
LEMMA ItemFacts ==
    ASSUME CallerAssumption, GraphTypeOK
    PROVE  /\ Len(queue) \in Nat /\ \A j \in 1 .. Len(queue) : queue[j] \in Item
           /\ \A item \in Item : item # Sentinel =>
                  /\ item[1] \in Call /\ item = <<item[1], item[2]>>
                  /\ SessionOf[item[1]] \in Sessions /\ item[2] \in {"attempt", "result"}
<1>1. queue \in Seq(Item)
  BY DEF GraphTypeOK
<1>2. Len(queue) \in Nat /\ \A j \in 1 .. Len(queue) : queue[j] \in Item
  BY <1>1, ElementOfSeq
<1>3. ASSUME NEW item \in Item, item # Sentinel
      PROVE  item[1] \in Call /\ item = <<item[1], item[2]>> /\ item[2] \in {"attempt", "result"}
  BY <1>3 DEF Item
<1> QED  BY <1>2, <1>3, SessionFacts

\* Where a submitted item ends up: behind the others, or nowhere.
LEMMA Submitting ==
    ASSUME CallerAssumption, GraphTypeOK, NEW item \in Item,
           queue' = Append(queue, item)
    PROVE  /\ queue' \in Seq(Item) /\ Len(queue') = Len(queue) + 1
           /\ \A j \in 1 .. Len(queue) : queue'[j] = queue[j]
           /\ queue'[Len(queue) + 1] = item
           /\ \A j \in 1 .. Len(queue') : j \in 1 .. Len(queue) \/ j = Len(queue) + 1
<1>1. queue \in Seq(Item) /\ Len(queue) \in Nat
  BY DEF GraphTypeOK
<1> HIDE DEF Item
<1>2. /\ queue' \in Seq(Item) /\ Len(queue') = Len(queue) + 1
      /\ \A j \in 1 .. Len(queue) : queue'[j] = queue[j]
      /\ queue'[Len(queue) + 1] = item
  BY <1>1, AppendProperties
<1> QED  BY <1>1, <1>2

\* What the worker takes was the first, and the others keep their order.
LEMMA Taking ==
    ASSUME CallerAssumption, GraphTypeOK, Take
    PROVE  /\ queue' \in Seq(Item) /\ Len(queue) \in Nat \ {0} /\ Len(queue') = Len(queue) - 1
           /\ held' = queue[1] /\ held' \in Item
           /\ \A j \in 1 .. Len(queue') : j + 1 \in 2 .. Len(queue) /\ queue'[j] = queue[j + 1]
<1>1. queue \in Seq(Item) /\ queue # <<>> /\ held' = Head(queue) /\ queue' = Tail(queue)
  BY DEF GraphTypeOK, Take
<1> HIDE DEF Item
<1>2. Len(queue) \in Nat \ {0} /\ Head(queue) \in Item /\ Head(queue) = queue[1]
  BY <1>1, HeadTailProperties, EmptySeq
<1>3. /\ Tail(queue) \in Seq(Item) /\ Len(Tail(queue)) = Len(queue) - 1
      /\ \A j \in 1 .. Len(Tail(queue)) : Tail(queue)[j] = queue[j + 1]
  BY <1>1, HeadTailProperties
<1>4. \A j \in 1 .. Len(queue') : j + 1 \in 2 .. Len(queue)
  BY <1>1, <1>2, <1>3
<1> QED  BY <1>1, <1>2, <1>3, <1>4


\* What a push does to the list of a session: the call goes before the others,
\* and the oldest leaves a list that is full.
LEMMA Pushing ==
    ASSUME CallerAssumption, GraphAssumption, GraphTypeOK, PushRecent
    PROVE  /\ held # Sentinel /\ held \in Item /\ held = <<held[1], "attempt">>
           /\ held[1] \in Call /\ SessionOf[held[1]] \in Sessions
           /\ recent' \in [Sessions -> Seq(Call)]
           /\ \A r \in Sessions : r # SessionOf[held[1]] => recent'[r] = recent[r]
           /\ LET s == SessionOf[held[1]] IN
              /\ Len(recent'[s]) \in Nat \ {0} /\ Len(recent'[s]) <= RecentCap
              /\ recent'[s][1] = held[1]
              /\ \A i \in 1 .. Len(recent'[s]) :
                     \/ i = 1
                     \/ i - 1 \in 1 .. Len(recent[s]) /\ recent'[s][i] = recent[s][i - 1]
              /\ \/ Len(recent'[s]) = RecentCap
                 \/ \A i \in 1 .. Len(recent[s]) : i + 1 \in 1 .. Len(recent'[s])
                        /\ recent'[s][i + 1] = recent[s][i]
<1> DEFINE s == SessionOf[held[1]]
           old == recent[s]
           kept == IF Len(old) < RecentCap THEN old ELSE Front(old)
<1>1. /\ held # Sentinel /\ held \in Item /\ held[2] = "attempt"
  BY DEF GraphTypeOK, PushRecent
<1>2. held = <<held[1], "attempt">> /\ held[1] \in Call /\ s \in Sessions
  BY <1>1, ItemFacts
<1>3. /\ recent' = [recent EXCEPT ![s] = <<held[1]>> \o kept] /\ recent \in [Sessions -> Seq(Call)]
      /\ old \in Seq(Call) /\ Len(old) \in Nat /\ Len(old) <= RecentCap /\ RecentCap \in Nat \ {0}
  <2>1. recent \in [Sessions -> Seq(Call)] /\ Len(old) <= RecentCap /\ RecentCap \in Nat \ {0}
    BY <1>2 DEF GraphTypeOK, GraphAssumption
  <2>2. old \in Seq(Call)
    BY <1>2, <2>1
  <2> QED  BY <2>1, <2>2 DEF PushRecent
<1> PICK n \in Nat : n = Len(old)
  BY <1>3
<1>4. PICK m \in Nat :
          /\ m <= n /\ m < RecentCap /\ (m = n \/ m + 1 = RecentCap)
          /\ kept \in Seq(Call) /\ Len(kept) = m /\ \A i \in 1 .. m : kept[i] = old[i]
  <2>1. CASE n < RecentCap
    BY <1>3, <2>1
  <2>2. CASE ~(n < RecentCap)
    <3>1. kept = SubSeq(old, 1, n - 1) /\ n = RecentCap /\ n - 1 \in Nat
      BY <1>3, <2>2 DEF Front
    <3>2. \A i \in 1 .. n - 1 : old[i] \in Call
      BY <1>3, ElementOfSeq
    <3> HIDE DEF kept, old
    <3>3. /\ SubSeq(old, 1, n - 1) \in Seq(Call) /\ Len(SubSeq(old, 1, n - 1)) = n - 1
          /\ \A i \in 1 .. n - 1 : SubSeq(old, 1, n - 1)[i] = old[i]
      <4>1. PICK q \in Nat : q = n - 1
        BY <3>1
      <4>2. SubSeq(old, 1, q) = [k \in 1 .. q |-> old[k]]
        <5>1. old \in Seq(Call) /\ q <= Len(old)
          BY <1>3, <4>1
        <5> QED  BY <5>1
      <4>3. /\ SubSeq(old, 1, q) \in Seq(Call) /\ Len(SubSeq(old, 1, q)) = q
            /\ \A i \in 1 .. q : SubSeq(old, 1, q)[i] = old[i]
        BY <3>2, <4>1, <4>2
      <4> QED  BY <4>1, <4>2, <4>3
    <3> QED  BY <1>3, <3>1, <3>3
  <2> QED  BY <2>1, <2>2
<1> HIDE DEF s, old, kept
<1>5. /\ <<held[1]>> \o kept \in Seq(Call) /\ Len(<<held[1]>> \o kept) = m + 1
      /\ (<<held[1]>> \o kept)[1] = held[1]
      /\ \A i \in 1 .. m : (<<held[1]>> \o kept)[i + 1] = kept[i]
  <2> DEFINE one == <<held[1]>>
  <2>1. one \in Seq(Call) /\ Len(one) = 1 /\ one[1] = held[1]
    BY <1>2
  <2> HIDE DEF one
  <2>2. /\ one \o kept \in Seq(Call) /\ Len(one \o kept) = 1 + m
        /\ \A i \in 1 .. 1 + m : (one \o kept)[i] = IF i <= 1 THEN one[i] ELSE kept[i - 1]
    <3>1. /\ one \o kept \in Seq(Call) /\ Len(one \o kept) = Len(one) + Len(kept)
          /\ \A i \in 1 .. Len(one) + Len(kept) :
                 (one \o kept)[i] = IF i <= Len(one) THEN one[i] ELSE kept[i - Len(one)]
      <4>1. one \in Seq(Call) /\ kept \in Seq(Call)
        BY <1>4, <2>1
      <4> QED  BY <4>1, ConcatProperties
    <3> QED  BY <1>4, <2>1, <3>1
  <2>3. (one \o kept)[1] = held[1]
    <3>1. 1 \in 1 .. 1 + m /\ 1 <= 1
      OBVIOUS
    <3>2. (one \o kept)[1] = one[1]
      BY <2>2, <3>1
    <3> QED  BY <2>1, <3>2
  <2>4. ASSUME NEW i \in 1 .. m
        PROVE  (one \o kept)[i + 1] = kept[i]
    <3>1. i + 1 \in 1 .. 1 + m /\ ~(i + 1 <= 1) /\ (i + 1) - 1 = i
      OBVIOUS
    <3> QED  BY <2>2, <3>1
  <2>5. Len(one \o kept) = m + 1
    BY <2>2
  <2> QED  BY <2>2, <2>3, <2>4, <2>5 DEF one
<1>6. /\ recent'[s] = <<held[1]>> \o kept /\ recent' \in [Sessions -> Seq(Call)]
      /\ \A r \in Sessions : r # s => recent'[r] = recent[r]
  BY <1>2, <1>3, <1>5
<1>7. /\ Len(recent'[s]) = m + 1 /\ recent'[s][1] = held[1]
      /\ \A i \in 1 .. m : recent'[s][i + 1] = old[i]
  BY <1>4, <1>5, <1>6
<1>8. ASSUME NEW i \in 1 .. Len(recent'[s]), i # 1
      PROVE  i - 1 \in 1 .. Len(old) /\ recent'[s][i] = old[i - 1]
  <2>1. i - 1 \in 1 .. m /\ i - 1 \in 1 .. n /\ (i - 1) + 1 = i
    <3>1. i \in 1 .. m + 1 /\ i # 1
      BY <1>7, <1>8
    <3>2. i - 1 \in 1 .. m /\ (i - 1) + 1 = i
      BY <3>1
    <3> QED  BY <1>4, <3>2
  <2> QED  BY <1>7, <2>1
<1>9. \/ Len(recent'[s]) = RecentCap
      \/ \A i \in 1 .. Len(old) : i + 1 \in 1 .. Len(recent'[s]) /\ recent'[s][i + 1] = old[i]
  <2>1. CASE m + 1 = RecentCap
    BY <1>7, <2>1
  <2>2. CASE m = n
    <3>1. ASSUME NEW i \in 1 .. n
          PROVE  i + 1 \in 1 .. n + 1
      OBVIOUS
    <3> QED  BY <1>7, <2>2, <3>1
  <2> QED  BY <1>4, <2>1, <2>2
<1>10. Len(recent'[s]) \in Nat \ {0} /\ Len(recent'[s]) <= RecentCap
  BY <1>3, <1>4, <1>7
<1> QED  BY <1>1, <1>2, <1>6, <1>7, <1>8, <1>9, <1>10 DEF s, old

\* The graph writer keeps its types and its count of unfinished items.
LEMMA GraphKept ==
    ASSUME CallerAssumption, GraphAssumption, CallerTypeOK, CallsBounded, GraphTypeOK,
           UnfinishedCounted, GraphStep \/ UNCHANGED graphVars
    PROVE  GraphTypeOK' /\ UnfinishedCounted'
<1>0. /\ queue \in Seq(Item) /\ Len(queue) \in Nat /\ held \in Item /\ unfinished \in Nat
      /\ recent \in [Sessions -> Seq(Call)] /\ lost \subseteq Item
      /\ worker \in {"waiting", "writing", "pushing", "returned"}
      /\ Busy \in BOOLEAN /\ Busy' \in BOOLEAN
  BY DEF GraphTypeOK, Busy
<1>1. ASSUME NEW item \in Item, GraphSubmit(item)
      PROVE  GraphTypeOK' /\ UnfinishedCounted'
  <2>1. UNCHANGED <<worker, held, edges, labelsOf, recent>>
    BY <1>1 DEF GraphSubmit
  <2>2. CASE queue' = Append(queue, item) /\ unfinished' = unfinished + 1 /\ lost' = lost
    <3>1. queue' \in Seq(Item) /\ Len(queue') = Len(queue) + 1
      BY <2>2, Submitting
    <3>2. UnfinishedCounted'
      BY <1>0, <2>1, <2>2, <3>1 DEF UnfinishedCounted, Busy
    <3>3. unfinished' \in Nat
      BY <1>0, <2>2
    <3> QED  BY <2>1, <2>2, <3>1, <3>2, <3>3 DEF GraphTypeOK
  <2>3. CASE lost' = lost \cup {item} /\ UNCHANGED <<queue, unfinished>>
    BY <2>1, <2>3 DEF GraphTypeOK, UnfinishedCounted, Busy
  <2> QED  BY <1>1, <2>2, <2>3 DEF GraphSubmit
<1>2. ASSUME NEW t \in Thread, pc[t] \in {"traced", "logged"}, NEW kind \in {"attempt", "result"}
      PROVE  <<CallOf(t), kind>> \in Item
  <2>1. CallOf(t) \in Call
    BY <1>2, BegunFacts DEF Between
  <2> QED  BY <2>1 DEF Item
<1>3. ASSUME NEW t \in Thread, ToGraph(t), GraphSubmit(<<CallOf(t), "attempt">>)
      PROVE  GraphTypeOK' /\ UnfinishedCounted'
  BY <1>1, <1>2, <1>3 DEF ToGraph
<1>4. ASSUME NEW t \in Thread, ResultToGraph(t), GraphSubmit(<<CallOf(t), "result">>)
      PROVE  GraphTypeOK' /\ UnfinishedCounted'
  BY <1>1, <1>2, <1>4 DEF ResultToGraph
<1>5. ASSUME PutSentinel
      PROVE  GraphTypeOK' /\ UnfinishedCounted'
  <2>1. Sentinel \in Item
    BY DEF Item
  <2>2. GraphSubmit(Sentinel)
    BY <1>5 DEF PutSentinel, GraphSubmit
  <2> QED  BY <1>1, <2>1, <2>2
<1>6. ASSUME ClearRecent
      PROVE  GraphTypeOK' /\ UnfinishedCounted'
  <2>1. recent' = [s \in Sessions |-> <<>>] /\ UNCHANGED <<queue, unfinished, worker, held, edges, lost>>
    BY <1>6 DEF ClearRecent
  <2>2. \A s \in Sessions : recent'[s] = <<>> /\ Len(recent'[s]) = 0
    BY <2>1
  <2>3. recent' \in [Sessions -> Seq(Call)]
    BY <2>1
  <2>4. \A s \in Sessions : Len(recent'[s]) <= RecentCap
    BY <2>2 DEF GraphAssumption
  <2> QED  BY <2>1, <2>3, <2>4 DEF GraphTypeOK, UnfinishedCounted, Busy
<1>7. ASSUME Take
      PROVE  GraphTypeOK' /\ UnfinishedCounted'
  <2>1. /\ queue' \in Seq(Item) /\ Len(queue) \in Nat \ {0} /\ Len(queue') = Len(queue) - 1
        /\ held' \in Item
    BY <1>7, Taking
  <2>2. UNCHANGED <<edges, labelsOf, recent, lost>> /\ worker = "waiting" /\ held' = Head(queue)
    BY <1>7 DEF Take
  <2>3. CASE Head(queue) = Sentinel
    <3>1. worker' = "returned" /\ unfinished' = unfinished - 1
      BY <1>7, <2>3 DEF Take
    <3>2. unfinished = Len(queue) /\ ~Busy /\ ~Busy'
      BY <2>2, <3>1 DEF UnfinishedCounted, Busy
    <3>3. UnfinishedCounted' /\ unfinished' \in Nat
      BY <2>1, <3>1, <3>2 DEF UnfinishedCounted
    <3> QED  BY <1>0, <2>1, <2>2, <3>1, <3>3 DEF GraphTypeOK
  <2>4. CASE Head(queue) # Sentinel
    <3>1. worker' = "writing" /\ unfinished' = unfinished
      BY <1>7, <2>4 DEF Take
    <3>2. unfinished = Len(queue) /\ ~Busy /\ Busy'
      BY <2>2, <3>1 DEF UnfinishedCounted, Busy
    <3>3. UnfinishedCounted'
      BY <2>1, <3>1, <3>2 DEF UnfinishedCounted
    <3> QED  BY <1>0, <2>1, <2>2, <2>4, <3>1, <3>3 DEF GraphTypeOK
  <2> QED  BY <2>3, <2>4
<1>8. ASSUME worker' = "waiting", unfinished' = unfinished - 1, worker \in {"writing", "pushing"},
             UNCHANGED queue
      PROVE  UnfinishedCounted' /\ unfinished' \in Nat
  <2>1. Busy /\ ~Busy'
    BY <1>8 DEF Busy
  <2>2. unfinished = Len(queue) + 1
    BY <2>1 DEF UnfinishedCounted
  <2> QED  BY <1>0, <1>8, <2>1, <2>2 DEF UnfinishedCounted
<1>9. ASSUME WriteCall
      PROVE  GraphTypeOK' /\ UnfinishedCounted'
  <2>1. /\ worker = "writing" /\ worker' = "pushing" /\ held[2] = "attempt"
        /\ UNCHANGED <<queue, unfinished, held, recent, lost>>
        /\ edges \subseteq edges' /\ {<<held[1], ref.node>> : ref \in Refs[held[1]]} \subseteq edges'
    BY <1>9 DEF WriteCall
  <2>2. GraphTypeOK' /\ UnfinishedCounted'
    BY <2>1 DEF GraphTypeOK, UnfinishedCounted, Busy
  <2> QED  BY <2>2
<1>10. ASSUME PushRecent
       PROVE  GraphTypeOK' /\ UnfinishedCounted'
  <2>1. /\ worker = "pushing" /\ worker' = "waiting" /\ unfinished' = unfinished - 1
        /\ UNCHANGED <<queue, held, edges, labelsOf, lost>>
    BY <1>10 DEF PushRecent
  <2>2. UnfinishedCounted' /\ unfinished' \in Nat
    BY <1>8, <2>1
  <2>3. recent' \in [Sessions -> Seq(Call)] /\ \A s \in Sessions : Len(recent'[s]) <= RecentCap
    <3>1. /\ recent' \in [Sessions -> Seq(Call)]
          /\ \A r \in Sessions : r # SessionOf[held[1]] => recent'[r] = recent[r]
          /\ Len(recent'[SessionOf[held[1]]]) <= RecentCap
      BY <1>10, Pushing
    <3> QED  BY <3>1 DEF GraphTypeOK
  <2> QED  BY <1>0, <2>1, <2>2, <2>3 DEF GraphTypeOK
<1>11. ASSUME WriteResult \/ WriteFails
       PROVE  GraphTypeOK' /\ UnfinishedCounted'
  <2>1. /\ worker \in {"writing", "pushing"} /\ worker' = "waiting" /\ unfinished' = unfinished - 1
        /\ UNCHANGED <<queue, held, edges, labelsOf, recent>> /\ lost' \subseteq lost \cup {held}
    BY <1>11 DEF WriteResult, WriteFails
  <2>2. UnfinishedCounted' /\ unfinished' \in Nat
    BY <1>8, <2>1
  <2> QED  BY <1>0, <2>1, <2>2 DEF GraphTypeOK
<1>12. ASSUME UNCHANGED graphVars
       PROVE  GraphTypeOK' /\ UnfinishedCounted'
  BY <1>12 DEF graphVars, GraphTypeOK, UnfinishedCounted, Busy
<1> QED  BY <1>3, <1>4, <1>5, <1>6, <1>7, <1>9, <1>10, <1>11, <1>12 DEF GraphStep, WorkerStep
-----------------------------------------------------------------------------
(* The line of the calls.                                                  *)

\* What stands in line is handed on, so it stands in line still when more is.
LEMMA LineGrows ==
    ASSUME NEW on, NEW bf, HandedOn \subseteq on, \A c \in HandedOn : bf[c] = before[c],
           InLine(HandedOn, before)
    PROVE  InLine(on, bf)
<1>1. \A a \in HandedOn : \A b : Follows(b, a, before) => Follows(b, a, bf)
  BY DEF Follows
<1>2. QueueInLine(on, bf)
  BY <1>1 DEF InLine, QueueInLine
<1>3. HeldInLine(on, bf)
  BY <1>1 DEF InLine, HeldInLine
<1>4. RecentInLine(on, bf)
  BY <1>1 DEF InLine, RecentInLine
<1> QED  BY <1>2, <1>3, <1>4 DEF InLine

\* A new item takes its place behind all that are in line.
LEMMA LineAppended ==
    ASSUME CallerAssumption, GraphTypeOK, NEW old, NEW on, NEW bf, old \subseteq on,
           InLine(old, bf), NEW item \in Item, queue' = Append(queue, item),
           UNCHANGED <<worker, held, recent>>,
           IsAttempt(item) => item[1] \in on /\ \A a \in old : Follows(item[1], a, bf)
    PROVE  InLine(on, bf)'
<1> DEFINE n == Len(queue)
<1>1. /\ Len(queue') = n + 1 /\ \A j \in 1 .. n : queue'[j] = queue[j]
      /\ queue'[n + 1] = item /\ \A j \in 1 .. n + 1 : j \in 1 .. n \/ j = n + 1
      /\ n \in Nat
  BY Submitting, ItemFacts
<1>2. Busy' = Busy /\ held' = held /\ recent' = recent
  BY DEF Busy
<1>3. QueueInLine(on, bf)'
  <2> SUFFICES ASSUME NEW j \in 1 .. n + 1, IsAttempt(queue'[j])
               PROVE  /\ queue'[j][1] \in on
                      /\ \A i \in 1 .. n + 1 : i < j /\ IsAttempt(queue'[i])
                             => Follows(queue'[j][1], queue'[i][1], bf)
    BY <1>1 DEF QueueInLine
  <2>1. ASSUME NEW i \in 1 .. n + 1, i < j
        PROVE  i \in 1 .. n /\ queue'[i] = queue[i]
    BY <1>1, <2>1
  <2>2. CASE j \in 1 .. n
    BY <1>1, <2>1, <2>2 DEF InLine, QueueInLine
  <2>3. CASE j = n + 1
    BY <1>1, <2>1, <2>3 DEF InLine, QueueInLine
  <2> QED  BY <1>1, <2>2, <2>3
<1>4. HeldInLine(on, bf)'
  <2> SUFFICES ASSUME Busy, IsAttempt(held)
               PROVE  /\ held[1] \in on
                      /\ \A j \in 1 .. n + 1 : IsAttempt(queue'[j])
                             => Follows(queue'[j][1], held[1], bf)
    BY <1>1, <1>2 DEF HeldInLine
  <2> QED  BY <1>1 DEF InLine, HeldInLine
<1>5. RecentInLine(on, bf)'
  <2> SUFFICES ASSUME NEW s \in Sessions, NEW i \in 1 .. Len(recent[s])
               PROVE  /\ recent[s][i] \in on /\ SessionOf[recent[s][i]] = s
                      /\ \A j \in 1 .. Len(recent[s]) : i < j
                             => Follows(recent[s][i], recent[s][j], bf)
                      /\ Busy /\ IsAttempt(held) => Follows(held[1], recent[s][i], bf)
                      /\ \A j \in 1 .. n + 1 : IsAttempt(queue'[j])
                             => Follows(queue'[j][1], recent[s][i], bf)
    BY <1>1, <1>2 DEF RecentInLine
  <2>1. /\ recent[s][i] \in old /\ SessionOf[recent[s][i]] = s
        /\ \A j \in 1 .. Len(recent[s]) : i < j => Follows(recent[s][i], recent[s][j], bf)
        /\ Busy /\ IsAttempt(held) => Follows(held[1], recent[s][i], bf)
        /\ \A j \in 1 .. n : IsAttempt(queue[j]) => Follows(queue[j][1], recent[s][i], bf)
    BY DEF InLine, RecentInLine
  <2>2. \A j \in 1 .. n + 1 : IsAttempt(queue'[j]) => Follows(queue'[j][1], recent[s][i], bf)
    BY <1>1, <2>1
  <2> QED  BY <2>1, <2>2
<1> QED  BY <1>3, <1>4, <1>5 DEF InLine

\* The worker takes the first of those that wait.
LEMMA LineTaken ==
    ASSUME CallerAssumption, GraphTypeOK, NEW on, NEW bf, InLine(on, bf), Take
    PROVE  InLine(on, bf)'
<1>1. /\ Len(queue) \in Nat \ {0} /\ Len(queue') = Len(queue) - 1 /\ held' = queue[1]
      /\ \A j \in 1 .. Len(queue') : j + 1 \in 2 .. Len(queue) /\ queue'[j] = queue[j + 1]
      /\ 1 \in 1 .. Len(queue) /\ recent' = recent
  BY Taking DEF Take
<1>2. \A j \in 1 .. Len(queue') : j + 1 \in 1 .. Len(queue) /\ 1 < j + 1
  BY <1>1
<1>3. QueueInLine(on, bf)'
  <2> SUFFICES ASSUME NEW j \in 1 .. Len(queue'), IsAttempt(queue'[j])
               PROVE  /\ queue'[j][1] \in on
                      /\ \A i \in 1 .. Len(queue') : i < j /\ IsAttempt(queue'[i])
                             => Follows(queue'[j][1], queue'[i][1], bf)
    BY DEF QueueInLine
  <2>1. queue'[j] = queue[j + 1] /\ j + 1 \in 1 .. Len(queue)
    BY <1>1, <1>2
  <2>2. ASSUME NEW i \in 1 .. Len(queue'), i < j, IsAttempt(queue'[i])
        PROVE  Follows(queue'[j][1], queue'[i][1], bf)
    <3>1. queue'[i] = queue[i + 1] /\ i + 1 \in 1 .. Len(queue)
      BY <1>1, <1>2
    <3>2. i + 1 < j + 1
      BY <1>1, <2>2
    <3> QED  BY <2>1, <2>2, <3>1, <3>2 DEF InLine, QueueInLine
  <2> QED  BY <2>1, <2>2 DEF InLine, QueueInLine
<1>4. HeldInLine(on, bf)'
  <2> SUFFICES ASSUME IsAttempt(queue[1])
               PROVE  /\ queue[1][1] \in on
                      /\ \A j \in 1 .. Len(queue') : IsAttempt(queue'[j])
                             => Follows(queue'[j][1], queue[1][1], bf)
    BY <1>1 DEF HeldInLine
  <2> QED  BY <1>1, <1>2 DEF InLine, QueueInLine
<1>5. RecentInLine(on, bf)'
  <2> SUFFICES ASSUME NEW s \in Sessions, NEW i \in 1 .. Len(recent[s])
               PROVE  /\ recent[s][i] \in on /\ SessionOf[recent[s][i]] = s
                      /\ \A j \in 1 .. Len(recent[s]) : i < j
                             => Follows(recent[s][i], recent[s][j], bf)
                      /\ IsAttempt(queue[1]) => Follows(queue[1][1], recent[s][i], bf)
                      /\ \A j \in 1 .. Len(queue') : IsAttempt(queue'[j])
                             => Follows(queue'[j][1], recent[s][i], bf)
    BY <1>1 DEF RecentInLine
  <2>1. /\ recent[s][i] \in on /\ SessionOf[recent[s][i]] = s
        /\ \A j \in 1 .. Len(recent[s]) : i < j => Follows(recent[s][i], recent[s][j], bf)
        /\ \A j \in 1 .. Len(queue) : IsAttempt(queue[j]) => Follows(queue[j][1], recent[s][i], bf)
    BY DEF InLine, RecentInLine
  <2>2. IsAttempt(queue[1]) => Follows(queue[1][1], recent[s][i], bf)
    BY <1>1, <2>1
  <2>3. \A j \in 1 .. Len(queue') : IsAttempt(queue'[j]) => Follows(queue'[j][1], recent[s][i], bf)
    BY <1>1, <1>2, <2>1
  <2> QED  BY <2>1, <2>2, <2>3
<1> QED  BY <1>3, <1>4, <1>5 DEF InLine

\* The call the worker holds goes before those that are listed.
LEMMA LinePushed ==
    ASSUME CallerAssumption, GraphAssumption, GraphTypeOK, NEW on, NEW bf, InLine(on, bf), PushRecent
    PROVE  InLine(on, bf)'
<1> DEFINE s == SessionOf[held[1]]
           new == recent'[s]
<1>1. /\ UNCHANGED <<queue, held>> /\ Busy /\ ~Busy' /\ IsAttempt(held)
  BY Pushing DEF PushRecent, Busy, IsAttempt
<1>2. /\ s \in Sessions /\ \A r \in Sessions : r # s => recent'[r] = recent[r]
      /\ Len(new) \in Nat /\ new[1] = held[1]
      /\ \A i \in 1 .. Len(new) :
             i = 1 \/ (i - 1 \in 1 .. Len(recent[s]) /\ new[i] = recent[s][i - 1])
  BY Pushing
<1>3. /\ held[1] \in on
      /\ \A j \in 1 .. Len(queue) : IsAttempt(queue[j]) => Follows(queue[j][1], held[1], bf)
  BY <1>1 DEF InLine, HeldInLine
<1>4. ASSUME NEW r \in Sessions, NEW i \in 1 .. Len(recent[r])
      PROVE  /\ recent[r][i] \in on /\ SessionOf[recent[r][i]] = r
             /\ \A j \in 1 .. Len(recent[r]) : i < j => Follows(recent[r][i], recent[r][j], bf)
             /\ Follows(held[1], recent[r][i], bf)
             /\ \A j \in 1 .. Len(queue) : IsAttempt(queue[j])
                    => Follows(queue[j][1], recent[r][i], bf)
  BY <1>1 DEF InLine, RecentInLine
<1>5. ASSUME NEW i \in 1 .. Len(new)
      PROVE  /\ new[i] \in on /\ SessionOf[new[i]] = s
             /\ \A j \in 1 .. Len(new) : i < j => Follows(new[i], new[j], bf)
             /\ \A j \in 1 .. Len(queue) : IsAttempt(queue[j]) => Follows(queue[j][1], new[i], bf)
  <2>1. ASSUME NEW j \in 1 .. Len(new), i < j
        PROVE  j - 1 \in 1 .. Len(recent[s]) /\ new[j] = recent[s][j - 1]
               /\ (i # 1 => i - 1 < j - 1)
    <3>1. j # 1 /\ (i # 1 => i - 1 < j - 1)
      BY <1>2, <2>1
    <3> QED  BY <1>2, <3>1
  <2> HIDE DEF new
  <2>2. CASE i = 1
    <3>1. new[i] = held[1]
      BY <1>2, <2>2
    <3>2. SessionOf[held[1]] = s
      OBVIOUS
    <3> HIDE DEF s
    <3> QED  BY <1>2, <1>3, <1>4, <2>1, <3>1, <3>2
  <2>3. CASE i # 1
    <3>1. i - 1 \in 1 .. Len(recent[s]) /\ new[i] = recent[s][i - 1]
      BY <1>2, <2>3
    <3> HIDE DEF s
    <3>2. ASSUME NEW j \in 1 .. Len(new), i < j
          PROVE  Follows(new[i], new[j], bf)
      <4>1. /\ j - 1 \in 1 .. Len(recent[s]) /\ new[j] = recent[s][j - 1] /\ i - 1 < j - 1
            /\ s \in Sessions
        BY <1>2, <2>1, <2>3, <3>2
      <4>2. Follows(recent[s][i - 1], recent[s][j - 1], bf)
        BY <1>4, <3>1, <4>1
      <4> QED  BY <3>1, <4>1, <4>2
    <3> QED  BY <1>2, <1>4, <3>1, <3>2
  <2> QED  BY <2>2, <2>3
<1>6. QueueInLine(on, bf)' /\ HeldInLine(on, bf)'
  BY <1>1 DEF InLine, QueueInLine, HeldInLine
<1>7. RecentInLine(on, bf)'
  <2> HIDE DEF s
  <2>1. ASSUME NEW r \in Sessions, NEW i \in 1 .. Len(recent'[r])
        PROVE  /\ recent'[r][i] \in on /\ SessionOf[recent'[r][i]] = r
               /\ \A j \in 1 .. Len(recent'[r]) : i < j => Follows(recent'[r][i], recent'[r][j], bf)
               /\ \A j \in 1 .. Len(queue) : IsAttempt(queue[j])
                      => Follows(queue[j][1], recent'[r][i], bf)
    <3>1. CASE r = s
      BY <1>5, <3>1
    <3>2. CASE r # s
      BY <1>2, <1>4, <3>2
    <3> QED  BY <3>1, <3>2
  <2> QED  BY <1>1, <2>1 DEF RecentInLine
<1> QED  BY <1>6, <1>7 DEF InLine

\* Nothing else moves the line, but for a worker that is done and a list that is
\* cleared.
LEMMA LineRests ==
    ASSUME NEW on, NEW bf, InLine(on, bf), UNCHANGED <<queue, held>>, Busy' => Busy,
           UNCHANGED recent \/ ClearRecent
    PROVE  InLine(on, bf)'
<1>1. QueueInLine(on, bf)' /\ HeldInLine(on, bf)'
  BY DEF InLine, QueueInLine, HeldInLine
<1>2. CASE UNCHANGED recent
  <2>1. RecentInLine(on, bf)'
    BY <1>2 DEF InLine, RecentInLine
  <2> QED  BY <1>1, <2>1 DEF InLine
<1>3. CASE ClearRecent
  <2>1. \A s \in Sessions : recent'[s] = <<>> /\ Len(recent'[s]) = 0
    BY <1>3 DEF ClearRecent
  <2>2. RecentInLine(on, bf)'
    BY <2>1 DEF RecentInLine
  <2> QED  BY <1>1, <2>2 DEF InLine
<1> QED  BY <1>2, <1>3

\* So no step lets a call pass another that had been handed on before it began.
LEMMA OrderKept ==
    ASSUME CallerAssumption, GraphAssumption, CallerTypeOK, CallsBounded, GraphTypeOK, HandedBefore,
           InLine(HandedOn, before), [Next]_vars
    PROVE  InLine(HandedOn, before)'
<1>1. PICK old, on, bf : old = HandedOn /\ on = HandedOn' /\ bf = before'
  OBVIOUS
<1>2. old \subseteq on /\ InLine(on, bf) /\ InLine(old, bf)
  <2>1. HandedOn \subseteq on /\ \A c \in HandedOn : bf[c] = before[c]
    BY <1>1, Growing, BeforeKept
  <2> QED  BY <1>1, <2>1, LineGrows
<1>3. ASSUME NEW item \in Item, GraphSubmit(item),
             IsAttempt(item) => item[1] \in on /\ \A a \in old : Follows(item[1], a, bf)
      PROVE  InLine(on, bf)'
  <2>1. UNCHANGED <<worker, held, recent>> /\ (Busy' => Busy)
    BY <1>3 DEF GraphSubmit, Busy
  <2>2. queue' = Append(queue, item) \/ queue' = queue
    BY <1>3 DEF GraphSubmit
  <2> QED  BY <1>2, <1>3, <2>1, <2>2, LineAppended, LineRests
<1>4. ASSUME NEW t \in Thread, pc[t] \in {"traced", "logged"}
      PROVE  CallOf(t) \in Call
  BY <1>4, BegunFacts DEF Between
<1>5. ASSUME NEW t \in Thread, LocalGraph, ToGraph(t), GraphSubmit(<<CallOf(t), "attempt">>)
      PROVE  InLine(on, bf)'
  <2> DEFINE c == CallOf(t)
             item == <<c, "attempt">>
  <2>1. c \in Call /\ c \notin old /\ c \in on
    BY <1>1, <1>5, Growing
  <2>2. \A a \in old : c \notin bf[a]
    <3>1. \A a \in old : a \in Call /\ before[a] \subseteq HandedOn /\ bf[a] = before[a]
      <4>1. HandedOn \subseteq Call
        BY DEF HandedOn
      <4> QED  BY <1>1, <4>1, BeforeKept DEF HandedBefore
    <3> QED  BY <1>1, <2>1, <3>1
  <2>3. item \in Item /\ item[1] = c /\ GraphSubmit(item)
    BY <1>5, <2>1 DEF Item
  <2> HIDE DEF item, c
  <2>4. \A a \in old : Follows(c, a, bf)
    BY <2>1, <2>2 DEF Follows
  <2> QED  BY <1>3, <2>1, <2>3, <2>4
<1>6. ASSUME NEW t \in Thread, ResultToGraph(t), GraphSubmit(<<CallOf(t), "result">>)
      PROVE  InLine(on, bf)'
  <2> DEFINE item == <<CallOf(t), "result">>
  <2>1. item \in Item /\ ~IsAttempt(item) /\ GraphSubmit(item)
    <3>1. CallOf(t) \in Call
      BY <1>4, <1>6 DEF ResultToGraph
    <3> QED  BY <1>6, <3>1 DEF Item, IsAttempt
  <2> HIDE DEF item
  <2> QED  BY <1>3, <2>1
<1>7. ASSUME PutSentinel
      PROVE  InLine(on, bf)'
  <2>1. Sentinel \in Item /\ ~IsAttempt(Sentinel) /\ GraphSubmit(Sentinel)
    BY <1>7 DEF Item, IsAttempt, PutSentinel, GraphSubmit
  <2> QED  BY <1>3, <2>1
<1>8. ASSUME UNCHANGED graphVars \/ WriteCall \/ WriteResult \/ WriteFails \/ ClearRecent
      PROVE  InLine(on, bf)'
  <2>1. UNCHANGED <<queue, held>> /\ (Busy' => Busy) /\ (UNCHANGED recent \/ ClearRecent)
    BY <1>8 DEF graphVars, WriteCall, WriteResult, WriteFails, ClearRecent, Busy
  <2> QED  BY <1>2, <2>1, LineRests
<1>9. InLine(on, bf)'
  BY <1>2, <1>5, <1>6, <1>7, <1>8, NextGraph, LineTaken, LinePushed DEF GraphStep, WorkerStep
<1> QED  BY <1>1, <1>9 DEF InLine, QueueInLine, HeldInLine, RecentInLine
-----------------------------------------------------------------------------
(* What becomes of a call that was handed on.                              *)

\* Membership in a sequence, by position.
LEMMA ToSetFacts ==
    ASSUME NEW S, NEW s \in Seq(S), NEW x
    PROVE  x \in ToSet(s) <=> \E i \in 1 .. Len(s) : s[i] = x
  BY DEF ToSet

\* The call is in the list of its session, or the list is full.
Listed(c) ==
    \/ c \in ToSet(recent[SessionOf[c]])
    \/ Len(recent[SessionOf[c]]) = RecentCap

\* The call is with the graph writer, or was given up by it.
Recorder(c) ==
    \/ Listed(c) \/ Waits(c)
    \/ held = <<c, "attempt">> /\ worker = "pushing"

\* Only clear_session, or a full list, takes a call out of the list.
LEMMA ListedKept ==
    ASSUME CallerAssumption, GraphAssumption, GraphTypeOK, GraphTypeOK', GraphStep \/ UNCHANGED graphVars,
           ~ClearSession, NEW c \in Call, Listed(c)
    PROVE  Listed(c)'
<1> DEFINE s == SessionOf[c]
<1>0. s \in Sessions /\ recent[s] \in Seq(Call) /\ recent'[s] \in Seq(Call)
  <2>1. s \in Sessions
    BY SessionFacts
  <2> QED  BY <2>1 DEF GraphTypeOK
<1>1. CASE recent' = recent
  BY <1>1 DEF Listed
<1>2. CASE PushRecent
  <2>1. CASE s # SessionOf[held[1]]
    <3>1. recent'[s] = recent[s]
      BY <1>0, <1>2, <2>1, Pushing
    <3> QED  BY <3>1 DEF Listed
  <2>2. CASE s = SessionOf[held[1]] /\ Len(recent'[s]) = RecentCap
    BY <2>2 DEF Listed
  <2>3. CASE s = SessionOf[held[1]] /\ Len(recent'[s]) # RecentCap
    <3>1. \A i \in 1 .. Len(recent[s]) : i + 1 \in 1 .. Len(recent'[s])
              /\ recent'[s][i + 1] = recent[s][i]
      BY <1>2, <2>3, Pushing
    <3>2. Len(recent'[s]) \in Nat \ {0} /\ Len(recent'[s]) <= RecentCap
      BY <1>2, <2>3, Pushing
    <3>3. Len(recent[s]) < RecentCap
      <4>1. RecentCap \in Nat \ {0} /\ Len(recent[s]) \in Nat
        BY <1>0 DEF GraphAssumption
      <4>2. CASE Len(recent[s]) = 0
        BY <4>1, <4>2
      <4>3. CASE Len(recent[s]) # 0
        <5>1. Len(recent[s]) \in 1 .. Len(recent[s])
          BY <4>1, <4>3
        <5>2. Len(recent[s]) + 1 \in 1 .. Len(recent'[s])
          BY <3>1, <5>1
        <5> QED  BY <2>3, <3>2, <4>1, <5>2
      <4> QED  BY <4>2, <4>3
    <3>4. c \in ToSet(recent[s])
      <4>1. Len(recent[s]) # RecentCap
        <5>1. RecentCap \in Nat /\ Len(recent[s]) \in Nat
          BY <1>0 DEF GraphAssumption
        <5> QED  BY <3>3, <5>1
      <4> QED  BY <4>1 DEF Listed
    <3>5. PICK i \in 1 .. Len(recent[s]) : recent[s][i] = c
      BY <1>0, <3>4, ToSetFacts
    <3>6. i + 1 \in 1 .. Len(recent'[s]) /\ recent'[s][i + 1] = c
      BY <3>1, <3>5
    <3>7. c \in ToSet(recent'[s])
      BY <1>0, <3>6, ToSetFacts
    <3> QED  BY <3>7 DEF Listed
  <2> QED  BY <2>1, <2>2, <2>3
<1>3. recent' = recent \/ PushRecent
  BY DEF GraphStep, graphVars, GraphSubmit, PutSentinel, WorkerStep, Take, WriteCall,
         WriteResult, WriteFails
<1> QED  BY <1>1, <1>2, <1>3

\* What waits goes on waiting or is taken.
LEMMA QueueKept ==
    ASSUME CallerAssumption, CallerTypeOK, CallsBounded, GraphTypeOK, GraphTypeOK',
           GraphStep \/ UNCHANGED graphVars, NEW c \in Call, <<c, "attempt">> \in ToSet(queue)
    PROVE  \/ <<c, "attempt">> \in ToSet(queue')
           \/ held' = <<c, "attempt">> /\ worker' = "writing"
<1> DEFINE item == <<c, "attempt">>
<1>0. queue \in Seq(Item) /\ queue' \in Seq(Item) /\ Len(queue) \in Nat /\ item # Sentinel
  <2>1. item # Sentinel
    BY DEF Sentinel
  <2> QED  BY <2>1 DEF GraphTypeOK
<1>1. PICK i \in 1 .. Len(queue) : queue[i] = item
  BY <1>0, ToSetFacts
<1> HIDE DEF item
<1>2. CASE queue' = queue
  BY <1>2 DEF item
<1>3. ASSUME NEW x \in Item, queue' = Append(queue, x)
      PROVE  item \in ToSet(queue')
  <2>1. i \in 1 .. Len(queue') /\ queue'[i] = item
    BY <1>0, <1>1, <1>3, Submitting
  <2> QED  BY <1>0, <2>1, ToSetFacts
<1>4. CASE Take
  <2>1. /\ Len(queue') = Len(queue) - 1 /\ held' = queue[1] /\ queue[1] = Head(queue)
        /\ \A j \in 1 .. Len(queue') : queue'[j] = queue[j + 1]
    BY <1>0, <1>4, Taking
  <2>2. CASE i = 1
    <3>1. held' = item /\ Head(queue) # Sentinel
      BY <1>0, <1>1, <2>1, <2>2
    <3> QED  BY <1>4, <3>1 DEF Take, item
  <2>3. CASE i # 1
    <3>1. i - 1 \in 1 .. Len(queue') /\ (i - 1) + 1 = i
      BY <1>0, <2>1, <2>3
    <3>2. queue'[i - 1] = item
      BY <1>1, <2>1, <3>1
    <3>3. item \in ToSet(queue')
      BY <1>0, <3>1, <3>2, ToSetFacts
    <3> QED  BY <3>3 DEF item
  <2> QED  BY <2>2, <2>3
<1>5. ASSUME NEW t \in Thread, ToGraph(t) \/ ResultToGraph(t)
      PROVE  <<CallOf(t), "attempt">> \in Item /\ <<CallOf(t), "result">> \in Item
  BY <1>5, BegunFacts DEF ToGraph, ResultToGraph, Between, Item
<1>6. Sentinel \in Item
  BY DEF Item
<1>7. queue' = queue \/ Take \/ \E x \in Item : queue' = Append(queue, x)
  BY <1>5, <1>6 DEF GraphStep, graphVars, GraphSubmit, PutSentinel, WorkerStep, WriteCall,
                    PushRecent, WriteResult, WriteFails, ClearRecent
<1> QED  BY <1>2, <1>3, <1>4, <1>7 DEF item

\* What waits to be written waits, is lost, or is written.
LEMMA WaitsKept ==
    ASSUME CallerAssumption, CallerTypeOK, CallsBounded, GraphTypeOK, GraphTypeOK',
           GraphStep \/ UNCHANGED graphVars, NEW c \in Call, Waits(c)
    PROVE  \/ Waits(c)'
           \/ Edged(c)' /\ held' = <<c, "attempt">> /\ worker' = "pushing"
<1> DEFINE item == <<c, "attempt">>
<1>1. CASE item \in ToSet(queue)
  BY <1>1, QueueKept DEF Waits
<1>2. CASE item \in lost
  <2>1. lost \subseteq lost'
    BY DEF GraphStep, graphVars, GraphSubmit, PutSentinel, WorkerStep, Take, WriteCall,
           PushRecent, WriteResult, WriteFails, ClearRecent
  <2> QED  BY <1>2, <2>1 DEF Waits
<1>3. CASE held = item /\ worker = "writing"
  <2>1. CASE WriteCall
    <3>1. /\ held' = item /\ worker' = "pushing"
          /\ {<<held[1], ref.node>> : ref \in Refs[held[1]]} \subseteq edges'
      BY <1>3, <2>1 DEF WriteCall
    <3>2. held[1] = c
      BY <1>3
    <3> QED  BY <3>1, <3>2 DEF Edged
  <2>2. CASE WriteFails
    BY <1>3, <2>2 DEF WriteFails, Waits
  <2>3. ~Take /\ ~WriteResult /\ ~PushRecent
    BY <1>3 DEF Take, WriteResult, PushRecent
  <2>4. WriteCall \/ WriteFails \/ (held' = held /\ worker' = worker)
    BY <2>3 DEF GraphStep, graphVars, GraphSubmit, PutSentinel, WorkerStep, ClearRecent
  <2> QED  BY <1>3, <2>1, <2>2, <2>4 DEF Waits
<1> QED  BY <1>1, <1>2, <1>3 DEF Waits

\* The graph writer forgets no call unless its cache is cleared.
LEMMA RecorderKept ==
    ASSUME CallerAssumption, GraphAssumption, CallerTypeOK, CallsBounded, GraphTypeOK,
           GraphTypeOK', GraphStep \/ UNCHANGED graphVars, ~ClearSession,
           NEW c \in Call, Recorder(c)
    PROVE  Recorder(c)'
<1> DEFINE item == <<c, "attempt">>
<1>1. CASE Listed(c)
  BY <1>1, ListedKept DEF Recorder
<1>2. CASE Waits(c)
  BY <1>2, WaitsKept DEF Recorder
<1>3. CASE held = item /\ worker = "pushing"
  <2>1. CASE PushRecent
    <3> DEFINE s == SessionOf[c]
    <3>1. held[1] = c /\ s \in Sessions
      BY <1>3, SessionFacts
    <3>2. Len(recent'[s]) \in Nat \ {0} /\ recent'[s][1] = c /\ recent'[s] \in Seq(Call)
      BY <2>1, <3>1, Pushing
    <3>3. 1 \in 1 .. Len(recent'[s])
      BY <3>2
    <3>4. c \in ToSet(recent'[s])
      BY <3>2, <3>3, ToSetFacts
    <3> QED  BY <3>4 DEF Recorder, Listed
  <2>2. CASE WriteFails
    BY <1>3, <2>2 DEF WriteFails, Recorder, Waits
  <2>3. ~Take /\ ~WriteResult /\ ~WriteCall
    BY <1>3 DEF Take, WriteResult, WriteCall
  <2>4. PushRecent \/ WriteFails \/ (held' = held /\ worker' = worker)
    BY <2>3 DEF GraphStep, graphVars, GraphSubmit, PutSentinel, WorkerStep, ClearRecent
  <2> QED  BY <1>3, <2>1, <2>2, <2>4 DEF Recorder
<1> QED  BY <1>1, <1>2, <1>3 DEF Recorder

\* A call that is handed on waits, or is lost.
LEMMA HandedWaits ==
    ASSUME CallerAssumption, GraphTypeOK, LocalGraph,
           NEW t \in Thread, NEW c \in Call, c = CallOf(t), ToGraph(t)
    PROVE  Waits(c)'
<1> DEFINE item == <<c, "attempt">>
<1>1. item \in Item /\ GraphSubmit(item)
  BY DEF ToGraph, Recorded, Item
<1>2. CASE queue' = Append(queue, item)
  <2>1. /\ queue' \in Seq(Item) /\ Len(queue') = Len(queue) + 1
        /\ queue'[Len(queue) + 1] = item
    BY <1>1, <1>2, Submitting
  <2>2. Len(queue) + 1 \in 1 .. Len(queue')
    BY <2>1, ItemFacts
  <2>3. item \in ToSet(queue')
    BY <2>1, <2>2, ToSetFacts
  <2> QED  BY <2>3 DEF Waits
<1>3. CASE lost' = lost \cup {item}
  BY <1>3 DEF Waits
<1> QED  BY <1>1, <1>2, <1>3 DEF GraphSubmit

\* What was handed on stays written, or waiting, or lost.
LEMMA WrittenKept ==
    ASSUME CallerAssumption, CallerTypeOK, CallsBounded, GraphTypeOK, GraphTypeOK', Written, [Next]_vars
    PROVE  Written'
<1>1. edges \subseteq edges' /\ (GraphStep \/ UNCHANGED graphVars)
  BY NextGraph DEF GraphStep, graphVars, GraphSubmit, PutSentinel, WorkerStep, Take, WriteCall,
                   PushRecent, WriteResult, WriteFails, ClearRecent
<1>2. ASSUME NEW c \in HandedOn
      PROVE  Waits(c)' \/ Edged(c)'
  <2>1. c \in Call /\ (Waits(c) \/ Edged(c))
    BY DEF Written, HandedOn
  <2>2. Edged(c) => Edged(c)'
    BY <1>1 DEF Edged
  <2> QED  BY <1>1, <2>1, <2>2, WaitsKept
<1>3. ASSUME NEW t \in Thread, LocalGraph, ToGraph(t)
      PROVE  Written'
  <2>1. PICK c \in Call : c = CallOf(t) /\ HandedOn' = HandedOn \cup {c}
    BY <1>3, Growing
  <2>2. Waits(c)'
    BY <1>3, <2>1, HandedWaits
  <2>3. \A b \in HandedOn' : Waits(b)' \/ Edged(b)'
    BY <1>2, <2>1, <2>2
  <2> QED  BY <2>3 DEF Written
<1>4. ASSUME HandedOn' = HandedOn
      PROVE  Written'
  BY <1>2, <1>4 DEF Written
<1> QED  BY <1>3, <1>4, Growing

\* A call that began and is not gone stays somewhere.
LEMMA PlacedKept ==
    ASSUME CallerAssumption, GraphAssumption, CallerTypeOK, CallsBounded, GraphTypeOK, TraceHolds,
           Placed, GraphTypeOK', [Next]_vars
    PROVE  Placed'
<1> SUFFICES ASSUME LocalGraph, NEW c \in Begun'
             PROVE  c \in gone' \/ Accounted(c)'
  BY DEF Placed
<1>0. /\ Accounted(c) <=> Recorder(c) \/ (c = CallOf(c[1]) /\ pc[c[1]] = "traced")
      /\ Accounted(c)' <=> \/ Recorder(c)'
                           \/ c = <<c[1], made'[c[1]] + 1>> /\ pc'[c[1]] = "traced"
  BY DEF Accounted, Recorder, Listed, Waits, CallOf
<1>1. c \in Call /\ c[1] \in Thread /\ SessionOf[c] \in Sessions
  <2>1. c \in Call
    BY DEF Begun
  <2> QED  BY <2>1, SessionFacts
<1>2. CASE ClearSession
  <2>1. gone' = gone \cup UNION {ToSet(trace[s]) : s \in Sessions}
    BY <1>2 DEF ClearSession
  <2>2. Begun' = Begun
    <3>1. pc' = pc /\ made' = made
      BY <1>2 DEF ClearSession
    <3> QED  BY <3>1 DEF Begun, Attempted
  <2>3. c \in gone \/ c \in ToSet(trace[SessionOf[c]])
    BY <2>2 DEF TraceHolds
  <2> QED  BY <1>1, <2>1, <2>3
<1>3. CASE ~ClearSession /\ c \in Begun
  <2>1. gone \subseteq gone'
    BY <1>3, ZenonT(30) DEF Next, Caller, Attempt, ToGraph, ToSlowPath, LogAttempt, ResultToGraph, LogResult,
                Flush, Flushed, Close, ActorStops, Behind, vars, callerVars
  <2>2. Recorder(c) => Recorder(c)'
    BY <1>1, <1>3, NextGraph, RecorderKept
  <2>3. CASE c = CallOf(c[1]) /\ pc[c[1]] = "traced"
    <3>1. PICK t \in Thread : t = c[1]
      BY <1>1
    <3>2. CASE ToGraph(t)
      <4>1. Waits(c)'
        BY <1>1, <2>3, <3>1, <3>2, HandedWaits
      <4> QED  BY <1>0, <4>1 DEF Recorder
    <3>3. ToGraph(t) \/ (pc'[t] = "traced" /\ made'[t] = made[t])
      <4>1. ASSUME NEW u \in Thread, Caller(u), u # t
            PROVE  pc'[t] = "traced" /\ made'[t] = made[t]
        BY <2>3, <3>1, <4>1 DEF Caller, Attempt, ToGraph, ToSlowPath, LogAttempt, ResultToGraph,
                          LogResult, Flush, Flushed, CallerTypeOK
      <4>2. ASSUME Caller(t)
            PROVE  ToGraph(t)
        BY <2>3, <3>1, <4>2 DEF Caller, Attempt, ToSlowPath, LogAttempt, ResultToGraph,
                          LogResult, Flush, Flushed
      <4>3. CASE Close \/ ActorStops \/ Behind \/ UNCHANGED vars
        BY <2>3, <3>1, <4>3 DEF Close, ActorStops, Behind, vars, callerVars
      <4> QED  BY <1>3, <4>1, <4>2, <4>3 DEF Next
    <3>4. CASE pc'[t] = "traced" /\ made'[t] = made[t]
      BY <1>0, <2>3, <3>1, <3>4 DEF CallOf
    <3> QED  BY <3>2, <3>3, <3>4
  <2> QED  BY <1>0, <1>3, <2>1, <2>2, <2>3 DEF Placed
<1>4. CASE c \notin Begun
  <2>1. PICK t \in Thread, v \in Verdict : Attempt(t, v)
    BY <1>4, Growing
  <2>2. c = CallOf(t)
    BY <1>4, <2>1, Growing
  <2>3. c = <<t, made[t] + 1>> /\ c[1] = t /\ made' = made /\ pc'[t] = "traced"
    BY <2>1, <2>2 DEF CallOf, Attempt, CallerTypeOK
  <2> QED  BY <1>0, <2>3
<1> QED  BY <1>2, <1>3, <1>4
-----------------------------------------------------------------------------
(* What the histories promise.                                             *)

GraphInv ==
    /\ CallerTypeOK /\ CallsBounded /\ FlushesLocally /\ GraphTypeOK
    /\ TraceHolds /\ HandedBefore /\ InLine(HandedOn, before)
    /\ UnfinishedCounted /\ Written /\ Placed

\* What is held by the trace and in line agrees.
LEMMA InLineAgrees ==
    ASSUME CallerAssumption, CallerTypeOK, CallsBounded, GraphTypeOK, TraceHolds,
           InLine(HandedOn, before), Placed
    PROVE  HistoriesAgree
<1> SUFFICES ASSUME NEW s \in Sessions
             PROVE  /\ ToSet(recent[s]) \subseteq ToSet(trace[s]) \cup gone
                    /\ \A i, j \in DOMAIN recent[s] :
                           i < j => recent[s][i] # recent[s][j]
                                    /\ recent[s][i] \notin before[recent[s][j]]
                    /\ LocalGraph => \A c \in ToSet(trace[s]) : Accounted(c)
  BY DEF HistoriesAgree
<1>1. /\ recent[s] \in Seq(Call) /\ DOMAIN recent[s] = 1 .. Len(recent[s])
      /\ trace[s] \in Seq(Call) /\ DOMAIN trace[s] = 1 .. Len(trace[s])
  <2>1. recent[s] \in Seq(Call) /\ trace[s] \in Seq(Call)
    BY DEF GraphTypeOK, CallerTypeOK
  <2> QED  BY <2>1
<1>2. ASSUME NEW c \in ToSet(recent[s])
      PROVE  c \in ToSet(trace[s]) \cup gone
  <2>1. PICK i \in 1 .. Len(recent[s]) : recent[s][i] = c
    BY <1>1, ToSetFacts
  <2>2. c \in HandedOn /\ SessionOf[c] = s
    BY <2>1 DEF InLine, RecentInLine
  <2>3. c \in Begun
    <3>1. c \in Call /\ c[1] \in Thread /\ c[2] \in Nat /\ c[2] <= Submitted(c[1])
      <4>1. c \in Call /\ c[2] <= Submitted(c[1])
        BY <2>2 DEF HandedOn
      <4> QED  BY <4>1, SessionFacts
    <3>2. Submitted(c[1]) \in Nat /\ Attempted(c[1]) \in Nat /\ Submitted(c[1]) <= Attempted(c[1])
      BY <3>1, NumberFacts
    <3> QED  BY <3>1, <3>2 DEF Begun
  <2> QED  BY <2>2, <2>3 DEF TraceHolds
<1>3. \A i, j \in DOMAIN recent[s] :
          i < j => recent[s][i] # recent[s][j] /\ recent[s][i] \notin before[recent[s][j]]
  <2> SUFFICES ASSUME NEW i \in DOMAIN recent[s], NEW j \in DOMAIN recent[s], i < j
               PROVE  recent[s][i] # recent[s][j] /\ recent[s][i] \notin before[recent[s][j]]
    OBVIOUS
  <2>1. i \in 1 .. Len(recent[s]) /\ j \in 1 .. Len(recent[s])
    BY <1>1
  <2>2. Follows(recent[s][i], recent[s][j], before)
    BY <2>1 DEF InLine, RecentInLine
  <2> QED  BY <2>2 DEF Follows
<1>4. ASSUME LocalGraph, NEW c \in ToSet(trace[s])
      PROVE  Accounted(c)
  <2>1. PICK k \in 1 .. Len(trace[s]) : trace[s][k] = c
    BY <1>1, ToSetFacts
  <2>2. c \in Begun /\ c \notin gone
    BY <2>1 DEF TraceHolds
  <2> QED  BY <1>4, <2>2 DEF Placed
<1> QED  BY <1>2, <1>3, <1>4

\* When the queue's join returns, the calls of the thread are written, and what
\* is listed leaves the list for newer calls or with clear_session.
LEMMA FlushedKept ==
    ASSUME CallerAssumption, GraphAssumption, GraphInv, GraphInv', FlushedIsWritten, [Next]_vars
    PROVE  FlushedIsWritten'
<1> USE DEF GraphInv
<1> SUFFICES ASSUME NEW t \in Thread, pc'[t] = "flushed", NEW n \in 1 .. made'[t]
             PROVE  LET c == <<t, n>> IN
                    \/ <<c, "attempt">> \in lost'
                    \/ Edged(c)' /\ (c \in gone' \/ Listed(c)')
  BY DEF FlushedIsWritten, Edged, Listed
<1> DEFINE c == <<t, n>>
<1>1. /\ pc[t] = "flushed" \/ Flushed(t)
      /\ made'[t] = made[t] /\ made[t] \in Nat
  <2>1. ASSUME NEW u \in Thread, Caller(u)
        PROVE  (pc[t] = "flushed" /\ made'[t] = made[t]) \/ (Flushed(t) /\ made'[t] = made[t])
    <3>1. CASE u = t
      BY <2>1, <3>1 DEF Caller, Attempt, ToGraph, ToSlowPath, LogAttempt, ResultToGraph,
                        LogResult, Flush, Flushed, CallerTypeOK
    <3>2. CASE u # t
      BY <2>1, <3>2 DEF Caller, Attempt, ToGraph, ToSlowPath, LogAttempt, ResultToGraph,
                        LogResult, Flush, Flushed, CallerTypeOK
    <3> QED  BY <3>1, <3>2
  <2>2. ASSUME ClearSession \/ Close \/ ActorStops \/ Behind \/ UNCHANGED vars
        PROVE  pc[t] = "flushed" /\ made'[t] = made[t]
    BY <2>2 DEF ClearSession, Close, ActorStops, Behind, vars, callerVars
  <2>3. made[t] \in Nat
    BY NumberFacts
  <2> QED  BY <2>1, <2>2, <2>3 DEF Next
<1>2. /\ pc[t] \in {"flushing", "flushed"} /\ LocalGraph /\ c \in Call /\ c[1] = t /\ c[2] = n
      /\ c \in HandedOn /\ c \in Begun
  <2>1. pc[t] \in {"flushing", "flushed"}
    BY <1>1 DEF Flushed
  <2>2. Attempted(t) = made[t] /\ Submitted(t) = made[t]
    BY <2>1, NumberFacts DEF Between, Handed
  <2>3. n \in 1 .. MaxCalls[t]
    BY <1>1, <2>2, CallFacts DEF CallsBounded
  <2>4. c \in Call /\ n <= made[t]
    BY <1>1, <2>3, CallFacts
  <2> QED  BY <2>1, <2>2, <2>4 DEF FlushesLocally, HandedOn, Begun
<1>3. /\ lost \subseteq lost' /\ edges \subseteq edges'
      /\ gone \subseteq gone'
  <2>1. GraphStep \/ UNCHANGED graphVars
    BY NextGraph
  <2>2. lost \subseteq lost' /\ edges \subseteq edges'
    BY <2>1 DEF GraphStep, graphVars, GraphSubmit, PutSentinel, WorkerStep, Take, WriteCall,
                PushRecent, WriteResult, WriteFails, ClearRecent
  <2>3. gone \subseteq gone'
    BY DEF Next, Caller, Attempt, ToGraph, ToSlowPath, LogAttempt, ResultToGraph, LogResult,
           Flush, Flushed, ClearSession, Close, ActorStops, Behind, vars, callerVars
  <2> QED  BY <2>2, <2>3
<1> HIDE DEF c
<1>4. ASSUME \/ <<c, "attempt">> \in lost
             \/ Edged(c) /\ (c \in gone \/ Listed(c))
      PROVE  \/ <<c, "attempt">> \in lost'
             \/ Edged(c)' /\ (c \in gone' \/ Listed(c)')
  <2>1. Edged(c) => Edged(c)'
    BY <1>3 DEF Edged
  <2>2. CASE ClearSession
    <3>1. gone' = gone \cup UNION {ToSet(trace[s]) : s \in Sessions} /\ SessionOf[c] \in Sessions
      BY <1>2, <2>2, SessionFacts DEF ClearSession
    <3>2. c \in gone'
      BY <1>2, <3>1 DEF TraceHolds
    <3> QED  BY <1>3, <1>4, <2>1, <3>2
  <2>3. CASE ~ClearSession
    <3>1. Listed(c) => Listed(c)'
      BY <1>2, <2>3, NextGraph, ListedKept
    <3> QED  BY <1>3, <1>4, <2>1, <3>1
  <2> QED  BY <2>2, <2>3
<1>5. CASE Flushed(t)
  <2>1. unfinished = 0 /\ queue = <<>> /\ ~Busy
    <3>1. unfinished = 0
      BY <1>5 DEF Flushed
    <3>2. Len(queue) \in Nat /\ queue \in Seq(Item)
      BY DEF GraphTypeOK
    <3>3. Len(queue) = 0 /\ ~Busy
      BY <3>1, <3>2 DEF UnfinishedCounted
    <3> QED  BY <3>1, <3>2, <3>3, EmptySeq
  <2>2. <<c, "attempt">> \notin ToSet(queue) /\ pc[t] # "traced"
    BY <1>2, <2>1 DEF ToSet
  <2>3. <<c, "attempt">> \in lost \/ Edged(c)
    BY <1>2, <2>1, <2>2 DEF Written, Waits, Busy
  <2>4. <<c, "attempt">> \in lost \/ c \in gone \/ Listed(c)
    BY <1>2, <2>1, <2>2 DEF Placed, Accounted, Listed, Busy
  <2> QED  BY <1>4, <2>3, <2>4 DEF c
<1>6. CASE pc[t] = "flushed"
  <2>1. \/ <<c, "attempt">> \in lost
        \/ Edged(c) /\ (c \in gone \/ Listed(c))
    BY <1>1, <1>6 DEF FlushedIsWritten, Edged, Listed, c
  <2> QED  BY <1>4, <2>1 DEF c
<1> QED  BY <1>1, <1>5, <1>6
-----------------------------------------------------------------------------
(* The theorems.                                                           *)

IInv == SlowInv /\ GraphInv

\* It all holds at first.
LEMMA InitInv ==
    ASSUME AuditAssumption, SlowAssumption, GraphAssumption, CallerAssumption, Init
    PROVE  IInv /\ OneSynthesisPerCooldown /\ FlushedIsWritten
<1>1. AuditTypeOK /\ BufferIsNewest
  <2>1. logged = <<>> /\ buffer = <<>> /\ dropped = 0 /\ loopOn = FALSE /\ sent = {}
    BY DEF Init, AuditInit
  <2>2. Len(buffer) = 0 /\ Len(logged) = 0
    BY <2>1
  <2>3. BufferIsNewest
    <3>1. BufferSize \in Nat
      BY DEF AuditAssumption
    <3> QED  BY <2>2, <3>1 DEF BufferIsNewest
  <2>4. AuditTypeOK
    <3>1. logged \in Seq(Record) /\ buffer \in Seq(Nat)
      BY <2>1
    <3>2. dropped \in Nat /\ sent \subseteq Nat
      BY <2>1
    <3>3. loopOn \in BOOLEAN
      BY <2>1
    <3> QED  BY <3>1, <3>2, <3>3 DEF AuditTypeOK
  <2> QED  BY <2>3, <2>4
<1>2. SlowTypeOK
  <2>1. /\ attached = Hooked /\ loops = <<>>
        /\ task = [c \in Task |-> [at |-> "none", loop |-> 0]]
        /\ found = [c \in Task |-> "none"] /\ counter = 0
        /\ lastSynth = [b \in Buckets |-> LongAgo]
        /\ synths = {} /\ dynamic = {} /\ now = 0
    BY DEF Init, SlowInit, Buckets
  <2>2. task \in [Task -> [at : Places, loop : Nat]] /\ found \in [Task -> Decisions]
    BY <2>1 DEF Places, Decisions
  <2>3. LongAgo \in Int /\ Hooked \in BOOLEAN
    BY DEF LongAgo, SlowAssumption
  <2>4. lastSynth \in [Buckets -> Int]
    BY <2>1, <2>3
  <2> QED  BY <2>1, <2>2, <2>3, <2>4 DEF SlowTypeOK
<1>3. SynthesesNoted /\ OneSynthesisPerCooldown
  BY DEF Init, SlowInit, SynthesesNoted, OneSynthesisPerCooldown
<1>4. /\ pc = [t \in Thread |-> "idle"] /\ made = [t \in Thread |-> 0]
      /\ decision = [t \in Thread |-> "none"] /\ trace = [s \in Sessions |-> <<>>]
      /\ stats = [total |-> 0, refused |-> 0] /\ closing = "open" /\ gone = {}
      /\ stops = 0 /\ before = [c \in Call |-> {}]
      /\ queue = <<>> /\ unfinished = 0 /\ worker = "waiting" /\ held = Sentinel
      /\ recent = [s \in Sessions |-> <<>>] /\ lost = {}
  BY DEF Init, GraphInit
<1>5. CallerTypeOK
  BY <1>4 DEF CallerTypeOK, Decisions
<1>6. GraphTypeOK
  <2>1. \A s \in Sessions : recent[s] = <<>> /\ Len(recent[s]) <= RecentCap
    BY <1>4 DEF GraphAssumption
  <2>2. recent \in [Sessions -> Seq(Call)]
    BY <1>4
  <2> QED  BY <1>4, <2>1, <2>2 DEF GraphTypeOK, Item
<1>7. Begun = {} /\ HandedOn = {} /\ \A t \in Thread : Attempted(t) = 0 /\ pc[t] = "idle"
  <2>1. \A t \in Thread : Attempted(t) = 0 /\ Submitted(t) = 0 /\ pc[t] = "idle"
    BY <1>4 DEF Attempted, Submitted, Between
  <2>2. \A c \in Call : c[1] \in Thread /\ c[2] \in Nat \ {0}
    BY SessionFacts
  <2>3. \A c \in Call : ~(c[2] <= Attempted(c[1])) /\ ~(c[2] <= Submitted(c[1]))
    BY <2>1, <2>2
  <2> QED  BY <2>1, <2>3 DEF Begun, HandedOn
<1>8. CallsBounded /\ FlushesLocally /\ FlushedIsWritten
  <2>1. \A t \in Thread : MaxCalls[t] \in Nat
    BY CallFacts
  <2> QED  BY <1>7, <2>1 DEF CallsBounded, FlushesLocally, FlushedIsWritten
<1>9. TraceHolds /\ HandedBefore /\ Placed
  <2>1. \A s \in Sessions : trace[s] = <<>> /\ Len(trace[s]) = 0
    BY <1>4
  <2> QED  BY <1>4, <1>7, <2>1 DEF TraceHolds, HandedBefore, Placed
<1>10. InLine(HandedOn, before) /\ UnfinishedCounted /\ Written
  <2>1. Len(queue) = 0 /\ ~Busy /\ \A s \in Sessions : Len(recent[s]) = 0
    BY <1>4 DEF Busy
  <2> QED  BY <1>4, <1>7, <2>1 DEF InLine, QueueInLine, HeldInLine, RecentInLine,
                                   UnfinishedCounted, Written
<1> QED  BY <1>1, <1>2, <1>3, <1>5, <1>6, <1>8, <1>9, <1>10 DEF IInv, SlowInv, GraphInv

\* Every step keeps it.
LEMMA NextInv ==
    ASSUME AuditAssumption, SlowAssumption, GraphAssumption, CallerAssumption, IInv, [Next]_vars
    PROVE  IInv'
<1> USE DEF IInv
<1>1. SlowInv'
  BY NextAudit, NextSlow, AuditKept, SlowKept DEF SlowInv, GraphInv
<1>2. GraphInv'
  <2> USE DEF GraphInv
  <2>1. CallerTypeOK' /\ CallsBounded' /\ FlushesLocally'
    BY CallersKept
  <2>2. GraphTypeOK' /\ UnfinishedCounted'
    BY NextGraph, GraphKept
  <2>3. TraceHolds' /\ HandedBefore'
    BY TraceKept, BeforeKept
  <2>4. InLine(HandedOn, before)'
    BY OrderKept
  <2>5. Placed' /\ Written'
    BY <2>2, PlacedKept, WrittenKept
  <2> QED  BY <2>1, <2>2, <2>3, <2>4, <2>5
<1> QED  BY <1>1, <1>2

\* So it is an invariant.
LEMMA Invariance == Spec => []IInv
<1>1. Init => IInv
  BY InitInv, AuditAssumption, SlowAssumption, GraphAssumption, CallerAssumption
<1>2. IInv /\ [Next]_vars => IInv'
  BY NextInv, AuditAssumption, SlowAssumption, GraphAssumption, CallerAssumption
<1> QED  BY <1>1, <1>2, PTL DEF Spec

\* Every variable of the three recorders and of their callers keeps its type.
THEOREM TypeCorrect == Spec => []TypeOK
<1>1. IInv => TypeOK
  BY DEF IInv, SlowInv, GraphInv, TypeOK
<1> QED  BY <1>1, Invariance, PTL

\* The list of previous tools that the graph writer keeps and the trace that the
\* callers keep tell the same history: of handle_attempt, GraphWriter._run and
\* clear_session, for any number of sessions, of threads in each of them, of
\* calls and of places in the queue, in the list and in the trace.
THEOREM HistoriesNeverDisagree == Spec => []HistoriesAgree
<1>1. IInv => HistoriesAgree
  BY InLineAgrees, CallerAssumption DEF IInv, GraphInv
<1> QED  BY <1>1, Invariance, PTL

\* GraphWriter.flush returns only when what its caller submitted is written or
\* lost, whoever else submits, clears or closes.
THEOREM FlushWaits == Spec => []FlushedIsWritten
<1>1. Init => FlushedIsWritten
  BY InitInv, AuditAssumption, SlowAssumption, GraphAssumption, CallerAssumption
<1>2. IInv /\ IInv' /\ FlushedIsWritten /\ [Next]_vars => FlushedIsWritten'
  BY FlushedKept, GraphAssumption, CallerAssumption DEF IInv
<1> QED  BY <1>1, <1>2, Invariance, PTL DEF Spec

\* DynamicRuleUpdater synthesizes for an agent and tool at most once in a
\* cooldown, on however many event loops its hook runs.
THEOREM CooldownHolds == Spec => []OneSynthesisPerCooldown
<1>1. Init => OneSynthesisPerCooldown
  BY InitInv, AuditAssumption, SlowAssumption, GraphAssumption, CallerAssumption
<1>2. IInv /\ OneSynthesisPerCooldown /\ [Next]_vars => OneSynthesisPerCooldown'
  BY NextSlow, CooldownKept, SlowAssumption DEF IInv, SlowInv
<1> QED  BY <1>1, <1>2, Invariance, PTL DEF Spec

\* _latest_decision_for misses the decision on a call only when it is not logged
\* yet, or no longer among the newest records.
THEOREM MissesAreExplained == Spec => PassedOverExplained
<1> DEFINE Explained == \A c \in Task : task[c].at # "missed" /\ task'[c].at = "missed" =>
                            \A i \in DOMAIN logged :
                                logged[i].call = c /\ logged[i].decision # "none" =>
                                    Len(logged) - i >= Min({Window, BufferSize})
<1>1. IInv /\ [Next]_vars => [Explained]_vars
  <2> SUFFICES ASSUME IInv, [Next]_vars PROVE Explained
    OBVIOUS
  <2>1. SlowStep \/ UNCHANGED slowVars
    BY NextSlow
  <2> QED  BY <2>1, MissedByWindow, AuditAssumption, SlowAssumption DEF IInv, SlowInv
<1>2. PassedOverExplained <=> [][Explained]_vars
  BY DEF PassedOverExplained
<1> QED  BY <1>1, <1>2, Invariance, PTL DEF Spec
=============================================================================
