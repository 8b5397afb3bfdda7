-------------------------- MODULE GuardedCallProofs --------------------------
EXTENDS GuardedCall, FiniteSetTheorems, WellFoundedInduction, TLAPS

-----------------------------------------------------------------------------
(* The inductive invariant: what is known of a call at each place.         *)

Checked(c) == Action(c) \in {"LLM_CHECK", "HUMAN_CHECK"}

\* The last judgement is of the form at hand.
JudgedInv(c) ==
    /\ call[c].at = "idle" => call[c].judged = <<>>
    /\ call[c].at \in {"append", "record", "enforce", "llm", "human", "allow",
                       "degrade", "run"} =>
           call[c].judged # <<>> /\ Judged(c).form = call[c].form
    /\ call[c].at = "enforce" => Len(call[c].judged) = 1

\* A tool is called nowhere but in the steps that say so, and unguarded only in
\* async_wrapper.
RanInv(c) ==
    /\ Ran(c) => call[c].at \in {"run", "unguarded", "backfill", "result"}
    /\ call[c].answer = "unavailable" <=> call[c].at = "unguarded"
    /\ call[c].at = "unguarded" => Coroutine(c)

\* What was answered since the last judgement, and with what consequence.
AnswerInv(c) ==
    /\ call[c].at \in {"append", "record", "enforce", "llm"} =>
           call[c].answer = "none"
    /\ call[c].at = "llm" => Action(c) = "LLM_CHECK"
    /\ call[c].at = "human" => Checked(c) /\ call[c].answer \in {"none", "human"}
    /\ call[c].at = "allow" =>
           \/ /\ Action(c) = "ALLOW" /\ Len(call[c].judged) = 1
              /\ call[c].answer = "none"
           \/ Action(c) = "LLM_CHECK" /\ call[c].answer = "allow"
           \/ Checked(c) /\ call[c].answer = "approved"
    /\ call[c].at = "degrade" =>
           \/ Action(c) = "DEGRADE" /\ call[c].answer = "none"
           \/ /\ Checked(c) /\ call[c].answer = "timeout"
              /\ config.onTimeout = "degrade" /\ Judged(c).rule \in Profiled
    /\ Enforced(c) /\ Ran(c) /\ call[c].at # "unguarded" =>
           /\ call[c].answer \notin {"deny", "denied", "overLimit"}
           /\ Permitted(c, call[c].ran)

\* The judgements of a call that is not over are no refusals, except that the
\* last one may be, until it is acted upon.
DenialInv(c) ==
    Enforced(c) =>
        /\ (\/ call[c].at \in {"evaluate", "llm", "human", "allow", "degrade"}
            \/ Ran(c) /\ call[c].at # "unguarded") =>
               \A i \in 1 .. Len(call[c].judged) :
                   ActionOf[call[c].judged[i].rule] # "DENY"
        /\ call[c].at \in {"append", "record", "enforce"} =>
               \A i \in 1 .. Len(call[c].judged) - 1 :
                   ActionOf[call[c].judged[i].rule] # "DENY"

\* Whoever acts on a decision has recorded one.
RecordedInv(c) ==
    call[c].at \in {"enforce", "llm", "human", "allow", "degrade"} =>
        recorded[c] # <<>>

CallInv(c) ==
    /\ call[c] \in CallState
    /\ recorded[c] \in Seq(Records)
    /\ JudgedInv(c)
    /\ RanInv(c)
    /\ AnswerInv(c)
    /\ DenialInv(c)
    /\ RecordedInv(c)

IInv == TypeOK /\ \A c \in Calls : CallInv(c)

-----------------------------------------------------------------------------
(* What a step of a call leaves alone.                                     *)

\* A step of call c: only its frames and its records change.
StepOf(c) ==
    /\ config' = config
    /\ trace' \in Seq(Entry)
    /\ call' = [b \in Calls |-> IF b = c THEN call'[c] ELSE call[b]]
    /\ recorded' = [b \in Calls |-> IF b = c THEN recorded'[c] ELSE recorded[b]]

\* The number of attempts recorded is a number.
LEMMA RecordedType ==
    ASSUME TypeOK
    PROVE  Recorded \in [Calls -> Nat]
<1> SUFFICES ASSUME NEW b \in Calls
             PROVE  Cardinality({i \in DOMAIN recorded[b] :
                                     recorded[b][i] = "attempt"}) \in Nat
  BY DEF Recorded
<1>1. Len(recorded[b]) \in Nat /\ DOMAIN recorded[b] = 1 .. Len(recorded[b])
  BY DEF TypeOK
<1>2. IsFiniteSet(1 .. Len(recorded[b]))
  BY <1>1, FS_Interval
<1> QED  BY <1>1, <1>2, FS_Subset, FS_CardinalityType

\* What is known of a call whose frames and records stay is still known.
LEMMA OthersKeep ==
    ASSUME NEW b \in Calls, CallInv(b), config' = config,
           call'[b] = call[b], recorded'[b] = recorded[b]
    PROVE  CallInv(b)'
BY SMTT(30), ZenonT(30)
   DEF CallInv, JudgedInv, RanInv, AnswerInv, DenialInv, RecordedInv, Checked,
       Judged, Action, Enforced, Coroutine, Ran, Permitted, SameRules

\* So a step of c keeps the invariant if it keeps that of c.
LEMMA StepKeeps ==
    ASSUME IInv, NEW c \in Calls, StepOf(c), CallInv(c)'
    PROVE  IInv'
<1>1. \A b \in Calls \ {c} : call'[b] = call[b] /\ recorded'[b] = recorded[b]
  BY DEF StepOf
<1>2. \A b \in Calls : call[b] \in CallState /\ recorded[b] \in Seq(Records)
  BY DEF IInv, TypeOK
<1>3. \A b \in Calls : CallInv(b)'
  BY <1>1, OthersKeep DEF IInv, StepOf
<1>4. call'[c] \in CallState /\ recorded'[c] \in Seq(Records)
  BY <1>3 DEF CallInv
<1>5. call' \in [Calls -> CallState] /\ recorded' \in [Calls -> Seq(Records)]
  BY <1>2, <1>4 DEF StepOf
<1>6. TypeOK'
  BY <1>5 DEF TypeOK, IInv, StepOf
<1> QED  BY <1>3, <1>6 DEF IInv

-----------------------------------------------------------------------------
(* The steps of handle_attempt.                                            *)

\* handle_attempt opens a call: nothing is judged, nothing has run.
LEMMA BeginKeeps ==
    ASSUME CallAssumption, NothingAssumption, IInv, NEW c \in Calls, Begin(c)
    PROVE  IInv'
<1>1. CallInv(c) /\ TypeOK
  BY DEF IInv
<1>2. Recorded \in [Calls -> Nat]
  BY <1>1, RecordedType
<1>3. PICK k \in [Calls -> Nat], a \in SUBSET Calls :
          call' = [call EXCEPT ![c].at = "evaluate", ![c].known = k, ![c].after = a]
  BY <1>2 DEF Begin
<1>4. call'[c] = [call[c] EXCEPT !.at = "evaluate", !.known = k, !.after = a]
  BY <1>1, <1>3 DEF TypeOK
<1>5. call'[c] \in CallState
  BY <1>1, <1>4 DEF CallInv, CallState, Places
<1>6. StepOf(c)
  BY <1>1, <1>3 DEF Begin, StepOf, TypeOK
<1>7. CallInv(c)'
  <2> call[c].at = "idle"
    BY DEF Begin
  <2>1. /\ call'[c].at = "evaluate"
        /\ call'[c].judged = call[c].judged /\ call'[c].ran = call[c].ran
        /\ call'[c].answer = call[c].answer
    BY <1>1, <1>4 DEF CallInv, CallState
  <2>2. call[c].judged = <<>> /\ call[c].ran = NoForm /\ call[c].answer # "unavailable"
    BY <1>1, <2>1 DEF CallInv, JudgedInv, RanInv, Ran
  <2>3. recorded'[c] \in Seq(Records)
    BY <1>1 DEF Begin, CallInv
  <2> QED  BY <1>5, <2>1, <2>2, <2>3
              DEF CallInv, JudgedInv, RanInv, AnswerInv, DenialInv, RecordedInv, Ran
<1> QED  BY <1>6, <1>7, StepKeeps

\* The evaluator's decision becomes the last judgement, of the form at hand
\* (Pipeline.handle_attempt, Enforcer._rewrite).
LEMMA EvaluateKeeps ==
    ASSUME CallAssumption, NothingAssumption, IInv, NEW c \in Calls, Evaluate(c)
    PROVE  IInv'
<1>1. CallInv(c) /\ TypeOK
  BY DEF IInv
<1>2. PICK r \in Rules :
          call' = [call EXCEPT
                      ![c].at = "append", ![c].answer = "none",
                      ![c].saw = Len(trace),
                      ![c].judged = Append(@, [form |-> call[c].form,
                                               rule |-> r])]
  BY DEF Evaluate
<1>3. PICK j \in Judgement : j = [form |-> call[c].form, rule |-> r]
  BY <1>1 DEF CallInv, CallState, Judgement
<1>4. call'[c] = [call[c] EXCEPT !.at = "append", !.answer = "none",
                                 !.saw = Len(trace),
                                 !.judged = Append(call[c].judged, j)]
  BY <1>1, <1>2, <1>3 DEF TypeOK
<1>5. call'[c] \in CallState
  <2>1. Append(call[c].judged, j) \in Seq(Judgement) /\ Len(trace) \in Nat
    BY <1>1 DEF CallInv, CallState, TypeOK
  <2>2. "append" \in Places /\ "none" \in Answers
    BY DEF Places, Answers
  <2> QED  BY <1>1, <1>4, <2>1, <2>2 DEF CallInv, CallState
<1>6. StepOf(c)
  BY <1>1, <1>2 DEF Evaluate, StepOf, TypeOK
<1>7. JudgedInv(c)'
  <2>1. /\ call'[c].at = "append" /\ call'[c].form = call[c].form
        /\ call'[c].judged = Append(call[c].judged, j)
    BY <1>1, <1>4 DEF CallInv, CallState
  <2>2. call[c].judged \in Seq(Judgement)
    BY <1>1 DEF CallInv, CallState
  <2>3. Len(call'[c].judged) = Len(call[c].judged) + 1 /\ Len(call[c].judged) \in Nat
    BY <2>1, <2>2
  <2>4. call'[c].judged # <<>>
    BY <2>3
  <2>5. call'[c].judged[Len(call'[c].judged)] = j
    BY <2>1, <2>2, <2>3
  <2> QED  BY <1>3, <2>1, <2>4, <2>5 DEF JudgedInv, Judged, Last
<1>8. DenialInv(c)'
  <2>1. call[c].judged \in Seq(Judgement) /\ call'[c].at = "append"
    BY <1>1, <1>4 DEF CallInv, CallState
  <2>2. call'[c].judged = Append(call[c].judged, j) /\ call'[c].ran = call[c].ran
    BY <1>1, <1>4 DEF CallInv, CallState
  <2>3. Len(call'[c].judged) - 1 = Len(call[c].judged)
    BY <2>1, <2>2
  <2>4. \A i \in 1 .. Len(call[c].judged) : call'[c].judged[i] = call[c].judged[i]
    BY <2>1, <2>2
  <2>5. config' = config /\ ~Ran(c) /\ call[c].at = "evaluate"
    BY <1>1 DEF Evaluate, CallInv, RanInv
  <2> QED  BY <1>1, <2>1, <2>2, <2>3, <2>4, <2>5
              DEF CallInv, DenialInv, Ran, Enforced, Coroutine
<1>9. RanInv(c)' /\ AnswerInv(c)' /\ RecordedInv(c)'
  BY <1>1, <1>4 DEF Evaluate, CallInv, CallState, RanInv, AnswerInv, RecordedInv, Ran
<1>10. recorded'[c] \in Seq(Records)
  BY <1>1 DEF Evaluate, CallInv
<1> QED  BY <1>5, <1>6, <1>7, <1>8, <1>9, <1>10, StepKeeps DEF CallInv

\* Appending the attempt to the trace only moves the call on to its recorders.
LEMMA AppendTraceKeeps ==
    ASSUME CallAssumption, NothingAssumption, IInv, NEW c \in Calls, AppendTrace(c)
    PROVE  IInv'
<1>1. CallInv(c) /\ TypeOK
  BY DEF IInv
<1>2. call'[c] = [call[c] EXCEPT !.at = "record"]
  BY <1>1 DEF AppendTrace, Goes, TypeOK
<1>3. call'[c] \in CallState
  BY <1>1, <1>2 DEF CallInv, CallState, Places
<1>4. PICK e : e = [call |-> c, tool |-> ToolOf[call[c].form], result |-> NoCall]
  OBVIOUS
<1>5. e \in Entry
  BY <1>1, <1>4 DEF CallInv, CallState, Entry
<1>6. trace' \in Seq(Entry)
  BY <1>1, <1>4, <1>5 DEF AppendTrace, TypeOK
<1>7. StepOf(c)
  BY <1>1, <1>6 DEF AppendTrace, Goes, StepOf, TypeOK
<1>8. CallInv(c)'
  BY <1>1, <1>2, <1>3
     DEF AppendTrace, CallInv, JudgedInv, Judged, RanInv, AnswerInv, DenialInv,
         RecordedInv, Ran, Enforced, Coroutine, CallState
<1> QED  BY <1>7, <1>8, StepKeeps

-----------------------------------------------------------------------------
(* Where steps lead.                                                       *)

\* The call is over.
LEMMA EndsKeeps ==
    ASSUME NothingAssumption, IInv, NEW c \in Calls, Ends(c), config' = config,
           trace' = trace,
           \/ recorded' = recorded
           \/ recorded' = [recorded EXCEPT ![c] = Append(@, "result")]
    PROVE  IInv'
<1>1. CallInv(c) /\ TypeOK
  BY DEF IInv
<1>2. call'[c] = [Fresh(call[c].asked, "done") EXCEPT !.value = call[c].value,
                                                      !.after = call[c].after]
  BY <1>1 DEF Ends, TypeOK
<1>3. Fresh(call[c].asked, "done") \in CallState
  BY <1>1 DEF CallInv, CallState, Fresh, Places, Answers
<1>4. call'[c] \in CallState
  BY <1>1, <1>2, <1>3 DEF CallInv, CallState
<1>5. /\ call'[c].at = "done" /\ call'[c].answer = "none"
      /\ call'[c].ran = NoForm /\ call'[c].judged = <<>>
  BY <1>2 DEF Fresh
<1>6. StepOf(c)
  BY <1>1 DEF Ends, StepOf, TypeOK
<1>7. recorded'[c] \in Seq(Records)
  <2>1. recorded'[c] = recorded[c] \/ recorded'[c] = Append(recorded[c], "result")
    BY <1>1 DEF TypeOK
  <2> QED  BY <1>1, <2>1, SMTT(30), ZenonT(30) DEF CallInv, Records
<1>8. CallInv(c)'
  BY <1>4, <1>5, <1>7
     DEF CallInv, JudgedInv, RanInv, AnswerInv, DenialInv, RecordedInv, Ran
<1> QED  BY <1>6, <1>8, StepKeeps

\* The call is refused: guarded_call's finally clause is next.
LEMMA RefusalKeeps ==
    ASSUME IInv, NEW c \in Calls, StepOf(c), call'[c] \in CallState,
           call'[c].at = "backfill", call'[c].ran = NoForm,
           call'[c].answer # "unavailable", recorded'[c] \in Seq(Records)
    PROVE  IInv'
<1>1. CallInv(c)'
  BY DEF CallInv, JudgedInv, RanInv, AnswerInv, DenialInv, RecordedInv, Ran
<1> QED  BY <1>1, StepKeeps

\* Its tool is called, with what is permitted.
LEMMA RunKeeps ==
    ASSUME IInv, NEW c \in Calls, StepOf(c), call'[c] \in CallState,
           recorded'[c] \in Seq(Records),
           call'[c].at = "run", call'[c].judged # <<>>,
           Judged(c)'.form = call'[c].form,
           call'[c].answer # "unavailable",
           Enforced(c)' =>
               /\ call'[c].answer \notin {"deny", "denied", "overLimit"}
               /\ Permitted(c, call[c].ran)'
               /\ \A i \in 1 .. Len(call'[c].judged) :
                      ActionOf[call'[c].judged[i].rule] # "DENY"
    PROVE  IInv'
<1>1. JudgedInv(c)' /\ RanInv(c)' /\ RecordedInv(c)'
  BY DEF JudgedInv, RanInv, RecordedInv
<1>2. AnswerInv(c)'
  BY DEF AnswerInv
<1>3. DenialInv(c)'
  BY DEF DenialInv
<1>4. CallInv(c)'
  BY <1>1, <1>2, <1>3 DEF CallInv
<1> QED  BY <1>4, StepKeeps

-----------------------------------------------------------------------------
(* The end of handle_attempt.                                              *)

\* The last judgement of a call that has one.
LEMMA LastJudgement ==
    ASSUME CallAssumption, NEW c \in Calls, CallInv(c), call[c].judged # <<>>
    PROVE  /\ Len(call[c].judged) \in Nat \ {0}
           /\ Judged(c) \in Judgement /\ Judged(c) = call[c].judged[Len(call[c].judged)]
           /\ Action(c) \in Actions
           /\ Rewritten(c) \in Forms
<1>1. call[c].judged \in Seq(Judgement) /\ call[c].form \in Forms
  BY DEF CallInv, CallState
<1>2. Len(call[c].judged) \in Nat \ {0}
  BY <1>1
<1>3. Judged(c) \in Judgement /\ Judged(c) = call[c].judged[Len(call[c].judged)]
  BY <1>1, <1>2 DEF Judged, Last
<1>4. Judged(c).rule \in Rules
  BY <1>3 DEF Judgement
<1>5. Action(c) \in Actions
  BY <1>4 DEF Action, CallAssumption
<1>6. Rewritten(c) \in Forms
  BY <1>1, <1>4 DEF Rewritten, CallAssumption
<1> QED  BY <1>2, <1>3, <1>5, <1>6

\* A step that adds no judgement leaves what is said of the last one.
LEMMA SameJudgement ==
    ASSUME NEW c \in Calls, call'[c].judged = call[c].judged, config' = config
    PROVE  /\ Judged(c)' = Judged(c) /\ Action(c)' = Action(c)
           /\ SameRules(c)' = SameRules(c) /\ Checked(c)' = Checked(c)
           /\ Enforced(c)' = Enforced(c) /\ Coroutine(c)' = Coroutine(c)
BY DEF Judged, Action, SameRules, Checked, Enforced, Coroutine

\* Handing over to the recorders, and what the decision leads to.
LEMMA RecordKeeps ==
    ASSUME CallAssumption, NothingAssumption, IInv, NEW c \in Calls, Record(c)
    PROVE  IInv'
<1>1. CallInv(c) /\ TypeOK /\ call[c].at = "record"
  BY DEF IInv, Record
<1>2. /\ call[c].judged # <<>> /\ Judged(c).form = call[c].form
      /\ call[c].ran = NoForm /\ call[c].answer = "none"
  BY <1>1 DEF CallInv, JudgedInv, RanInv, AnswerInv, Ran
<1>3. /\ Len(call[c].judged) \in Nat \ {0} /\ Action(c) \in Actions
      /\ Judged(c) = call[c].judged[Len(call[c].judged)]
  BY <1>1, <1>2, LastJudgement
<1>4. PICK next : next = IF Len(call[c].judged) = 1 THEN "enforce" ELSE Rejudged(c)
  OBVIOUS
<1>5. next \in {"enforce", "degrade", "backfill", "human", "run"}
  BY <1>4 DEF Rejudged
<1>6. PICK d, f, k :
          /\ d = IF next = "degrade" THEN call[c].depth + 1 ELSE call[c].depth
          /\ f = IF next = "run" THEN call[c].form ELSE call[c].ran
          /\ k = [b \in Calls |-> 0]
          /\ call' = [call EXCEPT ![c].at = next, ![c].saw = 0, ![c].known = k,
                                  ![c].depth = d, ![c].ran = f]
  BY <1>4 DEF Record
<1>7. call'[c] = [call[c] EXCEPT !.at = next, !.saw = 0, !.known = k,
                                 !.depth = d, !.ran = f]
  BY <1>1, <1>6 DEF TypeOK
<1>8. call'[c] \in CallState
  <2>1. next \in Places
    BY <1>5 DEF Places
  <2>2. d \in Nat /\ f \in Forms \cup {NoForm} /\ k \in [Calls -> Nat]
    BY <1>1, <1>6 DEF CallInv, CallState
  <2>3. call[c] \in CallState
    BY <1>1 DEF CallInv
  <2>4. [call[c] EXCEPT !.at = next, !.saw = 0, !.known = k] \in CallState
    BY <2>1, <2>2, <2>3 DEF CallState
  <2> QED  BY <1>7, <2>2, <2>4 DEF CallState
<1>9. /\ call'[c].at = next /\ call'[c].ran = f
      /\ call'[c].judged = call[c].judged /\ call'[c].form = call[c].form
      /\ call'[c].answer = "none"
  BY <1>1, <1>2, <1>7 DEF CallInv, CallState
<1>10. /\ config' = config /\ trace' = trace
       /\ recorded' = [recorded EXCEPT ![c] = Append(recorded[c], "attempt")]
  BY DEF Record
<1>11. recorded'[c] \in Seq(Records) /\ recorded'[c] # <<>>
  <2>1. recorded'[c] = Append(recorded[c], "attempt") /\ "attempt" \in Records
    BY <1>1, <1>10 DEF TypeOK, Records
  <2>2. recorded[c] \in Seq(Records)
    BY <1>1 DEF CallInv
  <2> QED  BY <2>1, <2>2
<1>12. StepOf(c)
  BY <1>1, <1>6, <1>10 DEF StepOf, TypeOK
<1>13. /\ Judged(c)' = Judged(c) /\ Action(c)' = Action(c)
       /\ SameRules(c)' = SameRules(c) /\ Checked(c)' = Checked(c)
       /\ Enforced(c)' = Enforced(c) /\ Coroutine(c)' = Coroutine(c)
  BY <1>9, <1>10, SameJudgement
<1>14. Enforced(c) => \A i \in 1 .. Len(call[c].judged) - 1 :
                          ActionOf[call[c].judged[i].rule] # "DENY"
  BY <1>1 DEF CallInv, DenialInv
<1>15. Enforced(c) /\ Action(c) # "DENY" =>
           \A i \in 1 .. Len(call[c].judged) :
               ActionOf[call[c].judged[i].rule] # "DENY"
  BY <1>3, <1>14 DEF Action
<1>16. CASE next = "enforce"
  <2>1. Len(call[c].judged) = 1
    BY <1>4, <1>16 DEF Rejudged
  <2>2. f = NoForm
    BY <1>2, <1>6, <1>16
  <2>3. CallInv(c)'
    BY <1>2, <1>8, <1>9, <1>11, <1>13, <1>14, <1>16, <2>1, <2>2
       DEF CallInv, JudgedInv, RanInv, AnswerInv, DenialInv, RecordedInv, Ran
  <2> QED  BY <1>12, <2>3, StepKeeps
<1>17. CASE next \in {"degrade", "human"}
  <2>1. next = "degrade" => Action(c) = "DEGRADE"
    BY <1>4 DEF Rejudged
  <2>2. next = "human" => Checked(c)
    BY <1>4 DEF Rejudged, Checked
  <2>3. Action(c) # "DENY" /\ f = NoForm
    BY <1>2, <1>6, <1>17, <2>1, <2>2 DEF Checked
  <2>4. CallInv(c)'
    BY <1>2, <1>8, <1>9, <1>11, <1>13, <1>15, <1>17, <2>1, <2>2, <2>3
       DEF CallInv, JudgedInv, RanInv, AnswerInv, DenialInv, RecordedInv, Ran
  <2> QED  BY <1>12, <2>4, StepKeeps
<1>18. CASE next = "backfill"
  <2>1. f = NoForm
    BY <1>2, <1>6, <1>18
  <2> QED  BY <1>8, <1>9, <1>11, <1>12, <1>18, <2>1, RefusalKeeps
<1>19. CASE next = "run"
  <2>1. /\ Len(call[c].judged) > 1 /\ f = call[c].form
        /\ Action(c) = "ALLOW" \/ (Action(c) = "DEGRADE" /\ SameRules(c))
    <3>1. Len(call[c].judged) # 1 /\ Rejudged(c) = "run"
      BY <1>4, <1>19
    <3>2. Action(c) \notin {"DENY", "HUMAN_CHECK", "LLM_CHECK"}
      BY <3>1 DEF Rejudged
    <3>3. Action(c) = "DEGRADE" => SameRules(c)
      BY <3>1 DEF Rejudged
    <3>4. Len(call[c].judged) > 1
      <4>1. Len(call[c].judged) \in Nat \ {0}
        BY <1>3
      <4>2. Len(call[c].judged) # 1
        BY <3>1
      <4>3. \A n \in Nat \ {0} : n # 1 => n > 1
        OBVIOUS
      <4> QED  BY <4>1, <4>2, <4>3
    <3>5. f = call[c].form
      BY <1>6, <1>19
    <3>6. Action(c) = "ALLOW" \/ Action(c) = "DEGRADE"
      BY <1>3, <3>2 DEF Actions
    <3> QED  BY <3>3, <3>4, <3>5, <3>6
  <2>2. Permitted(c, call[c].ran)'
    BY <1>2, <1>9, <1>13, <2>1 DEF Permitted
  <2>3. Action(c) # "DENY"
    BY <2>1
  <2> QED  BY <1>2, <1>8, <1>9, <1>11, <1>12, <1>13, <1>15, <1>19, <2>2, <2>3,
              RunKeeps
<1> QED  BY <1>5, <1>16, <1>17, <1>18, <1>19

-----------------------------------------------------------------------------
(* The branches of apply.                                                  *)

\* Frames stay frames when their place changes, and the other fields stay.
LEMMA PlaceUpdated ==
    ASSUME NEW r \in CallState, NEW p \in Places, NEW t, t = [r EXCEPT !.at = p]
    PROVE  /\ t \in CallState /\ t.at = p /\ t.answer = r.answer
           /\ t.judged = r.judged /\ t.form = r.form /\ t.ran = r.ran
BY DEF CallState

\* Going to place p with the answer a, and nothing else.
Led(c, p, a) ==
    /\ StepOf(c) /\ call'[c] \in CallState
    /\ call'[c].at = p /\ call'[c].answer = a
    /\ call'[c].judged = call[c].judged /\ call'[c].form = call[c].form
    /\ call'[c].ran = call[c].ran
    /\ recorded'[c] = recorded[c] /\ recorded'[c] \in Seq(Records)

\* Going to another place leaves the rest of the frames as they are.
LEMMA Moved ==
    ASSUME IInv, NEW c \in Calls, NEW p \in Places,
           call' = [call EXCEPT ![c].at = p],
           UNCHANGED <<config, trace, recorded>>
    PROVE  Led(c, p, call[c].answer)
<1>1. call[c] \in CallState /\ TypeOK
  BY DEF IInv, TypeOK
<1>2. call'[c] = [call[c] EXCEPT !.at = p]
  BY <1>1 DEF TypeOK
<1>3. call'[c] \in CallState
  BY <1>1, <1>2 DEF CallState
<1>4. StepOf(c) /\ recorded'[c] \in Seq(Records)
  BY <1>1 DEF StepOf, TypeOK
<1>5. /\ call'[c].at = p /\ call'[c].answer = call[c].answer
      /\ call'[c].judged = call[c].judged /\ call'[c].form = call[c].form
      /\ call'[c].ran = call[c].ran
  BY <1>1, <1>2 DEF CallState
<1> QED  BY <1>3, <1>4, <1>5 DEF Led

\* So does going there with an answer.
LEMMA Answered ==
    ASSUME IInv, NEW c \in Calls, NEW p \in Places, NEW a \in Answers,
           call' = [call EXCEPT ![c].answer = a, ![c].at = p],
           UNCHANGED <<config, trace, recorded>>
    PROVE  Led(c, p, a)
<1>1. call[c] \in CallState /\ TypeOK
  BY DEF IInv, TypeOK
<1>2. PICK r : r = [call[c] EXCEPT !.answer = a]
  OBVIOUS
<1>3. /\ r \in CallState /\ r.answer = a /\ r.judged = call[c].judged
      /\ r.form = call[c].form /\ r.ran = call[c].ran
  BY <1>1, <1>2 DEF CallState
<1>4. call'[c] = [r EXCEPT !.at = p]
  BY <1>1, <1>2 DEF TypeOK
<1>5. PICK t : t = [r EXCEPT !.at = p]
  OBVIOUS
<1>6. /\ t \in CallState /\ t.at = p /\ t.answer = r.answer
      /\ t.judged = r.judged /\ t.form = r.form /\ t.ran = r.ran
  BY <1>3, <1>5, PlaceUpdated
<1>7. StepOf(c) /\ recorded'[c] = recorded[c] /\ recorded'[c] \in Seq(Records)
  BY <1>1 DEF StepOf, TypeOK
<1> QED  BY <1>3, <1>4, <1>5, <1>6, <1>7 DEF Led

\* A call that has not run and is led to the finally clause.
LEMMA LedToRefusal ==
    ASSUME IInv, NEW c \in Calls, NEW a, Led(c, "backfill", a),
           a # "unavailable", call[c].ran = NoForm
    PROVE  IInv'
BY RefusalKeeps DEF Led

\* Calling the tool with what is permitted.
LEMMA RunsKeeps ==
    ASSUME CallAssumption, NothingAssumption, IInv, NEW c \in Calls,
           NEW f \in Forms, NEW a \in Answers,
           call[c].at \in {"enforce", "human", "allow", "degrade"},
           \/ Runs(c, f) /\ a = call[c].answer
           \/ call' = [call EXCEPT ![c].answer = a, ![c].at = "run", ![c].ran = f],
           UNCHANGED <<config, trace, recorded>>,
           a \notin {"unavailable", "deny", "denied", "overLimit"},
           Enforced(c) => /\ call[c].at = "enforce" => Action(c) # "DENY"
                          /\ Permitted(c, f)'
    PROVE  IInv'
<1>1. CallInv(c) /\ TypeOK /\ call[c] \in CallState
  BY DEF IInv, TypeOK
<1>2. call[c].judged # <<>> /\ Judged(c).form = call[c].form
  BY <1>1 DEF CallInv, JudgedInv
<1>3. \/ call'[c] = [call[c] EXCEPT !.at = "run", !.ran = f] /\ a = call[c].answer
      \/ call'[c] = [call[c] EXCEPT !.answer = a, !.at = "run", !.ran = f]
  BY <1>1 DEF Runs, TypeOK
<1>4. call'[c] \in CallState
  <2>1. "run" \in Places
    BY DEF Places
  <2>2. CASE call'[c] = [call[c] EXCEPT !.at = "run", !.ran = f]
    BY <1>1, <2>1, <2>2 DEF CallState
  <2>3. CASE call'[c] = [call[c] EXCEPT !.answer = a, !.at = "run", !.ran = f]
    BY <1>1, <2>1, <2>3 DEF CallState
  <2> QED  BY <1>3, <2>2, <2>3
<1>5. /\ call'[c].at = "run" /\ call'[c].answer = a
      /\ call'[c].judged = call[c].judged /\ call'[c].form = call[c].form
      /\ call'[c].ran = f
  BY <1>1, <1>3, SMTT(30), ZenonT(30) DEF CallState
<1>6. StepOf(c) /\ recorded'[c] \in Seq(Records)
  BY <1>1 DEF Runs, StepOf, TypeOK
<1>7. Judged(c)' = Judged(c) /\ Enforced(c)' = Enforced(c)
  BY <1>5, SameJudgement
<1>8. Enforced(c) => \A i \in 1 .. Len(call[c].judged) :
                         ActionOf[call[c].judged[i].rule] # "DENY"
  <2>1. CASE call[c].at # "enforce"
    BY <1>1, <2>1 DEF CallInv, DenialInv
  <2>2. CASE call[c].at = "enforce"
    <3>1. Len(call[c].judged) = 1
      BY <1>1, <2>2 DEF CallInv, JudgedInv
    <3>2. Judged(c) = call[c].judged[1]
      BY <3>1 DEF Judged, Last
    <3> QED  BY <2>2, <3>1, <3>2 DEF Action
  <2> QED  BY <2>1, <2>2
<1> QED  BY <1>2, <1>4, <1>5, <1>6, <1>7, <1>8, RunKeeps

\* Enforcer.apply acts on the first decision by its action.
LEMMA EnforceKeeps ==
    ASSUME CallAssumption, NothingAssumption, IInv, NEW c \in Calls, Enforce(c)
    PROVE  IInv'
<1>1. /\ CallInv(c) /\ TypeOK /\ call[c] \in CallState /\ call[c].at = "enforce"
      /\ UNCHANGED <<config, trace, recorded>> /\ ~Coroutine(c)
  BY DEF IInv, TypeOK, Enforce
<1>2. /\ call[c].judged # <<>> /\ Judged(c).form = call[c].form
      /\ Len(call[c].judged) = 1
      /\ call[c].ran = NoForm /\ call[c].answer = "none"
      /\ recorded[c] # <<>>
  BY <1>1 DEF CallInv, JudgedInv, RanInv, AnswerInv, RecordedInv, Ran
<1>3. CASE config.mode = "monitor" /\ Runs(c, call[c].form)
  <2>1. ~Enforced(c) /\ call[c].form \in Forms /\ call[c].answer \in Answers
    BY <1>1, <1>3 DEF Enforced, CallState
  <2> QED  BY <1>1, <1>2, <1>3, <2>1, RunsKeeps
<1>4. CASE call' = [call EXCEPT ![c].at = "backfill", ![c].value = c]
  <2>1. call'[c] = [call[c] EXCEPT !.at = "backfill", !.value = c]
    BY <1>1, <1>4 DEF TypeOK
  <2>2. call'[c] \in CallState
    BY <1>1, <2>1 DEF CallState, Places
  <2>3. /\ call'[c].at = "backfill" /\ call'[c].ran = NoForm
        /\ call'[c].answer = "none"
    BY <1>1, <1>2, <2>1 DEF CallState
  <2>4. StepOf(c) /\ recorded'[c] \in Seq(Records)
    BY <1>1, <1>4 DEF StepOf, TypeOK
  <2> QED  BY <2>2, <2>3, <2>4, RefusalKeeps
<1>5. CASE config.mode = "enforce" /\ Goes(c, Branch[Action(c)])
  <2>1. PICK p : p = Branch[Action(c)]
    OBVIOUS
  <2>2. Action(c) \in Actions
    BY <1>1, <1>2, LastJudgement
  <2>3. /\ Action(c) = "ALLOW" => p = "allow"
        /\ Action(c) = "DENY" => p = "backfill"
        /\ Action(c) = "LLM_CHECK" => p = "llm"
        /\ Action(c) = "HUMAN_CHECK" => p = "human"
        /\ Action(c) = "DEGRADE" => p = "degrade"
    BY <2>1 DEF Branch
  <2>4. p \in Places
    BY <2>2, <2>3 DEF Actions, Places
  <2>5. call' = [call EXCEPT ![c].at = p]
    BY <1>5, <2>1 DEF Goes
  <2>6. Led(c, p, "none")
    <3>1. Led(c, p, call[c].answer)
      BY <1>1, <2>4, <2>5, Moved
    <3> QED  BY <1>2, <3>1
  <2>7. CASE Action(c) = "DENY"
    BY <1>2, <2>3, <2>6, <2>7, LedToRefusal
  <2>8. CASE Action(c) # "DENY"
    <3>1. /\ Judged(c)' = Judged(c) /\ Action(c)' = Action(c)
          /\ Checked(c)' = Checked(c)
      BY <1>1, <2>6, SameJudgement DEF Led
    <3>2. \A i \in 1 .. Len(call[c].judged) :
              ActionOf[call[c].judged[i].rule] # "DENY"
      <4>1. Judged(c) = call[c].judged[1]
        BY <1>2 DEF Judged, Last
      <4> QED  BY <1>2, <2>8, <4>1 DEF Action
    <3>3. CallInv(c)'
      BY <1>1, <1>2, <2>2, <2>3, <2>6, <2>8, <3>1, <3>2
         DEF Led, CallInv, JudgedInv, RanInv, AnswerInv, DenialInv, RecordedInv, Ran,
             Checked, Actions
    <3> QED  BY <2>6, <3>3, StepKeeps DEF Led
  <2> QED  BY <2>7, <2>8
<1> QED  BY <1>3, <1>4, <1>5 DEF Enforce

\* The reviewer's verdict leads to its branch of Enforcer._llm_check.
LEMMA LlmReviewKeeps ==
    ASSUME CallAssumption, NothingAssumption, IInv, NEW c \in Calls, LlmReview(c)
    PROVE  IInv'
<1>1. /\ CallInv(c) /\ call[c].at = "llm"
      /\ UNCHANGED <<config, trace, recorded>>
  BY DEF IInv, LlmReview
<1>2. /\ call[c].judged # <<>> /\ Judged(c).form = call[c].form
      /\ Action(c) = "LLM_CHECK" /\ call[c].ran = NoForm
      /\ recorded[c] # <<>>
  BY <1>1 DEF CallInv, JudgedInv, RanInv, AnswerInv, RecordedInv, Ran
<1>3. PICK verdict \in {"allow", "deny", "human"} :
          call' = [call EXCEPT ![c].answer = verdict, ![c].at = Verdicts[verdict]]
  BY DEF LlmReview, Verdicts
<1>4. PICK p : p = Verdicts[verdict]
  OBVIOUS
<1>5. /\ verdict = "allow" => p = "allow"
      /\ verdict = "deny" => p = "backfill"
      /\ verdict = "human" => p = "human"
  BY <1>4 DEF Verdicts
<1>6. p \in Places /\ verdict \in Answers
  BY <1>5 DEF Places, Answers
<1>7. call' = [call EXCEPT ![c].answer = verdict, ![c].at = p]
  BY <1>3, <1>4
<1>8. Led(c, p, verdict)
  BY <1>1, <1>6, <1>7, Answered
<1>9. CASE verdict = "deny"
  BY <1>2, <1>5, <1>8, <1>9, LedToRefusal
<1>10. CASE verdict # "deny"
  <2>1. /\ Judged(c)' = Judged(c) /\ Action(c)' = Action(c)
        /\ Checked(c)' = Checked(c) /\ Enforced(c)' = Enforced(c)
    BY <1>1, <1>8, SameJudgement DEF Led
  <2>2. Enforced(c) => \A i \in 1 .. Len(call[c].judged) :
                           ActionOf[call[c].judged[i].rule] # "DENY"
    BY <1>1 DEF CallInv, DenialInv
  <2>3. CallInv(c)'
    BY <1>2, <1>5, <1>8, <1>10, <2>1, <2>2
       DEF Led, CallInv, JudgedInv, RanInv, AnswerInv, DenialInv, RecordedInv, Ran,
           Checked
  <2> QED  BY <1>8, <2>3, StepKeeps DEF Led
<1> QED  BY <1>9, <1>10

\* A pending approval under the raise mode ends as a refusal does.
LEMMA SuspendKeeps ==
    ASSUME CallAssumption, NothingAssumption, IInv, NEW c \in Calls, Suspend(c)
    PROVE  IInv'
<1>1. /\ CallInv(c) /\ call[c].at = "human" /\ call[c] \in CallState
      /\ UNCHANGED <<config, trace, recorded>>
      /\ call' = [call EXCEPT ![c].at = "backfill"]
  BY DEF IInv, TypeOK, Suspend, Goes
<1>2. call[c].ran = NoForm /\ call[c].answer \in Answers \ {"unavailable"}
  BY <1>1 DEF CallInv, RanInv, Ran, CallState
<1>3. "backfill" \in Places
  BY DEF Places
<1>4. Led(c, "backfill", call[c].answer)
  BY <1>1, <1>3, Moved
<1> QED  BY <1>2, <1>4, LedToRefusal

\* An approver's verdict allows the call or refuses it (Enforcer._human_check).
LEMMA HumanVerdictKeeps ==
    ASSUME CallAssumption, NothingAssumption, IInv, NEW c \in Calls, HumanVerdict(c)
    PROVE  IInv'
<1>1. /\ CallInv(c) /\ call[c].at = "human"
      /\ UNCHANGED <<config, trace, recorded>>
  BY DEF IInv, HumanVerdict
<1>2. /\ call[c].judged # <<>> /\ Judged(c).form = call[c].form
      /\ Checked(c) /\ call[c].ran = NoForm /\ recorded[c] # <<>>
  BY <1>1 DEF CallInv, JudgedInv, RanInv, AnswerInv, RecordedInv, Ran
<1>2a. PICK verdict \in {"approved", "denied"} :
          call' = [call EXCEPT ![c].answer = verdict,
                               ![c].at = IF verdict = "approved" THEN "allow"
                                                                 ELSE "backfill"]
  BY DEF HumanVerdict
<1>2b. PICK p : p = IF verdict = "approved" THEN "allow" ELSE "backfill"
  OBVIOUS
<1>3. /\ verdict \in {"approved", "denied"}
      /\ p = IF verdict = "approved" THEN "allow" ELSE "backfill"
      /\ call' = [call EXCEPT ![c].answer = verdict, ![c].at = p]
  BY <1>2a, <1>2b
<1>4. p \in Places /\ verdict \in Answers
  BY <1>3 DEF Places, Answers
<1>5. Led(c, p, verdict)
  <2>1. call' = [call EXCEPT ![c].answer = verdict, ![c].at = p]
    BY <1>3
  <2> QED  BY <1>1, <1>4, <2>1, Answered
<1>6. CASE verdict = "denied"
  <2>1. p = "backfill"
    BY <1>3, <1>6
  <2> QED  BY <1>2, <1>5, <1>6, <2>1, LedToRefusal
<1>7. CASE verdict = "approved"
  <2>1. /\ Judged(c)' = Judged(c) /\ Action(c)' = Action(c)
        /\ Checked(c)' = Checked(c) /\ Enforced(c)' = Enforced(c)
    BY <1>1, <1>5, SameJudgement DEF Led
  <2>2. Enforced(c) => \A i \in 1 .. Len(call[c].judged) :
                           ActionOf[call[c].judged[i].rule] # "DENY"
    BY <1>1 DEF CallInv, DenialInv
  <2>3. p = "allow"
    BY <1>3, <1>7
  <2>4. CallInv(c)'
    BY <1>2, <1>5, <1>7, <2>1, <2>2, <2>3
       DEF Led, CallInv, JudgedInv, RanInv, AnswerInv, DenialInv, RecordedInv, Ran
  <2> QED  BY <1>5, <2>4, StepKeeps DEF Led
<1> QED  BY <1>3, <1>6, <1>7

\* The bridge's timeout allows, degrades or refuses the call, as configured.
LEMMA HumanTimeoutKeeps ==
    ASSUME CallAssumption, NothingAssumption, IInv, NEW c \in Calls, HumanTimeout(c)
    PROVE  IInv'
<1>1. /\ CallInv(c) /\ TypeOK /\ call[c] \in CallState /\ call[c].at = "human"
      /\ UNCHANGED <<config, trace, recorded>>
  BY DEF IInv, TypeOK, HumanTimeout
<1>2. /\ call[c].judged # <<>> /\ Judged(c).form = call[c].form
      /\ Checked(c) /\ call[c].ran = NoForm /\ recorded[c] # <<>>
  BY <1>1 DEF CallInv, JudgedInv, RanInv, AnswerInv, RecordedInv, Ran
<1>3. "timeout" \in Answers /\ "backfill" \in Places /\ call[c].form \in Forms
  BY <1>1 DEF Answers, Places, CallState
<1>4. CASE /\ config.onTimeout = "allow"
           /\ call' = [call EXCEPT ![c].answer = "timeout", ![c].at = "run",
                                   ![c].ran = call[c].form]
  <2>1. call'[c] = [call[c] EXCEPT !.answer = "timeout", !.at = "run",
                                   !.ran = call[c].form]
    BY <1>1, <1>4 DEF TypeOK
  <2>2. call'[c].judged = call[c].judged /\ call'[c].answer = "timeout"
    BY <1>1, <2>1 DEF CallState
  <2>3. Judged(c)' = Judged(c) /\ Checked(c)' = Checked(c)
    BY <1>1, <2>2, SameJudgement
  <2>4. PICK f \in Forms : f = call[c].form
    BY <1>3
  <2>5. Permitted(c, f)'
    BY <1>1, <1>2, <1>4, <2>2, <2>3, <2>4 DEF Permitted, Checked
  <2>6. call' = [call EXCEPT ![c].answer = "timeout", ![c].at = "run", ![c].ran = f]
    BY <1>4, <2>4
  <2> QED  BY <1>1, <1>3, <2>5, <2>6, RunsKeeps
<1>5. CASE /\ config.onTimeout = "degrade" /\ Judged(c).rule \in Profiled
           /\ call' = [call EXCEPT ![c].answer = "timeout", ![c].at = "degrade",
                                   ![c].depth = 0]
  <2>1. PICK r : r = [call[c] EXCEPT !.answer = "timeout", !.at = "degrade"]
    OBVIOUS
  <2>2. /\ r \in CallState /\ r.at = "degrade" /\ r.answer = "timeout"
        /\ r.judged = call[c].judged /\ r.form = call[c].form
        /\ r.ran = NoForm
    BY <1>1, <1>2, <1>3, <2>1 DEF CallState, Places
  <2>3. /\ call'[c] \in CallState /\ call'[c].at = "degrade"
        /\ call'[c].answer = "timeout" /\ call'[c].ran = NoForm
        /\ call'[c].judged = call[c].judged /\ call'[c].form = call[c].form
    <3>1. PICK t : t = [r EXCEPT !.depth = 0]
      OBVIOUS
    <3>2. call'[c] = t
      BY <1>1, <1>5, <2>1, <3>1 DEF TypeOK
    <3>3. r \in CallState
      BY <2>2
    <3>4. /\ t \in CallState /\ t.at = r.at /\ t.answer = r.answer
          /\ t.judged = r.judged /\ t.form = r.form /\ t.ran = r.ran
      BY <3>1, <3>3 DEF CallState
    <3> QED  BY <2>2, <3>2, <3>4
  <2>4. StepOf(c)
    BY <1>1, <1>5 DEF StepOf, TypeOK
  <2>5. /\ Judged(c)' = Judged(c) /\ Checked(c)' = Checked(c)
        /\ Enforced(c)' = Enforced(c)
    BY <1>1, <2>3, SameJudgement
  <2>6. Enforced(c) => \A i \in 1 .. Len(call[c].judged) :
                           ActionOf[call[c].judged[i].rule] # "DENY"
    BY <1>1 DEF CallInv, DenialInv
  <2>7. CallInv(c)'
    BY <1>1, <1>2, <1>5, <2>3, <2>5, <2>6, SMTT(30), ZenonT(30)
       DEF CallInv, JudgedInv, RanInv, AnswerInv, DenialInv, RecordedInv, Ran
  <2> QED  BY <2>4, <2>7, StepKeeps
<1>6. CASE call' = [call EXCEPT ![c].answer = "timeout", ![c].at = "backfill"]
  <2>1. Led(c, "backfill", "timeout")
    BY <1>1, <1>3, <1>6, Answered
  <2> QED  BY <1>2, <2>1, LedToRefusal
<1> QED  BY <1>4, <1>5, <1>6 DEF HumanTimeout

\* A refusal by the limits.
LEMMA OverLimitKeeps ==
    ASSUME CallAssumption, NothingAssumption, IInv, NEW c \in Calls,
           call[c].at \in {"enforce", "allow"}, OverLimit(c),
           UNCHANGED <<config, trace, recorded>>
    PROVE  IInv'
<1>1. CASE Ends(c)
  BY <1>1, EndsKeeps
<1>2. CASE call' = [call EXCEPT ![c].answer = "overLimit", ![c].at = "backfill"]
  <2>1. call[c].ran = NoForm
    BY DEF IInv, CallInv, RanInv, Ran
  <2>2. "overLimit" \in Answers /\ "backfill" \in Places
    BY DEF Answers, Places
  <2>3. Led(c, "backfill", "overLimit")
    BY <1>2, <2>2, Answered
  <2> QED  BY <2>1, <2>3, LedToRefusal
<1> QED  BY <1>1, <1>2 DEF OverLimit

\* Enforcer._allow runs the form as its rule rewrites it, or the limits refuse it.
LEMMA AllowKeeps ==
    ASSUME CallAssumption, NothingAssumption, IInv, NEW c \in Calls, Allow(c)
    PROVE  IInv'
<1>1. /\ CallInv(c) /\ TypeOK /\ call[c] \in CallState /\ call[c].at = "allow"
      /\ UNCHANGED <<config, trace, recorded>>
  BY DEF IInv, TypeOK, Allow
<1>2. CASE OverLimit(c)
  BY <1>1, <1>2, OverLimitKeeps
<1>3. CASE Runs(c, Rewritten(c))
  <2>1. call[c].judged # <<>> /\ Judged(c).form = call[c].form
    BY <1>1 DEF CallInv, JudgedInv
  <2>2. PICK f \in Forms : f = Rewritten(c)
    BY <1>1, <2>1, LastJudgement
  <2>3. call' = [call EXCEPT ![c].at = "run", ![c].ran = f]
    BY <1>3, <2>2 DEF Runs
  <2>4. call'[c] = [call[c] EXCEPT !.at = "run", !.ran = f]
    BY <1>1, <2>3 DEF TypeOK
  <2>5. call'[c].judged = call[c].judged /\ call'[c].answer = call[c].answer
    BY <1>1, <2>4 DEF CallState
  <2>6. Judged(c)' = Judged(c) /\ Action(c)' = Action(c)
    BY <1>1, <2>5, SameJudgement
  <2>7. \/ /\ Action(c) = "ALLOW" /\ Len(call[c].judged) = 1
           /\ call[c].answer = "none"
        \/ Action(c) = "LLM_CHECK" /\ call[c].answer = "allow"
        \/ Checked(c) /\ call[c].answer = "approved"
    BY <1>1 DEF CallInv, AnswerInv
  <2>8. f = Rewrite[Judged(c).rule][Judged(c).form]
    BY <2>1, <2>2 DEF Rewritten
  <2>9. Permitted(c, f)'
    BY <2>5, <2>6, <2>7, <2>8 DEF Permitted, Checked
  <2>10. call[c].answer \in Answers
    BY <1>1 DEF CallState
  <2>11. call[c].answer \notin {"unavailable", "deny", "denied", "overLimit"}
    BY <2>7
  <2> QED  BY <1>1, <2>3, <2>9, <2>10, <2>11, RunsKeeps DEF Runs
<1> QED  BY <1>2, <1>3 DEF Allow

\* Enforcer._degrade runs the rewritten form or asks for its judgement.
LEMMA DegradeKeeps ==
    ASSUME CallAssumption, NothingAssumption, IInv, NEW c \in Calls, Degrade(c)
    PROVE  IInv'
<1>1. /\ CallInv(c) /\ TypeOK /\ call[c] \in CallState /\ call[c].at = "degrade"
      /\ UNCHANGED <<config, trace, recorded>>
  BY DEF IInv, TypeOK, Degrade
<1>2. /\ call[c].judged # <<>> /\ Judged(c).form = call[c].form
      /\ call[c].ran = NoForm
  BY <1>1 DEF CallInv, JudgedInv, RanInv, Ran
<1>3. PICK f \in Forms : f = Rewritten(c)
  BY <1>1, <1>2, LastJudgement
<1>4. \/ Action(c) = "DEGRADE" /\ call[c].answer = "none"
      \/ /\ Checked(c) /\ call[c].answer = "timeout"
         /\ config.onTimeout = "degrade" /\ Judged(c).rule \in Profiled
  BY <1>1 DEF CallInv, AnswerInv
<1>5. call[c].answer \in Answers
  BY <1>1 DEF CallState
<1>6. CASE Runs(c, Rewritten(c))
  <2>1. call' = [call EXCEPT ![c].at = "run", ![c].ran = f]
    BY <1>3, <1>6 DEF Runs
  <2>2. call'[c] = [call[c] EXCEPT !.at = "run", !.ran = f]
    BY <1>1, <2>1 DEF TypeOK
  <2>3. call'[c].judged = call[c].judged /\ call'[c].answer = call[c].answer
    BY <1>1, <2>2 DEF CallState
  <2>4. Judged(c)' = Judged(c) /\ Action(c)' = Action(c)
    BY <1>1, <2>3, SameJudgement
  <2>5. f = Rewrite[Judged(c).rule][Judged(c).form]
    BY <1>2, <1>3 DEF Rewritten
  <2>6. Permitted(c, f)'
    BY <1>1, <1>4, <2>3, <2>4, <2>5 DEF Permitted, Checked
  <2>7. call[c].answer \notin {"unavailable", "deny", "denied", "overLimit"}
    BY <1>4
  <2> QED  BY <1>1, <1>5, <2>1, <2>6, <2>7, RunsKeeps DEF Runs
<1>7. CASE call' = [call EXCEPT ![c].at = "evaluate", ![c].form = Rewritten(c),
                                ![c].known = Recorded]
  <2>1. PICK k \in [Calls -> Nat] : k = Recorded
    BY <1>1, RecordedType
  <2>2. PICK r : r = [call[c] EXCEPT !.at = "evaluate"]
    OBVIOUS
  <2>3. /\ r \in CallState /\ r.at = "evaluate" /\ r.answer = call[c].answer
        /\ r.judged = call[c].judged /\ r.ran = call[c].ran
    BY <1>1, <2>2 DEF CallState, Places
  <2>4. PICK t : t = [r EXCEPT !.form = f, !.known = k]
    OBVIOUS
  <2>5. /\ t \in CallState /\ t.at = "evaluate" /\ t.answer = call[c].answer
        /\ t.judged = call[c].judged /\ t.ran = call[c].ran
    BY <2>3, <2>4 DEF CallState
  <2>6. call'[c] = t
    BY <1>1, <1>3, <1>7, <2>1, <2>2, <2>4 DEF TypeOK
  <2>7. StepOf(c) /\ recorded'[c] \in Seq(Records)
    BY <1>1, <1>7 DEF StepOf, TypeOK
  <2>8. Enforced(c)' = Enforced(c)
    BY <1>1 DEF Enforced, Coroutine
  <2>9. Enforced(c) => \A i \in 1 .. Len(call[c].judged) :
                           ActionOf[call[c].judged[i].rule] # "DENY"
    BY <1>1 DEF CallInv, DenialInv
  <2>10. CallInv(c)'
    BY <1>2, <1>4, <2>5, <2>6, <2>7, <2>8, <2>9
       DEF CallInv, JudgedInv, RanInv, AnswerInv, DenialInv, RecordedInv, Ran
  <2> QED  BY <2>7, <2>10, StepKeeps
<1> QED  BY <1>6, <1>7 DEF Degrade

\* async_wrapper acts on the decision itself.
LEMMA EnforceCoroutineKeeps ==
    ASSUME CallAssumption, NothingAssumption, IInv, NEW c \in Calls,
           EnforceCoroutine(c)
    PROVE  IInv'
<1>1. /\ CallInv(c) /\ TypeOK /\ call[c] \in CallState /\ call[c].at = "enforce"
      /\ UNCHANGED <<config, trace, recorded>> /\ Coroutine(c)
  BY DEF IInv, TypeOK, EnforceCoroutine
<1>2. CASE Ends(c)
  BY <1>1, <1>2, EndsKeeps
<1>3. CASE OverLimit(c)
  BY <1>1, <1>3, OverLimitKeeps
<1>4. CASE /\ Action(c) \notin {"DENY", "HUMAN_CHECK"}
           /\ Runs(c, Rewritten(c))
  <2>1. /\ call[c].judged # <<>> /\ Judged(c).form = call[c].form
        /\ Len(call[c].judged) = 1 /\ call[c].answer = "none"
    BY <1>1 DEF CallInv, JudgedInv, AnswerInv
  <2>2. Action(c) \in {"ALLOW", "LLM_CHECK", "DEGRADE"}
    BY <1>1, <1>4, <2>1, LastJudgement DEF Actions
  <2>3. PICK f \in Forms : f = Rewritten(c)
    BY <1>1, <2>1, LastJudgement
  <2>4. call' = [call EXCEPT ![c].at = "run", ![c].ran = f]
    BY <1>4, <2>3 DEF Runs
  <2>5. call'[c] = [call[c] EXCEPT !.at = "run", !.ran = f]
    BY <1>1, <2>4 DEF TypeOK
  <2>6. call'[c].judged = call[c].judged /\ call'[c].answer = call[c].answer
    BY <1>1, <2>5 DEF CallState
  <2>7. /\ Judged(c)' = Judged(c) /\ Action(c)' = Action(c)
        /\ Coroutine(c)' = Coroutine(c)
    BY <1>1, <2>6, SameJudgement
  <2>8. f = Rewrite[Judged(c).rule][Judged(c).form]
    BY <2>1, <2>3 DEF Rewritten
  <2>9. Permitted(c, f)'
    BY <1>1, <2>1, <2>2, <2>6, <2>7, <2>8 DEF Permitted
  <2>10. call[c].answer \in Answers
    BY <1>1 DEF CallState
  <2>11. Action(c) # "DENY"
    BY <1>4
  <2> QED  BY <1>1, <2>1, <2>4, <2>9, <2>10, <2>11, RunsKeeps DEF Runs
<1> QED  BY <1>2, <1>3, <1>4 DEF EnforceCoroutine

-----------------------------------------------------------------------------
(* The tool, and what follows it.                                          *)

\* What ran, and why, stays as it is while the call is closed.
LEMMA ClosingKeeps ==
    ASSUME IInv, NEW c \in Calls, StepOf(c), call'[c] \in CallState,
           recorded'[c] \in Seq(Records),
           call[c].at \in {"run", "backfill"},
           call'[c].at \in {"backfill", "result"},
           call'[c].judged = call[c].judged, call'[c].ran = call[c].ran,
           call'[c].answer = call[c].answer
    PROVE  IInv'
<1>1. CallInv(c) /\ config' = config
  BY DEF IInv, StepOf
<1>2. /\ Judged(c)' = Judged(c) /\ Action(c)' = Action(c)
      /\ SameRules(c)' = SameRules(c) /\ Coroutine(c)' = Coroutine(c)
      /\ Enforced(c)' = Enforced(c)
  BY <1>1, SameJudgement
<1>3. JudgedInv(c)' /\ RecordedInv(c)'
  BY DEF JudgedInv, RecordedInv
<1>4. RanInv(c)'
  BY <1>1 DEF CallInv, RanInv, Ran
<1>5. DenialInv(c)'
  BY <1>1, <1>2 DEF CallInv, DenialInv, Ran
<1>6. PICK f : f = call[c].ran
  OBVIOUS
<1>7. Enforced(c) /\ Ran(c) =>
          /\ call[c].answer \notin {"deny", "denied", "overLimit"}
          /\ Permitted(c, f)
  BY <1>1, <1>6 DEF CallInv, AnswerInv
<1>8. Permitted(c, f) => Permitted(c, f)'
  BY <1>1, <1>2 DEF Permitted
<1>9. AnswerInv(c)'
  BY <1>2, <1>6, <1>7, <1>8 DEF AnswerInv, Ran
<1>10. CallInv(c)'
  BY <1>3, <1>4, <1>5, <1>9 DEF CallInv
<1> QED  BY <1>10, StepKeeps

\* The tool's return leads to the finally clause, or ends an unguarded call.
LEMMA ReturnKeeps ==
    ASSUME CallAssumption, NothingAssumption, IInv, NEW c \in Calls, Return(c)
    PROVE  IInv'
<1>1. /\ TypeOK /\ call[c] \in CallState /\ call[c].at = "run"
      /\ UNCHANGED <<config, trace, recorded>>
      /\ call' = [call EXCEPT ![c].at = "backfill", ![c].value = c]
  BY DEF IInv, TypeOK, Return
<1>2. PICK v \in Calls \cup {NoCall} : v = c
  OBVIOUS
<1>3. PICK t : t = [call[c] EXCEPT !.at = "backfill", !.value = v]
  OBVIOUS
<1>4. /\ t \in CallState /\ t.at = "backfill" /\ t.answer = call[c].answer
      /\ t.judged = call[c].judged /\ t.ran = call[c].ran
  BY <1>1, <1>3 DEF CallState, Places
<1>5. call'[c] = t
  BY <1>1, <1>2, <1>3 DEF TypeOK
<1>6. StepOf(c) /\ recorded'[c] \in Seq(Records)
  BY <1>1 DEF StepOf, TypeOK
<1> QED  BY <1>1, <1>4, <1>5, <1>6, ClosingKeeps

\* So does its exception.
LEMMA RaiseKeeps ==
    ASSUME CallAssumption, NothingAssumption, IInv, NEW c \in Calls, Raise(c)
    PROVE  IInv'
<1>1. call[c].at = "run" /\ UNCHANGED <<config, trace, recorded>>
  BY DEF Raise
<1>2. CASE Ends(c)
  BY <1>1, <1>2, EndsKeeps
<1>3. CASE Goes(c, "backfill")
  <2>1. "backfill" \in Places
    BY DEF Places
  <2>2. Led(c, "backfill", call[c].answer)
    BY <1>1, <1>3, <2>1, Moved DEF Goes
  <2> QED  BY <1>1, <2>2, ClosingKeeps DEF Led
<1> QED  BY <1>2, <1>3 DEF Raise

\* A tool called with no runtime to ask returns, and the call is over.
LEMMA ReturnUnguardedKeeps ==
    ASSUME NothingAssumption, IInv, NEW c \in Calls, ReturnUnguarded(c)
    PROVE  IInv'
BY EndsKeeps DEF ReturnUnguarded

\* The finally clause writes the outcome into the trace.
LEMMA BackfillKeeps ==
    ASSUME CallAssumption, NothingAssumption, IInv, NEW c \in Calls, Backfill(c)
    PROVE  IInv'
<1>1. /\ TypeOK /\ call[c] \in CallState /\ call[c].at = "backfill"
      /\ UNCHANGED <<config, recorded>> /\ call' = [call EXCEPT ![c].at = "result"]
  BY DEF IInv, TypeOK, Backfill, Goes
<1>2. "result" \in Places /\ call[c].value \in Calls \cup {NoCall}
  BY <1>1 DEF Places, CallState
<1>3. trace' \in Seq(Entry)
  <2>1. PICK S : S = Newest(ResultTool(c))
    OBVIOUS
  <2>2. PICK v \in Calls \cup {NoCall} : v = call[c].value
    BY <1>2
  <2>3. trace' = [i \in DOMAIN trace |->
                     IF i \in S THEN [trace[i] EXCEPT !.result = v] ELSE trace[i]]
    BY <2>1, <2>2 DEF Backfill
  <2>4. trace \in Seq(Entry) /\ DOMAIN trace = 1 .. Len(trace) /\ Len(trace) \in Nat
    BY <1>1 DEF TypeOK
  <2>5. \A i \in DOMAIN trace : trace[i] \in Entry
    BY <2>4
  <2>6. \A e \in Entry : [e EXCEPT !.result = v] \in Entry
    BY DEF Entry
  <2>7. trace' \in [1 .. Len(trace) -> Entry]
    BY <2>3, <2>4, <2>5, <2>6
  <2> QED  BY <2>4, <2>7
<1>4. PICK t : t = [call[c] EXCEPT !.at = "result"]
  OBVIOUS
<1>5. /\ t \in CallState /\ t.at = "result" /\ t.answer = call[c].answer
      /\ t.judged = call[c].judged /\ t.ran = call[c].ran
  BY <1>1, <1>2, <1>4, PlaceUpdated
<1>6. call'[c] = t
  BY <1>1, <1>4 DEF TypeOK
<1>7. StepOf(c) /\ recorded'[c] \in Seq(Records)
  BY <1>1, <1>3 DEF StepOf, TypeOK
<1> QED  BY <1>1, <1>5, <1>6, <1>7, ClosingKeeps

\* The result is handed to the recorders and the call is over.
LEMMA ResultKeeps ==
    ASSUME NothingAssumption, IInv, NEW c \in Calls, Result(c)
    PROVE  IInv'
BY EndsKeeps DEF Result

\* An exception of the finally clause ends the call with no result recorded.
LEMMA BackfillRaisesKeeps ==
    ASSUME NothingAssumption, IInv, NEW c \in Calls, BackfillRaises(c)
    PROVE  IInv'
BY EndsKeeps DEF BackfillRaises

\* An exception of handle_attempt ends the call, sends it to the finally clause or
\* lets a coroutine run unguarded.
LEMMA AttemptRaisesKeeps ==
    ASSUME CallAssumption, NothingAssumption, IInv, NEW c \in Calls, AttemptRaises(c)
    PROVE  IInv'
<1>1. /\ CallInv(c) /\ TypeOK /\ call[c] \in CallState
      /\ call[c].at \in {"evaluate", "append"}
      /\ UNCHANGED <<config, trace, recorded>>
  BY DEF IInv, TypeOK, AttemptRaises
<1>2. call[c].ran = NoForm /\ call[c].answer # "unavailable"
  BY <1>1 DEF CallInv, RanInv, Ran
<1>3. CASE Goes(c, "backfill")
  <2>1. "backfill" \in Places
    BY DEF Places
  <2>2. Led(c, "backfill", call[c].answer)
    BY <1>1, <1>3, <2>1, Moved DEF Goes
  <2> QED  BY <1>2, <2>2, LedToRefusal
<1>4. CASE Ends(c)
  BY <1>1, <1>4, EndsKeeps
<1>5. CASE /\ Coroutine(c)
           /\ call' = [call EXCEPT ![c].at = "unguarded", ![c].answer = "unavailable",
                                   ![c].ran = call[c].asked]
  <2>1. PICK f \in Forms : f = call[c].asked
    BY <1>1 DEF CallState
  <2>2. PICK r : r = [call[c] EXCEPT !.at = "unguarded", !.answer = "unavailable"]
    OBVIOUS
  <2>3. /\ r \in CallState /\ r.at = "unguarded" /\ r.answer = "unavailable"
    BY <1>1, <2>2 DEF CallState, Places, Answers
  <2>4. PICK t : t = [r EXCEPT !.ran = f]
    OBVIOUS
  <2>5. t \in CallState /\ t.at = "unguarded" /\ t.answer = "unavailable"
    BY <2>3, <2>4 DEF CallState
  <2>6. call'[c] = t
    BY <1>1, <1>5, <2>1, <2>2, <2>4 DEF TypeOK
  <2>7. StepOf(c) /\ recorded'[c] \in Seq(Records)
    BY <1>1, <1>5 DEF StepOf, TypeOK
  <2>8. Coroutine(c)'
    BY <1>1, <1>5 DEF Coroutine
  <2>9. CallInv(c)'
    BY <2>5, <2>6, <2>7, <2>8
       DEF CallInv, JudgedInv, RanInv, AnswerInv, DenialInv, RecordedInv
  <2> QED  BY <2>7, <2>9, StepKeeps
<1> QED  BY <1>3, <1>4, <1>5 DEF AttemptRaises

-----------------------------------------------------------------------------
(* The invariant of the specification.                                     *)

\* Initially every call is idle, with nothing judged, run or recorded.
LEMMA InitInv ==
    ASSUME CallAssumption, NothingAssumption, Init
    PROVE  IInv
<1>1. PICK asked \in [Calls -> Forms] :
          call = [c \in Calls |-> Fresh(asked[c], "idle")]
  BY DEF Init
<1>2. ASSUME NEW c \in Calls
      PROVE  CallInv(c)
  <2>1. call[c] = Fresh(asked[c], "idle") /\ recorded[c] = <<>>
    BY <1>1 DEF Init
  <2>2. /\ call[c].at = "idle" /\ call[c].judged = <<>> /\ call[c].ran = NoForm
        /\ call[c].answer = "none"
    BY <2>1 DEF Fresh
  <2>3. asked[c] \in Forms /\ "idle" \in Places /\ "none" \in Answers
    BY <1>1 DEF Places, Answers
  <2>4. call[c] \in CallState
    BY <2>1, <2>3 DEF Fresh, CallState
  <2> QED  BY <2>1, <2>2, <2>4
              DEF CallInv, JudgedInv, RanInv, AnswerInv, DenialInv, RecordedInv, Ran
<1>3. call \in [Calls -> CallState]
  <2>1. \A c \in Calls : call[c] \in CallState
    BY <1>2 DEF CallInv
  <2> QED  BY <1>1, <2>1
<1>4. config \in Configs /\ trace \in Seq(Entry) /\ recorded \in [Calls -> Seq(Records)]
  BY DEF Init
<1> QED  BY <1>2, <1>3, <1>4 DEF IInv, TypeOK

\* Every step keeps the inductive invariant.
LEMMA NextInv ==
    ASSUME CallAssumption, NothingAssumption, IInv, [Next]_vars
    PROVE  IInv'
<1>1. ASSUME NEW c \in Calls, Progress(c)
      PROVE  IInv'
  BY <1>1, EvaluateKeeps, AppendTraceKeeps, RecordKeeps, AttemptRaisesKeeps,
     EnforceKeeps, EnforceCoroutineKeeps, AllowKeeps, DegradeKeeps,
     LlmReviewKeeps, SuspendKeeps, HumanVerdictKeeps, HumanTimeoutKeeps,
     BackfillKeeps, BackfillRaisesKeeps, ResultKeeps
     DEF Progress
<1>2. ASSUME NEW c \in Calls, Outside(c)
      PROVE  IInv'
  BY <1>2, BeginKeeps, ReturnKeeps, RaiseKeeps, ReturnUnguardedKeeps DEF Outside
<1>3. CASE UNCHANGED vars
  <2>1. \A c \in Calls : CallInv(c)'
    BY <1>3, OthersKeep DEF IInv, vars
  <2> QED  BY <1>3, <2>1 DEF IInv, TypeOK, vars
<1> QED  BY <1>1, <1>2, <1>3 DEF Next

\* The inductive invariant holds in every reachable state.
LEMMA Invariance == Spec => []IInv
<1>1. Init => IInv
  BY InitInv, CallAssumption, NothingAssumption
<1>2. IInv /\ [Next]_vars => IInv'
  BY NextInv, CallAssumption, NothingAssumption
<1> QED  BY <1>1, <1>2, PTL DEF Spec

\* Every variable keeps its type.
THEOREM TypeCorrect == Spec => []TypeOK
<1>1. IInv => TypeOK
  BY DEF IInv
<1> QED  BY <1>1, Invariance, PTL

\* Enforcer.apply and async_wrapper never call a tool for a call that was
\* refused by one of its judgements, a reviewer, an approver or the limiter.
THEOREM RefusalIsFinal == Spec => []RefusedNeverRuns
<1>1. ASSUME IInv
      PROVE  RefusedNeverRuns
  <2> SUFFICES ASSUME NEW c \in Calls, Enforced(c), Ran(c),
                      call[c].answer # "unavailable"
               PROVE  /\ call[c].answer \notin {"deny", "denied", "overLimit"}
                      /\ \A i \in DOMAIN call[c].judged :
                             ActionOf[call[c].judged[i].rule] # "DENY"
    BY DEF RefusedNeverRuns
  <2>1. CallInv(c) /\ call[c].at # "unguarded"
    BY <1>1 DEF IInv, CallInv, RanInv
  <2>2. call[c].answer \notin {"deny", "denied", "overLimit"}
    BY <2>1 DEF CallInv, AnswerInv
  <2>3. \A i \in 1 .. Len(call[c].judged) :
            ActionOf[call[c].judged[i].rule] # "DENY"
    BY <2>1 DEF CallInv, DenialInv
  <2>4. DOMAIN call[c].judged = 1 .. Len(call[c].judged)
    BY <2>1 DEF CallInv, CallState
  <2> QED  BY <2>2, <2>3, <2>4
<1> QED  BY <1>1, Invariance, PTL

\* A tool is called only with the form that the last judgement, and whoever was
\* asked because of it, let run (Enforcer._allow, _human_check, _degrade).
THEOREM OnlyThePermittedRuns == Spec => []RunsAsPermitted
<1>1. ASSUME IInv
      PROVE  RunsAsPermitted
  <2> SUFFICES ASSUME NEW c \in Calls, Enforced(c), Ran(c),
                      call[c].answer # "unavailable"
               PROVE  Permitted(c, call[c].ran)
    BY DEF RunsAsPermitted
  <2>1. CallInv(c) /\ call[c].at # "unguarded"
    BY <1>1 DEF IInv, CallInv, RanInv
  <2> QED  BY <2>1 DEF CallInv, AnswerInv
<1> QED  BY <1>1, Invariance, PTL

-----------------------------------------------------------------------------
(* Every call lives the abstract life.                                     *)

\* Only the frames and the records of call c change.
Local(c) ==
    /\ config' = config
    /\ call' = [b \in Calls |-> IF b = c THEN call'[c] ELSE call[b]]
    /\ recorded' = [b \in Calls |-> IF b = c THEN recorded'[c] ELSE recorded[b]]

Bypass == IF config.flaky THEN config.coroutines ELSE {}
Lax == IF config.flaky THEN Calls ELSE config.coroutines

\* Call c goes from a phase to another, and more is recorded of it or not.
Phased(c, from, to, rec) ==
    /\ Phase[c] = from /\ Phase'[c] = to
    /\ recorded'[c] = rec

\* The steps of the abstract life, or none.
Simulated(c) ==
    \/ Phase'[c] = Phase[c] /\ recorded'[c] = recorded[c]
    \/ Phased(c, "new", "open", recorded[c])
    \/ \E to \in {"open", "running", "closing"} :
           Phased(c, "open", to, Append(recorded[c], "attempt"))
    \/ /\ Phased(c, "open", "running", recorded[c])
       /\ recorded[c] # <<>> \/ c \in Bypass
    \/ \E from \in {"open", "running"} : Phased(c, from, "closing", recorded[c])
    \/ Phased(c, "closing", "ended", Append(recorded[c], "result"))
    \/ /\ c \in Lax
       /\ \E from \in {"open", "running", "closing"} :
              Phased(c, from, "ended", recorded[c])

\* A step of one call that moves its phase and its records as an abstract step
\* does is a step of CallLifecycle.
LEMMA Simulation ==
    ASSUME TypeOK, NEW c \in Calls, Local(c), Simulated(c)
    PROVE  [Lifecycle!Next]_Lifecycle!vars
<1>1. PICK to : to = Phase'[c]
  OBVIOUS
<1>2. Phase' = [Phase EXCEPT ![c] = to]
  BY <1>1 DEF Phase, Local
<1>3. PICK rec : rec = recorded'[c]
  OBVIOUS
<1>4. recorded' = [recorded EXCEPT ![c] = rec]
  BY <1>3 DEF Local, TypeOK
<1>5. Bypass' = Bypass /\ Lax' = Lax
  BY DEF Bypass, Lax, Local
<1>6. /\ (rec = recorded[c] => recorded' = recorded)
      /\ (to = Phase[c] => Phase' = Phase)
  BY <1>2, <1>4, SMTT(30), ZenonT(30) DEF TypeOK, Phase
<1>7. CASE to = Phase[c] /\ rec = recorded[c]
  BY <1>5, <1>6, <1>7 DEF Lifecycle!vars, Bypass, Lax
<1>8. CASE Phased(c, "new", "open", recorded[c])
  <2>1. Lifecycle!Open(c)
    BY <1>1, <1>2, <1>3, <1>6, <1>8 DEF Phased, Lifecycle!Open, Lifecycle!Moves
  <2> QED  BY <1>5, <2>1 DEF Lifecycle!Next, Bypass, Lax
<1>9. CASE \E p \in {"open", "running", "closing"} :
               Phased(c, "open", p, Append(recorded[c], "attempt"))
  <2>1. Lifecycle!Judge(c)
    BY <1>1, <1>2, <1>3, <1>4, <1>9 DEF Phased, Lifecycle!Judge, Lifecycle!Moves
  <2> QED  BY <1>5, <2>1 DEF Lifecycle!Next, Bypass, Lax
<1>10. CASE /\ Phased(c, "open", "running", recorded[c])
            /\ recorded[c] # <<>> \/ c \in Bypass
  <2>1. Lifecycle!Run(c)
    BY <1>1, <1>2, <1>3, <1>6, <1>10
       DEF Phased, Lifecycle!Run, Lifecycle!Moves, Bypass
  <2> QED  BY <1>5, <2>1 DEF Lifecycle!Next, Bypass, Lax
<1>11. CASE \E from \in {"open", "running"} : Phased(c, from, "closing", recorded[c])
  <2>1. Lifecycle!Close(c)
    BY <1>1, <1>2, <1>3, <1>6, <1>11 DEF Phased, Lifecycle!Close, Lifecycle!Moves
  <2> QED  BY <1>5, <2>1 DEF Lifecycle!Next, Bypass, Lax
<1>12. CASE Phased(c, "closing", "ended", Append(recorded[c], "result"))
  <2>1. Lifecycle!End(c)
    BY <1>1, <1>2, <1>3, <1>4, <1>12 DEF Phased, Lifecycle!End, Lifecycle!Moves
  <2> QED  BY <1>5, <2>1 DEF Lifecycle!Next, Bypass, Lax
<1>13. CASE /\ c \in Lax
            /\ \E from \in {"open", "running", "closing"} :
                   Phased(c, from, "ended", recorded[c])
  <2>1. Lifecycle!Abandon(c)
    BY <1>1, <1>2, <1>3, <1>6, <1>13
       DEF Phased, Lifecycle!Abandon, Lifecycle!Moves, Lax
  <2> QED  BY <1>5, <2>1 DEF Lifecycle!Next, Bypass, Lax
<1> QED  BY <1>1, <1>3, <1>7, <1>8, <1>9, <1>10, <1>11, <1>12, <1>13 DEF Simulated

\* The phases of the places.
LEMMA PhaseOfPlace ==
    ASSUME NEW c \in Calls
    PROVE  /\ call[c].at = "idle" => Phase[c] = "new"
           /\ call[c].at \in {"evaluate", "append", "record", "enforce", "llm",
                              "human", "allow", "degrade"} => Phase[c] = "open"
           /\ call[c].at \in {"run", "unguarded"} => Phase[c] = "running"
           /\ call[c].at \in {"backfill", "result"} => Phase[c] = "closing"
           /\ call'[c].at \in {"evaluate", "append", "record", "enforce", "llm",
                               "human", "allow", "degrade"} => Phase'[c] = "open"
           /\ call'[c].at \in {"run", "unguarded"} => Phase'[c] = "running"
           /\ call'[c].at \in {"backfill", "result"} => Phase'[c] = "closing"
           /\ call'[c].at = "done" => Phase'[c] = "ended"
BY DEF Phase

\* A step from within apply, where a judgement is recorded.
LEMMA EnforcingSimulates ==
    ASSUME IInv, NEW c \in Calls, Local(c), recorded'[c] = recorded[c],
           call[c].at \in {"enforce", "llm", "human", "allow", "degrade"},
           \/ call'[c].at \in {"evaluate", "llm", "human", "allow", "degrade",
                               "backfill", "run"}
           \/ call'[c].at = "done" /\ c \in Lax
    PROVE  [Lifecycle!Next]_Lifecycle!vars
<1>1. CallInv(c) /\ TypeOK
  BY DEF IInv
<1>2. recorded[c] # <<>>
  BY <1>1 DEF CallInv, RecordedInv
<1>3. Simulated(c)
  BY <1>2, PhaseOfPlace DEF Simulated, Phased
<1> QED  BY <1>1, <1>3, Simulation

\* A call that ends with no record of a result.
LEMMA EndsSimulates ==
    ASSUME IInv, NEW c \in Calls, Ends(c), config' = config, recorded' = recorded,
           call[c].at \notin {"idle", "done"}, c \in Lax
    PROVE  [Lifecycle!Next]_Lifecycle!vars
<1>1. TypeOK /\ call[c].at \in Places
  BY DEF IInv, TypeOK, CallState
<1>2. call'[c].at = "done" /\ Local(c)
  BY <1>1 DEF Ends, Fresh, Local, TypeOK
<1>3. Simulated(c)
  BY <1>1, <1>2, PhaseOfPlace DEF Simulated, Phased, Places
<1> QED  BY <1>1, <1>2, <1>3, Simulation

\* The steps up to the first judgement are abstract openings and judgements.
LEMMA AttemptSimulates ==
    ASSUME IInv, NEW c \in Calls,
           \/ Begin(c) \/ Evaluate(c) \/ AppendTrace(c) \/ Record(c)
    PROVE  [Lifecycle!Next]_Lifecycle!vars
<1>1. TypeOK /\ call[c] \in CallState
  BY DEF IInv, TypeOK
<1>2. CASE Begin(c)
  <2>1. /\ call[c].at = "idle" /\ call'[c].at = "evaluate"
        /\ recorded' = recorded /\ Local(c)
    BY <1>1, <1>2 DEF Begin, Local, TypeOK, CallState
  <2>2. Simulated(c)
    BY <2>1, PhaseOfPlace DEF Simulated, Phased
  <2> QED  BY <1>1, <2>1, <2>2, Simulation
<1>3. CASE Evaluate(c)
  <2>1. PICK r \in Rules :
            call' = [call EXCEPT
                        ![c].at = "append", ![c].answer = "none",
                        ![c].saw = Len(trace),
                        ![c].judged = Append(@, [form |-> call[c].form,
                                                 rule |-> r])]
    BY <1>3 DEF Evaluate
  <2>2. call[c].at = "evaluate" /\ config' = config /\ recorded' = recorded
    BY <1>3 DEF Evaluate
  <2>3. call'[c].at = "append" /\ Local(c)
    BY <1>1, <2>1, <2>2 DEF Local, TypeOK, CallState
  <2>4. Simulated(c)
    BY <2>2, <2>3, PhaseOfPlace DEF Simulated
  <2> QED  BY <1>1, <2>3, <2>4, Simulation
<1>4. CASE AppendTrace(c)
  <2>1. /\ call[c].at = "append" /\ call'[c].at = "record"
        /\ recorded' = recorded /\ Local(c)
    BY <1>1, <1>4 DEF AppendTrace, Goes, Local, TypeOK, CallState
  <2>2. Simulated(c)
    BY <2>1, PhaseOfPlace DEF Simulated
  <2> QED  BY <1>1, <2>1, <2>2, Simulation
<1>5. CASE Record(c)
  <2>1. PICK next : next = IF Len(call[c].judged) = 1 THEN "enforce" ELSE Rejudged(c)
    OBVIOUS
  <2>2. next \in {"enforce", "degrade", "backfill", "human", "run"}
    BY <2>1 DEF Rejudged
  <2>3. PICK k, d, f :
            call' = [call EXCEPT ![c].at = next, ![c].saw = 0, ![c].known = k,
                                 ![c].depth = d, ![c].ran = f]
    BY <1>5, <2>1 DEF Record
  <2>4. call[c].at = "record" /\ config' = config
    BY <1>5 DEF Record
  <2>5. recorded' = [recorded EXCEPT ![c] = Append(recorded[c], "attempt")]
    BY <1>5 DEF Record
  <2>6. call'[c].at = next
    BY <1>1, <2>3 DEF TypeOK, CallState
  <2>7. recorded'[c] = Append(recorded[c], "attempt") /\ Local(c)
    BY <1>1, <2>3, <2>4, <2>5 DEF Local, TypeOK
  <2>8. Simulated(c)
    BY <2>2, <2>4, <2>6, <2>7, PhaseOfPlace DEF Simulated, Phased
  <2> QED  BY <1>1, <2>7, <2>8, Simulation
<1> QED  BY <1>2, <1>3, <1>4, <1>5

\* A reviewer's or approver's answer keeps the call open, closes it or runs it.
LEMMA ReviewSimulates ==
    ASSUME IInv, NEW c \in Calls,
           \/ LlmReview(c) \/ Suspend(c) \/ HumanVerdict(c) \/ HumanTimeout(c)
    PROVE  [Lifecycle!Next]_Lifecycle!vars
<1>1. TypeOK /\ call[c] \in CallState
  BY DEF IInv, TypeOK
<1>2. CASE LlmReview(c)
  <2>1. PICK v, p : /\ p \in {"allow", "backfill", "human"}
                    /\ call' = [call EXCEPT ![c].answer = v, ![c].at = p]
    <3>1. PICK v \in {"allow", "deny", "human"} :
              call' = [call EXCEPT ![c].answer = v, ![c].at = Verdicts[v]]
      BY <1>2 DEF LlmReview, Verdicts
    <3>2. Verdicts[v] \in {"allow", "backfill", "human"}
      BY DEF Verdicts
    <3> QED  BY <3>1, <3>2
  <2>2. /\ call[c].at = "llm" /\ call'[c].at = p /\ recorded'[c] = recorded[c]
        /\ Local(c)
    BY <1>1, <1>2, <2>1 DEF LlmReview, Local, TypeOK, CallState
  <2> QED  BY <2>1, <2>2, EnforcingSimulates
<1>3. CASE Suspend(c)
  <2>1. /\ call[c].at = "human" /\ call'[c].at = "backfill"
        /\ recorded'[c] = recorded[c] /\ Local(c)
    BY <1>1, <1>3 DEF Suspend, Goes, Local, TypeOK, CallState
  <2> QED  BY <2>1, EnforcingSimulates
<1>4. CASE HumanVerdict(c)
  <2>1. PICK v, p : /\ p \in {"allow", "backfill"}
                    /\ call' = [call EXCEPT ![c].answer = v, ![c].at = p]
    BY <1>4 DEF HumanVerdict
  <2>2. /\ call[c].at = "human" /\ call'[c].at = p /\ recorded'[c] = recorded[c]
        /\ Local(c)
    BY <1>1, <1>4, <2>1 DEF HumanVerdict, Local, TypeOK, CallState
  <2> QED  BY <2>1, <2>2, EnforcingSimulates
<1>5. CASE HumanTimeout(c)
  <2>1. call[c].at = "human" /\ config' = config /\ recorded' = recorded
    BY <1>5 DEF HumanTimeout
  <2>2. CASE call' = [call EXCEPT ![c].answer = "timeout", ![c].at = "run",
                                  ![c].ran = call[c].form]
    <3>1. call'[c].at = "run" /\ Local(c)
      BY <1>1, <2>1, <2>2 DEF Local, TypeOK, CallState
    <3> QED  BY <2>1, <3>1, EnforcingSimulates
  <2>3. CASE call' = [call EXCEPT ![c].answer = "timeout", ![c].at = "degrade",
                                  ![c].depth = 0]
    <3>1. call'[c].at = "degrade" /\ Local(c)
      BY <1>1, <2>1, <2>3 DEF Local, TypeOK, CallState
    <3> QED  BY <2>1, <3>1, EnforcingSimulates
  <2>4. CASE call' = [call EXCEPT ![c].answer = "timeout", ![c].at = "backfill"]
    <3>1. call'[c].at = "backfill" /\ Local(c)
      BY <1>1, <2>1, <2>4 DEF Local, TypeOK, CallState
    <3> QED  BY <2>1, <3>1, EnforcingSimulates
  <2> QED  BY <1>5, <2>2, <2>3, <2>4 DEF HumanTimeout
<1> QED  BY <1>2, <1>3, <1>4, <1>5

\* A tool is called, or the limits refuse the call.
LEMMA RunsSimulates ==
    ASSUME IInv, NEW c \in Calls, NEW f, Runs(c, f), config' = config,
           recorded' = recorded, call[c].at \in {"enforce", "allow", "degrade"}
    PROVE  [Lifecycle!Next]_Lifecycle!vars
<1>1. TypeOK /\ call[c] \in CallState
  BY DEF IInv, TypeOK
<1>2. call'[c].at = "run" /\ Local(c)
  BY <1>1 DEF Runs, Local, TypeOK, CallState
<1> QED  BY <1>2, EnforcingSimulates

\* A refusal by the limits closes the call.
LEMMA OverLimitSimulates ==
    ASSUME IInv, NEW c \in Calls, OverLimit(c), config' = config,
           recorded' = recorded, call[c].at \in {"enforce", "allow"}
    PROVE  [Lifecycle!Next]_Lifecycle!vars
<1>1. TypeOK /\ call[c] \in CallState
  BY DEF IInv, TypeOK
<1>2. CASE Coroutine(c) /\ Ends(c)
  <2>1. c \in Lax
    BY <1>2 DEF Coroutine, Lax
  <2> QED  BY <1>2, <2>1, EndsSimulates
<1>3. CASE call' = [call EXCEPT ![c].answer = "overLimit", ![c].at = "backfill"]
  <2>1. call'[c].at = "backfill" /\ Local(c)
    BY <1>1, <1>3 DEF Local, TypeOK, CallState
  <2> QED  BY <2>1, EnforcingSimulates
<1> QED  BY <1>2, <1>3 DEF OverLimit

\* Acting on the decision keeps the call open, closes it or runs it.
LEMMA EnforceSimulates ==
    ASSUME CallAssumption, IInv, NEW c \in Calls,
           \/ Enforce(c) \/ EnforceCoroutine(c) \/ Allow(c) \/ Degrade(c)
    PROVE  [Lifecycle!Next]_Lifecycle!vars
<1>1. TypeOK /\ call[c] \in CallState /\ CallInv(c)
  BY DEF IInv, TypeOK
<1>2. CASE Enforce(c)
  <2>1. call[c].at = "enforce" /\ config' = config /\ recorded' = recorded
    BY <1>2 DEF Enforce
  <2>2. CASE Runs(c, call[c].form)
    BY <2>1, <2>2, RunsSimulates
  <2>3. CASE call' = [call EXCEPT ![c].at = "backfill", ![c].value = c]
    <3>1. call'[c].at = "backfill" /\ Local(c)
      BY <1>1, <2>1, <2>3 DEF Local, TypeOK, CallState
    <3> QED  BY <2>1, <3>1, EnforcingSimulates
  <2>4. CASE Goes(c, Branch[Action(c)])
    <3>1. PICK p : p = Branch[Action(c)]
      OBVIOUS
    <3>2. Action(c) \in Actions
      BY <1>1, <2>1, LastJudgement DEF CallInv, JudgedInv
    <3>3. p \in {"allow", "backfill", "llm", "human", "degrade"}
      BY <3>1, <3>2 DEF Branch, Actions
    <3>4. call'[c].at = p /\ Local(c)
      BY <1>1, <2>1, <2>4, <3>1 DEF Goes, Local, TypeOK, CallState
    <3> QED  BY <2>1, <3>3, <3>4, EnforcingSimulates
  <2> QED  BY <1>2, <2>2, <2>3, <2>4 DEF Enforce
<1>3. CASE EnforceCoroutine(c)
  <2>1. /\ call[c].at = "enforce" /\ config' = config /\ recorded' = recorded
        /\ c \in Lax
    BY <1>3 DEF EnforceCoroutine, Coroutine, Lax
  <2> QED  BY <1>3, <2>1, EndsSimulates, OverLimitSimulates, RunsSimulates
           DEF EnforceCoroutine
<1>4. CASE Allow(c)
  <2>1. call[c].at = "allow" /\ config' = config /\ recorded' = recorded
    BY <1>4 DEF Allow
  <2> QED  BY <1>4, <2>1, OverLimitSimulates, RunsSimulates DEF Allow
<1>5. CASE Degrade(c)
  <2>1. call[c].at = "degrade" /\ config' = config /\ recorded' = recorded
    BY <1>5 DEF Degrade
  <2>2. CASE Runs(c, Rewritten(c))
    BY <2>1, <2>2, RunsSimulates
  <2>3. CASE call' = [call EXCEPT ![c].at = "evaluate", ![c].form = Rewritten(c),
                                  ![c].known = Recorded]
    <3>1. PICK f, k :
              call' = [call EXCEPT ![c].at = "evaluate", ![c].form = f, ![c].known = k]
      BY <2>3
    <3>2. call'[c].at = "evaluate" /\ Local(c)
      BY <1>1, <2>1, <3>1 DEF Local, TypeOK, CallState
    <3> QED  BY <2>1, <3>2, EnforcingSimulates
  <2> QED  BY <1>5, <2>2, <2>3 DEF Degrade
<1> QED  BY <1>2, <1>3, <1>4, <1>5

\* The tool's return and the finally clause close and end the call.
LEMMA ClosingSimulates ==
    ASSUME IInv, NEW c \in Calls,
           \/ Return(c) \/ Raise(c) \/ Backfill(c) \/ Result(c)
           \/ ReturnUnguarded(c) \/ BackfillRaises(c) \/ AttemptRaises(c)
    PROVE  [Lifecycle!Next]_Lifecycle!vars
<1>1. TypeOK /\ call[c] \in CallState /\ CallInv(c)
  BY DEF IInv, TypeOK
<1>2. CASE Return(c)
  <2>1. /\ call[c].at = "run" /\ call'[c].at = "backfill"
        /\ recorded'[c] = recorded[c] /\ Local(c)
    BY <1>1, <1>2 DEF Return, Local, TypeOK, CallState
  <2>2. Simulated(c)
    BY <2>1, PhaseOfPlace DEF Simulated, Phased
  <2> QED  BY <1>1, <2>1, <2>2, Simulation
<1>3. CASE Raise(c)
  <2>1. call[c].at = "run" /\ config' = config /\ recorded' = recorded
    BY <1>3 DEF Raise
  <2>2. CASE Coroutine(c) /\ Ends(c)
    <3>1. c \in Lax
      BY <2>2 DEF Coroutine, Lax
    <3> QED  BY <2>1, <2>2, <3>1, EndsSimulates
  <2>3. CASE Goes(c, "backfill")
    <3>1. call'[c].at = "backfill" /\ Local(c)
      BY <1>1, <2>1, <2>3 DEF Goes, Local, TypeOK, CallState
    <3>2. Simulated(c)
      BY <2>1, <3>1, PhaseOfPlace DEF Simulated, Phased
    <3> QED  BY <1>1, <3>1, <3>2, Simulation
  <2> QED  BY <1>3, <2>2, <2>3 DEF Raise
<1>4. CASE Backfill(c)
  <2>1. /\ call[c].at = "backfill" /\ call'[c].at = "result"
        /\ recorded'[c] = recorded[c] /\ Local(c)
    BY <1>1, <1>4 DEF Backfill, Goes, Local, TypeOK, CallState
  <2>2. Simulated(c)
    BY <2>1, PhaseOfPlace DEF Simulated
  <2> QED  BY <1>1, <2>1, <2>2, Simulation
<1>5. CASE Result(c)
  <2>1. call[c].at = "result" /\ config' = config /\ Ends(c)
    BY <1>5 DEF Result
  <2>2. recorded' = [recorded EXCEPT ![c] = Append(recorded[c], "result")]
    BY <1>5 DEF Result
  <2>3. /\ recorded'[c] = Append(recorded[c], "result")
        /\ call'[c].at = "done" /\ Local(c)
    BY <1>1, <2>1, <2>2 DEF Ends, Fresh, Local, TypeOK
  <2>4. Simulated(c)
    BY <2>1, <2>3, PhaseOfPlace DEF Simulated, Phased
  <2> QED  BY <1>1, <2>3, <2>4, Simulation
<1>6. CASE ReturnUnguarded(c)
  <2>1. /\ call[c].at = "unguarded" /\ config' = config /\ recorded' = recorded
        /\ Ends(c)
    BY <1>6 DEF ReturnUnguarded
  <2>2. c \in Lax
    BY <1>1, <2>1 DEF CallInv, RanInv, Coroutine, Lax
  <2> QED  BY <2>1, <2>2, EndsSimulates
<1>7. CASE BackfillRaises(c)
  <2>1. /\ call[c].at = "backfill" /\ config' = config /\ recorded' = recorded
        /\ Ends(c) /\ c \in Lax
    BY <1>7 DEF BackfillRaises, Lax
  <2> QED  BY <2>1, EndsSimulates
<1>8. CASE AttemptRaises(c)
  <2>1. /\ call[c].at \in {"evaluate", "append"} /\ config' = config
        /\ recorded' = recorded /\ c \in Lax
    BY <1>8 DEF AttemptRaises, Lax
  <2>2. CASE Goes(c, "backfill")
    <3>1. call'[c].at = "backfill" /\ Local(c)
      BY <1>1, <2>1, <2>2 DEF Goes, Local, TypeOK, CallState
    <3>2. Simulated(c)
      BY <2>1, <3>1, PhaseOfPlace DEF Simulated, Phased
    <3> QED  BY <1>1, <3>1, <3>2, Simulation
  <2>3. CASE Ends(c)
    BY <2>1, <2>3, EndsSimulates
  <2>4. CASE /\ Coroutine(c)
             /\ call' = [call EXCEPT ![c].at = "unguarded",
                                     ![c].answer = "unavailable",
                                     ![c].ran = call[c].asked]
    <3>1. call'[c].at = "unguarded" /\ Local(c)
      BY <1>1, <2>1, <2>4 DEF Local, TypeOK, CallState
    <3>2. c \in Bypass
      BY <1>8, <2>4 DEF AttemptRaises, Coroutine, Bypass
    <3>3. Simulated(c)
      BY <2>1, <3>1, <3>2, PhaseOfPlace DEF Simulated, Phased
    <3> QED  BY <1>1, <3>1, <3>3, Simulation
  <2> QED  BY <1>8, <2>2, <2>3, <2>4 DEF AttemptRaises
<1> QED  BY <1>2, <1>3, <1>4, <1>5, <1>6, <1>7, <1>8

\* Spec implements CallLifecycle: whichever runtime enforces it, a call is judged
\* and recorded before its tool is called, at most once, and only its result
\* follows (Pipeline.guarded_call, async_wrapper).
THEOREM ImplementsLifecycle == Spec => CallsFollowLifecycle
<1>1. Init => Lifecycle!Init
  <2> SUFFICES ASSUME Init
               PROVE  Lifecycle!Init
    OBVIOUS
  <2>1. config.coroutines \in SUBSET Calls
    BY CallAssumption DEF Init, CallAssumption, ConfigSpace
  <2>2. Phase = [c \in Calls |-> "new"]
    BY DEF Init, Phase, Fresh
  <2> QED  BY <2>1, <2>2 DEF Init, Lifecycle!Init
<1>2. IInv /\ [Next]_vars => [Lifecycle!Next]_Lifecycle!vars
  <2> SUFFICES ASSUME IInv, [Next]_vars
               PROVE  [Lifecycle!Next]_Lifecycle!vars
    OBVIOUS
  <2>1. ASSUME NEW c \in Calls, Progress(c)
        PROVE  [Lifecycle!Next]_Lifecycle!vars
    BY <2>1, CallAssumption, AttemptSimulates, ReviewSimulates, EnforceSimulates,
       ClosingSimulates
       DEF Progress
  <2>2. ASSUME NEW c \in Calls, Outside(c)
        PROVE  [Lifecycle!Next]_Lifecycle!vars
    BY <2>2, AttemptSimulates, ClosingSimulates DEF Outside
  <2>3. CASE UNCHANGED vars
    BY <2>3 DEF vars, Lifecycle!vars, Phase
  <2> QED  BY <2>1, <2>2, <2>3 DEF Next
<1> QED  BY <1>1, <1>2, Invariance, PTL DEF Spec, CallsFollowLifecycle, Lifecycle!Spec

-----------------------------------------------------------------------------
(* What relates the calls of a session: the trace, results and records.    *)

Entries(b) == {i \in DOMAIN trace : trace[i].call = b}
Attempts(b) == {i \in DOMAIN recorded[b] : recorded[b][i] = "attempt"}

\* The entries of a call for the tool that the agent asked for.
Own(c) == {i \in DOMAIN trace :
               trace[i].call = c /\ trace[i].tool = ToolOf[call[c].asked]}

\* The attempt the agent asked for is in the trace, and the call is not over.
Entered(c) ==
    \/ call[c].at \in {"record", "enforce", "llm", "human", "allow", "degrade",
                       "run", "backfill", "result"}
    \/ call[c].at \in {"evaluate", "append"} /\ Revalidating(c)

\* Who ended before a call began has ended.
AfterInv == \A a \in Calls : \A b \in call[a].after : call[b].at = "done"

\* His entries are all before those of the call.
OrderInv ==
    \A i, j \in DOMAIN trace : trace[i].call \in call[trace[j].call].after => i < j

\* Nobody is in the trace before he has begun, and no result of his.
BegunInv ==
    \A i \in DOMAIN trace :
        /\ Begun(trace[i].call)
        /\ trace[i].result # NoCall => Begun(trace[i].result)

\* The first attempt is of what the agent asked for, and stays in the trace; the
\* value of a call is its own.
OwnInv(c) ==
    /\ Entered(c) => Own(c) # {}
    /\ call[c].at \in {"idle", "evaluate", "append"} /\ ~Revalidating(c) =>
           call[c].form = call[c].asked
    /\ call[c].value \in {NoCall, c}

\* Who has begun overlapped with c in no way, and is guarded by guarded_call.
Alone(c) ==
    \A b \in Calls \ {c} : Begun(b) => ~Overlapped(b, c) /\ ~Coroutine(b)

\* From the back-fill on, a call that was alone finds its result.
ArrivedInv(c) ==
    /\ call[c].at \in {"result", "done"} /\ call[c].value = c
    /\ ~Coroutine(c) /\ ~config.flaky /\ Alone(c)
    => \E i \in Own(c) : (\A j \in Own(c) : j <= i) /\ trace[i].result = c

SessionInv ==
    /\ AfterInv
    /\ OrderInv
    /\ BegunInv
    /\ ResultsExplained
    /\ \A c \in Calls : OwnInv(c)
    /\ \A c \in Calls : ArrivedInv(c)

\* Attempts are put in the trace before they are recorded, and who enters
\* handle_attempt knows no more of them than its evaluation will read.
CountInv ==
    /\ \A b \in Calls :
           Cardinality(Attempts(b)) + (IF call[b].at = "record" THEN 1 ELSE 0)
               <= Cardinality(Entries(b))
    /\ \A c, b \in Calls :
           /\ call[c].at = "evaluate" => call[c].known[b] <= Cardinality(Entries(b))
           /\ call[c].at = "append" =>
                  /\ call[c].saw <= Len(trace)
                  /\ call[c].known[b] <=
                         Cardinality({i \in 1 .. call[c].saw : trace[i].call = b})


\* What a step does that is away from what the calls share.
Quiet(c) ==
    /\ config' = config /\ trace' = trace
    /\ \A b \in Calls \ {c} : call'[b] = call[b]
    /\ call'[c].asked = call[c].asked /\ call'[c].after = call[c].after
    /\ call'[c].value \in {call[c].value, c}
    /\ call[c].at \notin {"idle", "done"} /\ call'[c].at # "idle"
    /\ Entered(c)' => Entered(c)
    /\ call'[c].at \in {"evaluate", "append"} => Revalidating(c)' \/ call'[c].form = call[c].form
    /\ call'[c].at \in {"evaluate", "append"} /\ ~Revalidating(c)' =>
           call[c].at \in {"evaluate", "append"} /\ ~Revalidating(c)
    /\ call'[c].at \in {"result", "done"} =>
           \/ Coroutine(c) \/ config.flaky
           \/ call[c].at = "result" /\ call'[c].value = call[c].value

\* Such a step leaves what is known of the session.
LEMMA QuietKeeps ==
    ASSUME TypeOK, SessionInv, NEW c \in Calls, Quiet(c)
    PROVE  SessionInv'
<1>1. /\ \A b \in Calls : call'[b].asked = call[b].asked /\ call'[b].after = call[b].after
      /\ \A b \in Calls : Begun(b)' <=> Begun(b)
      /\ \A b \in Calls : call[b].at = "done" => call'[b].at = "done"
      /\ \A b \in Calls : Coroutine(b)' = Coroutine(b)
      /\ config' = config /\ trace' = trace
  BY DEF Quiet, Begun, Coroutine
<1>2. /\ \A b \in Calls : call[b].after \subseteq Calls
      /\ \A i \in DOMAIN trace : trace[i].call \in Calls /\ trace[i].result \in Calls \cup {NoCall}
  <2>1. \A b \in Calls : call[b] \in CallState
    BY DEF TypeOK
  <2>2. \A i \in DOMAIN trace : trace[i] \in Entry
    BY DEF TypeOK
  <2> QED  BY <2>1, <2>2 DEF CallState, Entry
<1>3. AfterInv'
  BY <1>1, <1>2 DEF SessionInv, AfterInv
<1>4. OrderInv'
  BY <1>1, <1>2 DEF SessionInv, OrderInv
<1>5. BegunInv'
  BY <1>1, <1>2 DEF SessionInv, BegunInv
<1>6. \A a, b \in Calls : Overlapped(a, b)' <=> Overlapped(a, b)
  BY <1>1 DEF Overlapped
<1>7. ResultsExplained'
  BY <1>1, <1>2, <1>6 DEF SessionInv, ResultsExplained
<1>8. \A b \in Calls : Own(b)' = Own(b)
  BY <1>1 DEF Own
<1>9. ASSUME NEW b \in Calls
      PROVE  OwnInv(b)'
  <2>1. OwnInv(b)
    BY DEF SessionInv
  <2>2. CASE b # c
    <3>1. call'[b] = call[b]
      BY <2>2 DEF Quiet
    <3>2. (Entered(b)' <=> Entered(b)) /\ (Revalidating(b)' <=> Revalidating(b))
      BY <3>1 DEF Entered, Revalidating
    <3> QED  BY <1>8, <2>1, <3>1, <3>2 DEF OwnInv
  <2>3. CASE b = c
    <3>1. Entered(c)' => Own(c)' # {}
      BY <1>8, <2>1, <2>3 DEF Quiet, OwnInv
    <3>2. call'[c].value \in {NoCall, c}
      BY <2>1, <2>3 DEF Quiet, OwnInv
    <3>3. call'[c].at \in {"idle", "evaluate", "append"} /\ ~Revalidating(c)' =>
              call'[c].form = call'[c].asked
      BY <2>1, <2>3 DEF Quiet, OwnInv
    <3> QED  BY <2>3, <3>1, <3>2, <3>3 DEF OwnInv
  <2> QED  BY <2>2, <2>3
<1>10. ASSUME NEW b \in Calls
       PROVE  ArrivedInv(b)'
  <2>1. ArrivedInv(b)
    BY DEF SessionInv
  <2>2. Alone(b)' <=> Alone(b)
    BY <1>1, <1>6 DEF Alone
  <2>3. call'[b].at \in {"result", "done"} /\ ~Coroutine(b) /\ ~config.flaky =>
            call[b].at \in {"result", "done"} /\ call'[b].value = call[b].value
    <3>1. CASE b # c
      BY <3>1 DEF Quiet
    <3>2. CASE b = c
      BY <3>2 DEF Quiet
    <3> QED  BY <3>1, <3>2
  <2>4. CASE /\ call'[b].at \in {"result", "done"} /\ call'[b].value = b
             /\ ~Coroutine(b) /\ ~config.flaky /\ Alone(b)
    <3>1. \E i \in Own(b) : (\A j \in Own(b) : j <= i) /\ trace[i].result = b
      BY <2>1, <2>3, <2>4 DEF ArrivedInv
    <3> QED  BY <1>1, <1>8, <3>1 DEF ArrivedInv
  <2>5. CASE ~ (/\ call'[b].at \in {"result", "done"} /\ call'[b].value = b
                /\ ~Coroutine(b) /\ ~config.flaky /\ Alone(b))
    BY <1>1, <2>2, <2>5 DEF ArrivedInv
  <2> QED  BY <2>4, <2>5
<1> QED  BY <1>3, <1>4, <1>5, <1>7, <1>9, <1>10 DEF SessionInv

\* handle_attempt is entered: whoever is in the trace has begun before.
LEMMA BeginSession ==
    ASSUME IInv, SessionInv, NEW c \in Calls, Begin(c)
    PROVE  SessionInv'
<1>1. TypeOK /\ CallInv(c) /\ call[c].at = "idle" /\ call[c].judged = <<>>
  BY DEF IInv, CallInv, JudgedInv, Begin
<1>2. PICK k, ended : /\ call' = [call EXCEPT ![c].at = "evaluate", ![c].known = k,
                                              ![c].after = ended]
                      /\ ended = {b \in Calls : call[b].at = "done"}
  BY DEF Begin
<1>3. /\ config' = config /\ trace' = trace
      /\ \A b \in Calls \ {c} : call'[b] = call[b]
      /\ call'[c] = [call[c] EXCEPT !.at = "evaluate", !.known = k, !.after = ended]
  BY <1>1, <1>2 DEF Begin, TypeOK
<1>4. /\ call'[c].at = "evaluate" /\ call'[c].after = ended
      /\ call'[c].asked = call[c].asked /\ call'[c].form = call[c].form
      /\ call'[c].judged = call[c].judged /\ call'[c].value = call[c].value
  BY <1>1, <1>3 DEF CallInv, CallState
<1>5. /\ \A b \in Calls : call[b].after \subseteq Calls
      /\ \A i \in DOMAIN trace : trace[i].call \in Calls /\ trace[i].result \in Calls \cup {NoCall}
  <2>1. \A b \in Calls : call[b] \in CallState
    BY <1>1 DEF TypeOK
  <2>2. \A i \in DOMAIN trace : trace[i] \in Entry
    BY <1>1 DEF TypeOK
  <2> QED  BY <2>1, <2>2 DEF CallState, Entry
<1>6. \A i \in DOMAIN trace : trace[i].call # c /\ trace[i].result \in {NoCall} \cup (Calls \ {c})
  BY <1>1, <1>5 DEF SessionInv, BegunInv, Begun
<1>7. AfterInv'
  <2> SUFFICES ASSUME NEW a \in Calls, NEW b \in call'[a].after
               PROVE  call'[b].at = "done"
    BY DEF AfterInv
  <2>1. call[b].at = "done" /\ b \in Calls
    BY <1>2, <1>3, <1>4, <1>5 DEF SessionInv, AfterInv
  <2> QED  BY <1>1, <1>3, <2>1
<1>8. OrderInv'
  BY <1>3, <1>5, <1>6 DEF SessionInv, OrderInv
<1>9. BegunInv'
  BY <1>3, <1>5, <1>6 DEF SessionInv, BegunInv, Begun
<1>10. ResultsExplained'
  <2>1. \A a, b \in Calls \ {c} : Overlapped(a, b)' <=> Overlapped(a, b)
    BY <1>3 DEF Overlapped
  <2>2. \A b \in Calls : Coroutine(b)' <=> Coroutine(b)
    BY <1>3 DEF Coroutine
  <2> QED  BY <1>3, <1>5, <1>6, <2>1, <2>2 DEF SessionInv, ResultsExplained
<1>11. ASSUME NEW b \in Calls
       PROVE  OwnInv(b)'
  <2>1. OwnInv(b)
    BY DEF SessionInv
  <2>2. CASE b # c
    <3>1. call'[b] = call[b] /\ trace' = trace
      BY <1>3, <2>2
    <3> QED  BY <2>1, <3>1 DEF OwnInv, Own, Entered, Revalidating
  <2>3. CASE b = c
    <3>1. ~Revalidating(c) /\ ~Revalidating(c)'
      BY <1>1, <1>4 DEF Revalidating
    <3>2. ~Entered(c)'
      BY <1>4, <3>1 DEF Entered
    <3>3. call[c].form = call[c].asked /\ call[c].value \in {NoCall, c}
      BY <1>1, <2>1, <2>3, <3>1 DEF OwnInv
    <3> QED  BY <1>4, <2>3, <3>2, <3>3 DEF OwnInv
  <2> QED  BY <2>2, <2>3
<1>12. ASSUME NEW b \in Calls
       PROVE  ArrivedInv(b)'
  <2>1. CASE b = c
    BY <1>4, <2>1 DEF ArrivedInv
  <2>2. CASE b # c
    <3>1. call'[b] = call[b] /\ trace' = trace /\ config' = config
      BY <1>3, <2>2
    <3>2. ASSUME Alone(b)' PROVE Alone(b)
      <4> SUFFICES ASSUME NEW d \in Calls \ {b}, Begun(d)
                   PROVE  ~Overlapped(d, b) /\ ~Coroutine(d)
        BY DEF Alone
      <4>1. d # c /\ call'[d] = call[d]
        BY <1>1, <1>3 DEF Begun
      <4>2. Begun(d)'
        BY <4>1 DEF Begun
      <4>3. ~Overlapped(d, b)' /\ ~Coroutine(d)'
        BY <3>2, <4>2 DEF Alone
      <4> QED  BY <3>1, <4>1, <4>3 DEF Overlapped, Coroutine
    <3>3. Own(b)' = Own(b)
      BY <3>1 DEF Own
    <3>4. Coroutine(b)' <=> Coroutine(b)
      BY <3>1 DEF Coroutine
    <3>5. ArrivedInv(b)
      BY DEF SessionInv
    <3> QED  BY <3>1, <3>2, <3>3, <3>4, <3>5 DEF ArrivedInv
  <2> QED  BY <2>1, <2>2
<1> QED  BY <1>7, <1>8, <1>9, <1>10, <1>11, <1>12 DEF SessionInv

\* append_trace puts a call behind all who ended before it began.
LEMMA AppendSession ==
    ASSUME IInv, SessionInv, NEW c \in Calls, AppendTrace(c)
    PROVE  SessionInv'
<1>1. /\ TypeOK /\ call[c] \in CallState /\ call[c].at = "append"
      /\ trace \in Seq(Entry) /\ Len(trace) \in Nat /\ DOMAIN trace = 1 .. Len(trace)
  BY DEF IInv, TypeOK, AppendTrace
<1>2. PICK e : /\ e = [call |-> c, tool |-> ToolOf[call[c].form], result |-> NoCall]
               /\ trace' = Append(trace, e)
  BY DEF AppendTrace
<1>3. e \in Entry /\ e.call = c /\ e.tool = ToolOf[call[c].form] /\ e.result = NoCall
  BY <1>1, <1>2 DEF Entry, CallState
<1>4. PICK n \in Nat : n = Len(trace) + 1
  BY <1>1
<1>5. /\ DOMAIN trace' = 1 .. n /\ trace'[n] = e
      /\ \A i \in DOMAIN trace : i \in DOMAIN trace' /\ trace'[i] = trace[i]
      /\ \A i \in DOMAIN trace' : i = n \/ i \in DOMAIN trace
      /\ n \notin DOMAIN trace
      /\ \A i \in DOMAIN trace : i < n
      /\ n \in DOMAIN trace'
  BY <1>1, <1>2, <1>3, <1>4
<1>6. /\ config' = config
      /\ \A b \in Calls \ {c} : call'[b] = call[b]
      /\ call'[c] = [call[c] EXCEPT !.at = "record"]
  BY <1>1 DEF AppendTrace, Goes, TypeOK
<1>7. /\ call'[c].at = "record" /\ call'[c].after = call[c].after
      /\ call'[c].asked = call[c].asked /\ call'[c].value = call[c].value
  BY <1>1, <1>6 DEF CallState
<1>8. /\ \A b \in Calls : call[b].after \subseteq Calls
      /\ \A i \in DOMAIN trace : trace[i].call \in Calls /\ trace[i].result \in Calls \cup {NoCall}
  <2>1. \A b \in Calls : call[b] \in CallState
    BY <1>1 DEF TypeOK
  <2>2. \A i \in DOMAIN trace : trace[i] \in Entry
    BY <1>1
  <2> QED  BY <2>1, <2>2 DEF CallState, Entry
<1>9. /\ \A b \in Calls : call'[b].asked = call[b].asked /\ call'[b].after = call[b].after
      /\ \A b \in Calls : Begun(b)' <=> Begun(b)
      /\ \A b \in Calls : Coroutine(b)' <=> Coroutine(b)
      /\ \A a, b \in Calls : Overlapped(a, b)' <=> Overlapped(a, b)
      /\ Begun(c)
  BY <1>1, <1>6, <1>7 DEF Begun, Coroutine, Overlapped
<1>10. \A a \in Calls : c \notin call[a].after
  BY <1>1 DEF SessionInv, AfterInv
<1>11. AfterInv'
  <2> SUFFICES ASSUME NEW a \in Calls, NEW b \in call'[a].after
               PROVE  call'[b].at = "done"
    BY DEF AfterInv
  <2>1. call[b].at = "done" /\ b \in Calls
    BY <1>8, <1>9 DEF SessionInv, AfterInv
  <2> QED  BY <1>1, <1>6, <2>1
<1>12. OrderInv'
  <2> SUFFICES ASSUME NEW i \in DOMAIN trace', NEW j \in DOMAIN trace',
                      trace'[i].call \in call'[trace'[j].call].after
               PROVE  i < j
    BY DEF OrderInv
  <2>1. trace'[j].call \in Calls
    BY <1>3, <1>5, <1>8
  <2>2. i # n
    BY <1>3, <1>5, <1>9, <1>10, <2>1
  <2>3. i \in DOMAIN trace /\ trace'[i] = trace[i]
    BY <1>5, <2>2
  <2>4. CASE j = n
    BY <1>5, <2>3, <2>4
  <2>5. CASE j # n
    <3>1. j \in DOMAIN trace /\ trace'[j] = trace[j]
      BY <1>5, <2>5
    <3>2. trace[i].call \in call[trace[j].call].after
      BY <1>9, <2>1, <2>3, <3>1
    <3> QED  BY <2>3, <3>1, <3>2 DEF SessionInv, OrderInv
  <2> QED  BY <2>4, <2>5
<1>13. BegunInv'
  BY <1>3, <1>5, <1>8, <1>9 DEF SessionInv, BegunInv
<1>14. ResultsExplained'
  BY <1>3, <1>5, <1>8, <1>9 DEF SessionInv, ResultsExplained
<1>15. \A b \in Calls \ {c} : Own(b)' = Own(b)
  BY <1>3, <1>5, <1>9 DEF Own
<1>16. ASSUME NEW b \in Calls
       PROVE  OwnInv(b)'
  <2>1. OwnInv(b)
    BY DEF SessionInv
  <2>2. CASE b # c
    <3>1. call'[b] = call[b] /\ Own(b)' = Own(b)
      BY <1>6, <1>15, <2>2
    <3> QED  BY <2>1, <3>1 DEF OwnInv, Entered, Revalidating
  <2>3. CASE b = c
    <3>1. Own(c)' # {}
      <4>1. CASE Revalidating(c)
        <5>1. PICK i \in DOMAIN trace : trace[i].call = c /\ trace[i].tool = ToolOf[call[c].asked]
          BY <1>1, <2>1, <2>3, <4>1 DEF OwnInv, Entered, Own
        <5> QED  BY <1>5, <1>7, <5>1 DEF Own
      <4>2. CASE ~Revalidating(c)
        <5>1. call[c].form = call[c].asked
          BY <1>1, <2>1, <2>3, <4>2 DEF OwnInv
        <5> QED  BY <1>3, <1>5, <1>7, <5>1 DEF Own
      <4> QED  BY <4>1, <4>2
    <3>2. call'[c].value \in {NoCall, c}
      BY <1>7, <2>1, <2>3 DEF OwnInv
    <3> QED  BY <1>7, <2>3, <3>1, <3>2 DEF OwnInv
  <2> QED  BY <2>2, <2>3
<1>17. ASSUME NEW b \in Calls
       PROVE  ArrivedInv(b)'
  <2>1. CASE b = c
    BY <1>7, <2>1 DEF ArrivedInv
  <2>2. CASE b # c
    <3>1. call'[b] = call[b] /\ Own(b)' = Own(b) /\ config' = config
      BY <1>6, <1>15, <2>2
    <3>2. Alone(b)' <=> Alone(b)
      BY <1>9 DEF Alone
    <3>3. (Coroutine(b)' <=> Coroutine(b)) /\ ArrivedInv(b)
      BY <1>9 DEF SessionInv
    <3>4. \A i \in Own(b) : trace'[i] = trace[i]
      BY <1>5 DEF Own
    <3> QED  BY <3>1, <3>2, <3>3, <3>4 DEF ArrivedInv
  <2> QED  BY <2>1, <2>2
<1> QED  BY <1>11, <1>12, <1>13, <1>14, <1>16, <1>17 DEF SessionInv


\* A set of places of the trace has a last one.
LEMMA LastPlace ==
    ASSUME NEW n \in Nat, NEW S \in SUBSET (1 .. n), S # {}
    PROVE  \E i \in S : \A j \in S : j <= i
<1>1. PICK T : T = {n - i : i \in S}
  OBVIOUS
<1>2. T \in SUBSET Nat /\ T # {}
  <2>1. \A i \in S : i \in Nat /\ i <= n
    OBVIOUS
  <2>2. \A i \in S : n - i \in Nat
    BY <2>1
  <2> QED  BY <1>1, <2>2
<1>3. PICK m \in T : \A k \in T : ~(<<k, m>> \in OpToRel(<, Nat))
  BY <1>2, NatLessThanWellFounded, WFMin
<1>4. \A k \in T : ~(k < m)
  BY <1>2, <1>3 DEF OpToRel
<1>5. PICK i \in S : m = n - i
  BY <1>1
<1>6. ASSUME NEW j \in S
      PROVE  j <= i
  <2>1. n - j \in T
    BY <1>1
  <2>2. ~(n - j < n - i)
    BY <1>4, <1>5, <2>1
  <2> QED  BY <2>2
<1> QED  BY <1>6

\* update_trace_result finds the entry of the call itself, unless another that
\* overlapped with it used the same tool since, or the tool is not the one asked.
LEMMA BackfillSession ==
    ASSUME NothingAssumption, IInv, SessionInv, NEW c \in Calls, Backfill(c)
    PROVE  SessionInv'
<1>1. /\ TypeOK /\ call[c] \in CallState /\ call[c].at = "backfill"
      /\ trace \in Seq(Entry) /\ Len(trace) \in Nat /\ DOMAIN trace = 1 .. Len(trace)
  BY DEF IInv, TypeOK, Backfill
<1>2. PICK S : S = Newest(ResultTool(c))
  OBVIOUS
<1>3. PICK v : v = call[c].value
  OBVIOUS
<1>4. trace' = [i \in DOMAIN trace |-> IF i \in S THEN [trace[i] EXCEPT !.result = v]
                                       ELSE trace[i]]
  BY <1>2, <1>3 DEF Backfill
<1>5. /\ DOMAIN trace' = DOMAIN trace
      /\ \A i \in DOMAIN trace : /\ trace'[i].call = trace[i].call
                                 /\ trace'[i].tool = trace[i].tool
                                 /\ i \in S => trace'[i].result = v
                                 /\ i \notin S => trace'[i].result = trace[i].result
  <2>1. \A i \in DOMAIN trace : trace[i] \in Entry
    BY <1>1
  <2> QED  BY <1>4, <2>1 DEF Entry
<1>6. /\ config' = config
      /\ \A b \in Calls \ {c} : call'[b] = call[b]
      /\ call'[c] = [call[c] EXCEPT !.at = "result"]
  BY <1>1 DEF Backfill, Goes, TypeOK
<1>7. /\ call'[c].at = "result" /\ call'[c].after = call[c].after
      /\ call'[c].asked = call[c].asked /\ call'[c].value = call[c].value
  BY <1>1, <1>6 DEF CallState
<1>8. /\ \A b \in Calls : call[b].after \subseteq Calls
      /\ \A i \in DOMAIN trace : trace[i].call \in Calls /\ trace[i].result \in Calls \cup {NoCall}
  <2>1. \A b \in Calls : call[b] \in CallState
    BY <1>1 DEF TypeOK
  <2>2. \A i \in DOMAIN trace : trace[i] \in Entry
    BY <1>1
  <2> QED  BY <2>1, <2>2 DEF CallState, Entry
<1>9. /\ \A b \in Calls : call'[b].asked = call[b].asked /\ call'[b].after = call[b].after
      /\ \A b \in Calls : Begun(b)' <=> Begun(b)
      /\ \A b \in Calls : Coroutine(b)' <=> Coroutine(b)
      /\ \A a, b \in Calls : Overlapped(a, b)' <=> Overlapped(a, b)
      /\ Begun(c)
  BY <1>1, <1>6, <1>7 DEF Begun, Coroutine, Overlapped
<1>10. \A a \in Calls : c \notin call[a].after
  BY <1>1 DEF SessionInv, AfterInv
<1>11. v \in {NoCall, c} /\ NoCall # c
  BY <1>3 DEF SessionInv, OwnInv, NothingAssumption
<1>12. PICK k \in DOMAIN trace : trace[k].call = c /\ trace[k].tool = ToolOf[call[c].asked]
  BY <1>1 DEF SessionInv, OwnInv, Entered, Own
\* Who ended before is not found, since c comes after him.
<1>13. ASSUME ~Coroutine(c), NEW i \in S
       PROVE  /\ i \in DOMAIN trace /\ k <= i
              /\ trace[i].call \notin call[c].after
              /\ Overlapped(trace[i].call, c)
  <2>1. ResultTool(c) = ToolOf[call[c].asked]
    BY <1>13 DEF ResultTool
  <2>2. i \in DOMAIN trace /\ k <= i
    BY <1>2, <1>12, <2>1 DEF Newest
  <2>3. trace[i].call \notin call[c].after
    <3>1. ASSUME trace[i].call \in call[c].after
          PROVE  FALSE
      <4>1. i < k
        BY <1>12, <2>2, <3>1 DEF SessionInv, OrderInv
      <4> QED  BY <1>1, <2>2, <4>1
    <3> QED  BY <3>1
  <2> QED  BY <1>8, <1>10, <2>2, <2>3 DEF Overlapped
<1>14. AfterInv'
  <2> SUFFICES ASSUME NEW a \in Calls, NEW b \in call'[a].after
               PROVE  call'[b].at = "done"
    BY DEF AfterInv
  <2>1. call[b].at = "done" /\ b \in Calls
    BY <1>8, <1>9 DEF SessionInv, AfterInv
  <2> QED  BY <1>1, <1>6, <2>1
<1>15. OrderInv'
  BY <1>5, <1>8, <1>9 DEF SessionInv, OrderInv
<1>16. BegunInv'
  <2>1. ASSUME NEW i \in DOMAIN trace
        PROVE  /\ call'[trace'[i].call].at # "idle"
               /\ trace'[i].result # NoCall => call'[trace'[i].result].at # "idle"
    <3>1. \A b \in Calls : call[b].at # "idle" => call'[b].at # "idle"
      BY <1>9 DEF Begun
    <3>2. call[trace[i].call].at # "idle" /\ trace'[i].call = trace[i].call
      BY <1>5 DEF SessionInv, BegunInv, Begun
    <3>3. CASE i \in S
      BY <1>1, <1>5, <1>7, <1>8, <1>11, <3>1, <3>2, <3>3
    <3>4. CASE i \notin S
      <4>1. trace'[i].result = trace[i].result
        BY <1>5, <3>4
      <4>2. trace[i].result # NoCall => call[trace[i].result].at # "idle"
        BY DEF SessionInv, BegunInv, Begun
      <4> QED  BY <1>8, <3>1, <3>2, <4>1, <4>2
    <3> QED  BY <3>3, <3>4
  <2> QED  BY <1>5, <2>1 DEF BegunInv, Begun
<1>17. ResultsExplained'
  <2>1. ASSUME NEW i \in DOMAIN trace, NEW a, NEW r,
               a = trace[i].call, r = trace'[i].result, r \notin {NoCall, a}
        PROVE  \/ a \notin call'[r].after /\ r \notin call'[a].after
               \/ r \in config'.coroutines
    <3>1. a \in Calls
      BY <1>8, <2>1
    <3>2. CASE i \in S
      <4>1. r = c
        BY <1>5, <1>11, <2>1, <3>2
      <4>2. CASE Coroutine(c)
        BY <1>6, <4>1, <4>2 DEF Coroutine
      <4>3. CASE ~Coroutine(c)
        <5>1. Overlapped(a, c)
          BY <1>13, <2>1, <3>2, <4>3
        <5> QED  BY <1>9, <3>1, <4>1, <5>1 DEF Overlapped
      <4> QED  BY <4>2, <4>3
    <3>3. CASE i \notin S
      <4>1. r = trace[i].result
        BY <1>5, <2>1, <3>3
      <4>2. r \in Calls
        BY <1>8, <2>1, <4>1
      <4>3. \/ a \notin call[r].after /\ r \notin call[a].after
            \/ r \in config.coroutines
        BY <2>1, <4>1 DEF SessionInv, ResultsExplained, Overlapped, Coroutine
      <4> QED  BY <1>6, <1>9, <3>1, <4>2, <4>3
    <3> QED  BY <3>2, <3>3
  <2>2. \A i \in DOMAIN trace :
            trace'[i].result \notin {NoCall, trace[i].call} =>
                \/ /\ trace[i].call \notin call'[trace'[i].result].after
                   /\ trace'[i].result \notin call'[trace[i].call].after
                \/ trace'[i].result \in config'.coroutines
    BY <2>1
  <2>3. \A i \in DOMAIN trace' :
            trace'[i].result \notin {NoCall, trace'[i].call} =>
                \/ /\ trace'[i].call \notin call'[trace'[i].result].after
                   /\ trace'[i].result \notin call'[trace'[i].call].after
                \/ trace'[i].result \in config'.coroutines
    BY <1>5, <2>2
  <2> QED  BY <2>3 DEF ResultsExplained, Overlapped, Coroutine
<1>18. \A b \in Calls : Own(b)' = Own(b)
  BY <1>5, <1>9 DEF Own
<1>19. ASSUME NEW b \in Calls
       PROVE  OwnInv(b)'
  <2>1. OwnInv(b) /\ Own(b)' = Own(b)
    BY <1>18 DEF SessionInv
  <2>2. CASE b # c
    <3>1. call'[b] = call[b]
      BY <1>6, <2>2
    <3> QED  BY <2>1, <3>1 DEF OwnInv, Entered, Revalidating
  <2>3. CASE b = c
    <3>1. Own(c) # {} /\ call'[c].value \in {NoCall, c}
      BY <1>1, <1>7, <2>1, <2>3 DEF OwnInv, Entered
    <3> QED  BY <1>7, <2>1, <2>3, <3>1 DEF OwnInv
  <2> QED  BY <2>2, <2>3
<1>20. \A b \in Calls : Alone(b)' <=> Alone(b)
  BY <1>9 DEF Alone
<1>21. ASSUME NEW b \in Calls
       PROVE  ArrivedInv(b)'
  <2>1. SUFFICES ASSUME call'[b].at \in {"result", "done"}, call'[b].value = b,
                        ~Coroutine(b), ~config.flaky, Alone(b)
                 PROVE  \E i \in Own(b) : (\A j \in Own(b) : j <= i) /\ trace'[i].result = b
    BY <1>6, <1>9, <1>18, <1>20 DEF ArrivedInv
  <2>2. CASE b = c
    <3>1. ResultTool(c) = ToolOf[call[c].asked] /\ v = c
      BY <1>3, <1>7, <2>1, <2>2 DEF ResultTool
    <3>2. PICK P : P = {i \in DOMAIN trace : trace[i].tool = ToolOf[call[c].asked]}
      OBVIOUS
    <3>3. P \in SUBSET (1 .. Len(trace)) /\ k \in P
      BY <1>1, <1>12, <3>2
    <3>4. PICK m \in P : \A j \in P : j <= m
      BY <1>1, <3>3, LastPlace
    <3>5. m \in S /\ k <= m /\ m \in DOMAIN trace
      BY <1>2, <3>1, <3>2, <3>3, <3>4 DEF Newest
    <3>6. trace[m].call = c
      <4>1. Overlapped(trace[m].call, c) /\ trace[m].call \in Calls
        BY <1>8, <1>13, <2>1, <2>2, <3>5
      <4>2. Begun(trace[m].call)
        BY <3>5 DEF SessionInv, BegunInv
      <4> QED  BY <2>1, <2>2, <4>1, <4>2 DEF Alone
    <3>7. m \in Own(c) /\ \A j \in Own(c) : j <= m
      BY <3>2, <3>4, <3>5, <3>6 DEF Own
    <3> QED  BY <1>5, <2>2, <3>1, <3>5, <3>7
  <2>3. CASE b # c
    <3>1. call'[b] = call[b] /\ ArrivedInv(b)
      BY <1>6, <2>3 DEF SessionInv
    <3>2. PICK i \in Own(b) : (\A j \in Own(b) : j <= i) /\ trace[i].result = b
      BY <2>1, <3>1 DEF ArrivedInv
    <3>3. i \in DOMAIN trace /\ trace[i].call = b
      BY DEF Own
    <3>4. ~Overlapped(c, b) /\ ~Coroutine(c)
      BY <1>9, <2>1, <2>3 DEF Alone
    <3>5. b \in call[c].after
      BY <1>10, <3>4 DEF Overlapped
    <3>6. i \notin S
      BY <1>13, <3>3, <3>4, <3>5
    <3> QED  BY <1>5, <3>2, <3>3, <3>6
  <2> QED  BY <2>2, <2>3
<1> QED  BY <1>14, <1>15, <1>16, <1>17, <1>19, <1>21 DEF SessionInv


-----------------------------------------------------------------------------
(* The counts, and the steps away from the trace.                          *)

\* What a step does to the counts, unless it appends to the trace.
Counts(c) ==
    /\ DOMAIN trace' = DOMAIN trace /\ Len(trace') = Len(trace)
    /\ \A i \in DOMAIN trace : trace'[i].call = trace[i].call
    /\ \A b \in Calls \ {c} : call'[b] = call[b] /\ recorded'[b] = recorded[b]
    /\ call'[c].at # "record"
    /\ call'[c].at = "evaluate" => call'[c].known = Recorded
    /\ call'[c].at = "append" =>
           /\ call[c].at = "evaluate"
           /\ call'[c].saw = Len(trace) /\ call'[c].known = call[c].known
    /\ \/ recorded'[c] = recorded[c]
       \/ recorded'[c] = Append(recorded[c], "result")
       \/ recorded'[c] = Append(recorded[c], "attempt") /\ call[c].at = "record"

\* Entries and attempts are finitely many.
LEMMA Finitely ==
    ASSUME TypeOK, NEW b \in Calls
    PROVE  /\ IsFiniteSet(Entries(b)) /\ Cardinality(Entries(b)) \in Nat
           /\ IsFiniteSet(Attempts(b)) /\ Cardinality(Attempts(b)) \in Nat
           /\ Recorded[b] = Cardinality(Attempts(b))
<1>1. /\ Len(trace) \in Nat /\ DOMAIN trace = 1 .. Len(trace)
      /\ Len(recorded[b]) \in Nat /\ DOMAIN recorded[b] = 1 .. Len(recorded[b])
  BY DEF TypeOK
<1>2. IsFiniteSet(DOMAIN trace) /\ IsFiniteSet(DOMAIN recorded[b])
  BY <1>1, FS_Interval
<1>3. Entries(b) \subseteq DOMAIN trace /\ Attempts(b) \subseteq DOMAIN recorded[b]
  BY DEF Entries, Attempts
<1>4. IsFiniteSet(Entries(b)) /\ IsFiniteSet(Attempts(b))
  BY <1>2, <1>3, FS_Subset
<1> QED  BY <1>4, FS_CardinalityType DEF Recorded, Attempts

\* A step that appends nothing to the trace keeps the counts.
LEMMA CountsKeep ==
    ASSUME TypeOK, CountInv, NEW c \in Calls, Counts(c)
    PROVE  CountInv'
<1>1. \A b \in Calls : Entries(b)' = Entries(b)
  BY DEF Counts, Entries
<1>2. ASSUME NEW b \in Calls
      PROVE  /\ Cardinality(Attempts(b)) + (IF call[b].at = "record" THEN 1 ELSE 0)
                    <= Cardinality(Entries(b))
             /\ Cardinality(Attempts(b)) \in Nat /\ Cardinality(Entries(b)) \in Nat
             /\ Cardinality(Attempts(b)) <= Cardinality(Entries(b))
             /\ Recorded[b] = Cardinality(Attempts(b))
  BY Finitely DEF CountInv
<1>3. ASSUME NEW b \in Calls
      PROVE  Cardinality(Attempts(b)') + (IF call'[b].at = "record" THEN 1 ELSE 0)
                 <= Cardinality(Entries(b))
  <2>1. CASE b # c
    <3>1. call'[b] = call[b] /\ recorded'[b] = recorded[b]
      BY <2>1 DEF Counts
    <3>2. Attempts(b)' = Attempts(b)
      BY <3>1 DEF Attempts
    <3> QED  BY <1>2, <3>1, <3>2
  <2>2. CASE b = c
    <3>1. recorded[c] \in Seq(Records) /\ Len(recorded[c]) \in Nat
      BY DEF TypeOK
    <3>2. Cardinality(Attempts(c)') <= Cardinality(Entries(c))
      <4>1. CASE recorded'[c] = recorded[c]
        <5>1. Attempts(c)' = Attempts(c)
          BY <4>1 DEF Attempts
        <5> QED  BY <1>2, <5>1
      <4>2. CASE recorded'[c] = Append(recorded[c], "result")
        <5>1. Attempts(c)' = Attempts(c)
          BY <3>1, <4>2 DEF Attempts
        <5> QED  BY <1>2, <5>1
      <4>3. CASE recorded'[c] = Append(recorded[c], "attempt") /\ call[c].at = "record"
        <5>1. /\ Attempts(c)' = Attempts(c) \cup {Len(recorded[c]) + 1}
              /\ Len(recorded[c]) + 1 \notin Attempts(c)
          BY <3>1, <4>3 DEF Attempts
        <5>2. Cardinality(Attempts(c)') = Cardinality(Attempts(c)) + 1
          BY <5>1, Finitely, FS_AddElement
        <5> QED  BY <1>2, <4>3, <5>2
      <4> QED  BY <4>1, <4>2, <4>3 DEF Counts
    <3>3. call'[c].at # "record"
      BY DEF Counts
    <3>4. Cardinality(Attempts(c)') \in Nat
      <4>1. CASE Attempts(c)' = Attempts(c)
        BY <1>2, <4>1
      <4>2. CASE recorded'[c] = Append(recorded[c], "attempt")
        <5>1. /\ Attempts(c)' = Attempts(c) \cup {Len(recorded[c]) + 1}
              /\ Len(recorded[c]) + 1 \notin Attempts(c)
          BY <3>1, <4>2 DEF Attempts
        <5>2. Cardinality(Attempts(c)') = Cardinality(Attempts(c)) + 1
          BY <5>1, Finitely, FS_AddElement
        <5> QED  BY <1>2, <5>2
      <4>3. CASE recorded'[c] = Append(recorded[c], "result") \/ recorded'[c] = recorded[c]
        <5>1. Attempts(c)' = Attempts(c)
          BY <3>1, <4>3 DEF Attempts
        <5> QED  BY <1>2, <5>1
      <4> QED  BY <4>2, <4>3 DEF Counts
    <3> QED  BY <1>2, <2>2, <3>2, <3>3, <3>4
  <2> QED  BY <2>1, <2>2
<1>4. ASSUME NEW d \in Calls, NEW b \in Calls
      PROVE  /\ call'[d].at = "evaluate" => call'[d].known[b] <= Cardinality(Entries(b))
             /\ call'[d].at = "append" =>
                    /\ call'[d].saw <= Len(trace)
                    /\ call'[d].known[b] <=
                           Cardinality({i \in 1 .. call'[d].saw : trace'[i].call = b})
  <2>1. /\ Len(trace) \in Nat /\ DOMAIN trace = 1 .. Len(trace)
        /\ call[d].saw \in Nat
    BY DEF TypeOK, CallState
  <2>2. CASE d # c
    <3>1. call'[d] = call[d]
      BY <2>2 DEF Counts
    <3>2. ASSUME call[d].at = "append"
          PROVE  {i \in 1 .. call[d].saw : trace'[i].call = b} =
                     {i \in 1 .. call[d].saw : trace[i].call = b}
      <4>1. call[d].saw <= Len(trace)
        BY <3>2 DEF CountInv
      <4>2. \A i \in 1 .. call[d].saw : trace'[i].call = trace[i].call
        BY <2>1, <4>1 DEF Counts
      <4> QED  BY <4>2
    <3> QED  BY <3>1, <3>2 DEF CountInv
  <2>3. CASE d = c
    <3>1. call'[c].at = "evaluate" => call'[c].known[b] <= Cardinality(Entries(b))
      BY <1>2 DEF Counts
    <3>2. ASSUME call'[c].at = "append"
          PROVE  /\ call'[c].saw <= Len(trace)
                 /\ call'[c].known[b] <=
                        Cardinality({i \in 1 .. call'[c].saw : trace'[i].call = b})
      <4>1. /\ call[c].at = "evaluate" /\ call'[c].saw = Len(trace)
            /\ call'[c].known = call[c].known
        BY <3>2 DEF Counts
      <4>2. {i \in 1 .. Len(trace) : trace'[i].call = b} = Entries(b)
        BY <2>1 DEF Counts, Entries
      <4>3. {i \in 1 .. call'[c].saw : trace'[i].call = b} = Entries(b)
        BY <4>1, <4>2
      <4>4. call[c].known[b] <= Cardinality(Entries(b))
        BY <4>1 DEF CountInv
      <4>5. call'[c].saw <= Len(trace)
        BY <2>1, <4>1
      <4>6. call'[c].known[b] <=
                Cardinality({i \in 1 .. call'[c].saw : trace'[i].call = b})
        BY <4>1, <4>3, <4>4
      <4> QED  BY <4>5, <4>6
    <3> QED  BY <2>3, <3>1, <3>2
  <2> QED  BY <2>2, <2>3
<1>5. Len(trace') = Len(trace)
  BY DEF Counts
<1> QED  BY <1>1, <1>3, <1>4, <1>5 DEF CountInv

\* append_trace adds the entry that the record will count.
LEMMA AppendCounts ==
    ASSUME TypeOK, CountInv, NEW c \in Calls, AppendTrace(c)
    PROVE  CountInv'
<1>1. /\ call[c] \in CallState /\ call[c].at = "append" /\ recorded' = recorded
      /\ trace \in Seq(Entry) /\ Len(trace) \in Nat /\ DOMAIN trace = 1 .. Len(trace)
  BY DEF TypeOK, AppendTrace
<1>2. /\ \A b \in Calls \ {c} : call'[b] = call[b]
      /\ call'[c].at = "record"
  BY <1>1 DEF AppendTrace, Goes, TypeOK, CallState
<1>3. PICK e : e.call = c /\ trace' = Append(trace, e)
  BY DEF AppendTrace
<1>4. /\ Len(trace') = Len(trace) + 1 /\ DOMAIN trace' = 1 .. (Len(trace) + 1)
      /\ trace'[Len(trace) + 1].call = c
      /\ \A i \in 1 .. Len(trace) : trace'[i] = trace[i]
  BY <1>1, <1>3
<1>5. /\ Entries(c)' = Entries(c) \cup {Len(trace) + 1}
      /\ Len(trace) + 1 \notin Entries(c)
      /\ \A b \in Calls \ {c} : Entries(b)' = Entries(b)
  BY <1>1, <1>4 DEF Entries
<1>6. Cardinality(Entries(c)') = Cardinality(Entries(c)) + 1
  BY <1>5, Finitely, FS_AddElement
<1>7. ASSUME NEW b \in Calls
      PROVE  /\ Cardinality(Entries(b)) <= Cardinality(Entries(b)')
             /\ Cardinality(Entries(b)) \in Nat /\ Cardinality(Entries(b)') \in Nat
  <2>1. Cardinality(Entries(b)) \in Nat
    BY Finitely
  <2>2. CASE b = c
    BY <1>6, <2>1, <2>2
  <2>3. CASE b # c
    <3>1. Entries(b)' = Entries(b)
      BY <1>5, <2>3
    <3> QED  BY <2>1, <3>1
  <2> QED  BY <2>2, <2>3
<1>8. \A b \in Calls : Attempts(b)' = Attempts(b)
  BY <1>1 DEF Attempts
<1>9. ASSUME NEW b \in Calls
      PROVE  Cardinality(Attempts(b)') + (IF call'[b].at = "record" THEN 1 ELSE 0)
                 <= Cardinality(Entries(b)')
  <2>1. /\ Cardinality(Attempts(b)) + (IF call[b].at = "record" THEN 1 ELSE 0)
               <= Cardinality(Entries(b))
        /\ Cardinality(Attempts(b)) \in Nat
    BY Finitely DEF CountInv
  <2>2. CASE b # c
    BY <1>2, <1>5, <1>8, <2>1, <2>2
  <2>3. CASE b = c
    BY <1>1, <1>2, <1>6, <1>7, <1>8, <2>1, <2>3
  <2> QED  BY <2>2, <2>3
<1>10. ASSUME NEW d \in Calls, NEW b \in Calls
       PROVE  /\ call'[d].at = "evaluate" => call'[d].known[b] <= Cardinality(Entries(b)')
              /\ call'[d].at = "append" =>
                     /\ call'[d].saw <= Len(trace')
                     /\ call'[d].known[b] <=
                            Cardinality({i \in 1 .. call'[d].saw : trace'[i].call = b})
  <2>1. CASE d = c
    BY <1>2, <2>1
  <2>2. CASE d # c
    <3>1. call'[d] = call[d] /\ call[d].saw \in Nat /\ call[d].known[b] \in Nat
      BY <1>2, <2>2 DEF TypeOK, CallState
    <3>2. ASSUME call[d].at = "evaluate"
          PROVE  call[d].known[b] <= Cardinality(Entries(b)')
      <4>1. call[d].known[b] <= Cardinality(Entries(b))
        BY <3>2 DEF CountInv
      <4> QED  BY <1>7, <3>1, <4>1
    <3>3. ASSUME call[d].at = "append"
          PROVE  /\ call[d].saw <= Len(trace')
                 /\ {i \in 1 .. call[d].saw : trace'[i].call = b} =
                        {i \in 1 .. call[d].saw : trace[i].call = b}
      <4>1. call[d].saw <= Len(trace)
        BY <3>3 DEF CountInv
      <4>2. \A i \in 1 .. call[d].saw : trace'[i] = trace[i]
        BY <1>1, <1>4, <3>1, <4>1
      <4> QED  BY <1>1, <1>4, <3>1, <4>1, <4>2
    <3> QED  BY <3>1, <3>2, <3>3 DEF CountInv
  <2> QED  BY <2>1, <2>2
<1> QED  BY <1>9, <1>10 DEF CountInv

\* A call that is in the trace is led on, to its tool or to the finally clause.
LEMMA LeadsQuietly ==
    ASSUME TypeOK, NEW c \in Calls, Entered(c), config' = config, trace' = trace,
           \A b \in Calls \ {c} : call'[b] = call[b] /\ recorded'[b] = recorded[b],
           call'[c].asked = call[c].asked, call'[c].after = call[c].after,
           call'[c].value \in {call[c].value, c},
           call'[c].at \in {"enforce", "llm", "human", "allow", "degrade", "run", "backfill"},
           \/ recorded'[c] = recorded[c]
           \/ recorded'[c] = Append(recorded[c], "attempt") /\ call[c].at = "record"
    PROVE  Quiet(c) /\ Counts(c)
<1>1. call[c].at \notin {"idle", "done"}
  BY DEF Entered
<1> QED  BY <1>1 DEF Quiet, Counts

\* A call is over.
LEMMA EndsQuietly ==
    ASSUME TypeOK, NEW c \in Calls, Ends(c), config' = config, trace' = trace,
           call[c].at \notin {"idle", "done"},
           Coroutine(c) \/ config.flaky \/ call[c].at = "result",
           \/ recorded' = recorded
           \/ recorded' = [recorded EXCEPT ![c] = Append(@, "result")]
    PROVE  Quiet(c) /\ Counts(c)
<1>1. call[c] \in CallState
  BY DEF TypeOK
<1>2. /\ \A b \in Calls \ {c} : call'[b] = call[b] /\ recorded'[b] = recorded[b]
      /\ recorded'[c] \in {recorded[c], Append(recorded[c], "result")}
  BY DEF Ends, TypeOK
<1>3. call'[c] = [Fresh(call[c].asked, "done") EXCEPT !.value = call[c].value,
                                                      !.after = call[c].after]
  BY DEF Ends, TypeOK
<1>4. /\ call'[c].at = "done" /\ call'[c].asked = call[c].asked
      /\ call'[c].value = call[c].value /\ call'[c].after = call[c].after
  BY <1>3 DEF Fresh
<1>5. ~Entered(c)'
  BY <1>4 DEF Entered
<1> QED  BY <1>2, <1>4, <1>5 DEF Quiet, Counts

\* handle_attempt reads the whole trace, and hands the attempt over once.
LEMMA AttemptQuietly ==
    ASSUME IInv, NEW c \in Calls, Evaluate(c) \/ Record(c)
    PROVE  Quiet(c) /\ Counts(c)
<1>1. /\ TypeOK /\ call[c] \in CallState /\ config' = config /\ trace' = trace
      /\ call[c].judged \in Seq(Judgement)
  BY DEF IInv, TypeOK, Evaluate, Record, CallState
<1>2. CASE Evaluate(c)
  <2>1. PICK j : call' = [call EXCEPT ![c].at = "append", ![c].answer = "none",
                                      ![c].saw = Len(trace), ![c].judged = Append(@, j)]
    BY <1>2 DEF Evaluate
  <2>2. /\ call[c].at = "evaluate" /\ recorded' = recorded
        /\ \A b \in Calls \ {c} : call'[b] = call[b]
        /\ call'[c].at = "append" /\ call'[c].saw = Len(trace)
        /\ call'[c].judged = Append(call[c].judged, j)
        /\ call'[c].asked = call[c].asked /\ call'[c].after = call[c].after
        /\ call'[c].value = call[c].value /\ call'[c].form = call[c].form
        /\ call'[c].known = call[c].known
    BY <1>1, <1>2, <2>1 DEF Evaluate, TypeOK, CallState
  <2>3. /\ Len(call'[c].judged) = Len(call[c].judged) + 1
        /\ Len(call[c].judged) \in Nat
    BY <1>1, <2>2
  <2>4. Revalidating(c)' <=> Revalidating(c)
    BY <2>2, <2>3 DEF Revalidating
  <2>5. Entered(c)' => Entered(c)
    BY <2>2, <2>4 DEF Entered
  <2> QED  BY <1>1, <2>2, <2>4, <2>5 DEF Quiet, Counts
<1>3. CASE Record(c)
  <2>1. PICK next : next = IF Len(call[c].judged) = 1 THEN "enforce" ELSE Rejudged(c)
    OBVIOUS
  <2>2. next \in {"enforce", "degrade", "backfill", "human", "run"}
    BY <2>1 DEF Rejudged
  <2>3. PICK k, d, f :
            call' = [call EXCEPT ![c].at = next, ![c].saw = 0, ![c].known = k,
                                 ![c].depth = d, ![c].ran = f]
    BY <1>3, <2>1 DEF Record
  <2>4. /\ call[c].at = "record"
        /\ recorded' = [recorded EXCEPT ![c] = Append(recorded[c], "attempt")]
    BY <1>3 DEF Record
  <2>5. /\ \A b \in Calls \ {c} : call'[b] = call[b] /\ recorded'[b] = recorded[b]
        /\ recorded'[c] = Append(recorded[c], "attempt")
        /\ call'[c].at = next
        /\ call'[c].asked = call[c].asked /\ call'[c].after = call[c].after
        /\ call'[c].value = call[c].value
    BY <1>1, <2>3, <2>4 DEF TypeOK, CallState
  <2>6. Entered(c)
    BY <2>4 DEF Entered
  <2> QED  BY <1>1, <2>2, <2>4, <2>5, <2>6, LeadsQuietly
<1> QED  BY <1>2, <1>3

\* apply and what it nests, and async_wrapper, touch nothing of the session.
LEMMA EnforceQuietly ==
    ASSUME IInv, NEW c \in Calls,
           \/ Enforce(c) \/ EnforceCoroutine(c) \/ LlmReview(c) \/ Suspend(c)
           \/ HumanVerdict(c) \/ HumanTimeout(c) \/ Allow(c) \/ Degrade(c)
    PROVE  Quiet(c) /\ Counts(c)
<1>1. /\ TypeOK /\ call[c] \in CallState
      /\ config' = config /\ trace' = trace /\ recorded' = recorded
  BY DEF IInv, TypeOK, Enforce, EnforceCoroutine, LlmReview, Suspend, HumanVerdict,
         HumanTimeout, Allow, Degrade
<1>2. call[c].at \in {"enforce", "llm", "human", "allow", "degrade"}
  BY DEF Enforce, EnforceCoroutine, LlmReview, Suspend, HumanVerdict, HumanTimeout,
         Allow, Degrade
<1>3. Entered(c)
  BY <1>2 DEF Entered
<1>4. ASSUME NEW p \in {"enforce", "llm", "human", "allow", "degrade", "run", "backfill"},
             NEW a, NEW f, NEW d, NEW v \in {call[c].value, c},
             \/ call' = [call EXCEPT ![c].at = p]
             \/ call' = [call EXCEPT ![c].at = p, ![c].ran = f]
             \/ call' = [call EXCEPT ![c].at = p, ![c].value = v]
             \/ call' = [call EXCEPT ![c].answer = a, ![c].at = p]
             \/ call' = [call EXCEPT ![c].answer = a, ![c].at = p, ![c].ran = f]
             \/ call' = [call EXCEPT ![c].answer = a, ![c].at = p, ![c].depth = d]
      PROVE  Quiet(c) /\ Counts(c)
  <2>0. call \in [Calls -> CallState]
    BY <1>1 DEF TypeOK
  <2>1. \A b \in Calls \ {c} : call'[b] = call[b]
    BY <1>4, <2>0
  <2>2. call'[c].at = p
    BY <1>4, <2>0 DEF CallState
  <2>3. call'[c].asked = call[c].asked /\ call'[c].after = call[c].after
    BY <1>4, <2>0 DEF CallState
  <2>4. call'[c].value \in {call[c].value, v}
    BY <1>4, <2>0 DEF CallState
  <2> QED  BY <1>1, <1>3, <2>1, <2>2, <2>3, <2>4, LeadsQuietly
<1>5. ASSUME OverLimit(c)
      PROVE  Quiet(c) /\ Counts(c)
  <2>1. CASE Coroutine(c) /\ Ends(c)
    BY <1>1, <1>2, <2>1, EndsQuietly
  <2>2. CASE call' = [call EXCEPT ![c].answer = "overLimit", ![c].at = "backfill"]
    BY <1>4, <2>2
  <2> QED  BY <1>5, <2>1, <2>2 DEF OverLimit
<1>6. ASSUME NEW f, Runs(c, f)
      PROVE  Quiet(c) /\ Counts(c)
  BY <1>4, <1>6 DEF Runs
<1>7. CASE Enforce(c)
  <2>1. CASE config.mode = "monitor" /\ Runs(c, call[c].form)
    BY <1>6, <2>1
  <2>2. CASE call' = [call EXCEPT ![c].at = "backfill", ![c].value = c]
    BY <1>4, <2>2
  <2>3. CASE Goes(c, Branch[Action(c)])
    <3>1. call[c].judged # <<>> /\ CallInv(c) /\ CallAssumption
      BY <1>7, CallAssumption DEF IInv, CallInv, JudgedInv, Enforce
    <3>2. Action(c) \in Actions
      BY <3>1, LastJudgement
    <3>3. Branch[Action(c)] \in {"llm", "human", "allow", "degrade", "backfill"}
      BY <3>2 DEF Branch, Actions
    <3> QED  BY <1>4, <2>3, <3>3 DEF Goes
  <2> QED  BY <1>7, <2>1, <2>2, <2>3 DEF Enforce
<1>8. CASE EnforceCoroutine(c)
  <2>1. CASE Coroutine(c) /\ Ends(c)
    BY <1>1, <1>2, <2>1, EndsQuietly
  <2> QED  BY <1>5, <1>6, <1>8, <2>1 DEF EnforceCoroutine
<1>9. CASE LlmReview(c)
  <2>1. PICK verdict \in DOMAIN Verdicts :
            call' = [call EXCEPT ![c].answer = verdict, ![c].at = Verdicts[verdict]]
    BY <1>9 DEF LlmReview
  <2>2. Verdicts[verdict] \in {"allow", "backfill", "human"}
    BY DEF Verdicts
  <2> QED  BY <1>4, <2>1, <2>2
<1>10. CASE Suspend(c)
  BY <1>4, <1>10 DEF Suspend, Goes
<1>11. CASE HumanVerdict(c)
  <2>1. PICK verdict, p : /\ call' = [call EXCEPT ![c].answer = verdict, ![c].at = p]
                          /\ p = IF verdict = "approved" THEN "allow" ELSE "backfill"
    BY <1>11 DEF HumanVerdict
  <2>2. p \in {"allow", "backfill"}
    BY <2>1
  <2> QED  BY <1>4, <2>1, <2>2
<1>12. CASE HumanTimeout(c)
  <2>1. CASE call' = [call EXCEPT ![c].answer = "timeout", ![c].at = "run",
                                  ![c].ran = call[c].form]
    BY <1>4, <2>1
  <2>2. CASE call' = [call EXCEPT ![c].answer = "timeout", ![c].at = "degrade",
                                  ![c].depth = 0]
    BY <1>4, <2>2
  <2>3. CASE call' = [call EXCEPT ![c].answer = "timeout", ![c].at = "backfill"]
    BY <1>4, <2>3
  <2> QED  BY <1>12, <2>1, <2>2, <2>3 DEF HumanTimeout
<1>13. CASE Allow(c)
  BY <1>5, <1>6, <1>13 DEF Allow
<1>14. CASE Degrade(c)
  <2>1. CASE Runs(c, Rewritten(c))
    BY <1>6, <2>1
  <2>2. CASE call' = [call EXCEPT ![c].at = "evaluate", ![c].form = Rewritten(c),
                                  ![c].known = Recorded]
    <3>1. PICK f, k : /\ call' = [call EXCEPT ![c].at = "evaluate", ![c].form = f, ![c].known = k]
                      /\ k = Recorded
      BY <2>2
    <3>2. /\ \A b \in Calls \ {c} : call'[b] = call[b]
          /\ call'[c].at = "evaluate" /\ call'[c].known = Recorded
          /\ call'[c].judged = call[c].judged
          /\ call'[c].asked = call[c].asked /\ call'[c].after = call[c].after
          /\ call'[c].value = call[c].value
      BY <1>1, <3>1 DEF TypeOK, CallState
    <3>3. /\ call[c].judged # <<>> /\ call[c].judged \in Seq(Judgement)
      BY <1>1, <1>14 DEF IInv, CallInv, JudgedInv, Degrade, CallState
    <3>4. Len(call[c].judged) > 0
      BY <3>3
    <3>5. Revalidating(c)'
      BY <3>2, <3>4 DEF Revalidating
    <3> QED  BY <1>1, <1>2, <1>3, <3>2, <3>5 DEF Quiet, Counts
  <2> QED  BY <1>14, <2>1, <2>2 DEF Degrade
<1> QED  BY <1>7, <1>8, <1>9, <1>10, <1>11, <1>12, <1>13, <1>14

\* Nor do the tool's outcomes, the record of a result and what raises.
LEMMA OutcomeQuietly ==
    ASSUME IInv, NEW c \in Calls,
           \/ Return(c) \/ Raise(c) \/ Result(c)
           \/ AttemptRaises(c) \/ ReturnUnguarded(c) \/ BackfillRaises(c)
    PROVE  Quiet(c) /\ Counts(c)
<1>1. TypeOK /\ CallInv(c) /\ call[c] \in CallState
  BY DEF IInv, TypeOK
<1>2. ASSUME NEW v \in {call[c].value, c}, Entered(c),
             \/ call' = [call EXCEPT ![c].at = "backfill", ![c].value = v]
             \/ call' = [call EXCEPT ![c].at = "backfill"],
             UNCHANGED <<config, trace, recorded>>
      PROVE  Quiet(c) /\ Counts(c)
  <2>1. /\ \A b \in Calls \ {c} : call'[b] = call[b]
        /\ call'[c].at = "backfill" /\ call'[c].asked = call[c].asked
        /\ call'[c].after = call[c].after /\ call'[c].value \in {call[c].value, v}
    BY <1>1, <1>2, SMTT(30), ZenonT(30) DEF TypeOK, CallState
  <2> QED  BY <1>1, <1>2, <2>1, LeadsQuietly
<1>3. CASE Return(c)
  BY <1>2, <1>3 DEF Return, Entered
<1>4. CASE Raise(c)
  <2>1. call[c].at = "run" /\ UNCHANGED <<config, trace, recorded>>
    BY <1>4 DEF Raise
  <2>2. CASE Coroutine(c) /\ Ends(c)
    BY <1>1, <2>1, <2>2, EndsQuietly
  <2>3. CASE Goes(c, "backfill")
    BY <1>2, <2>1, <2>3 DEF Goes, Entered
  <2> QED  BY <1>4, <2>2, <2>3 DEF Raise
<1>5. CASE Result(c)
  BY <1>1, <1>5, EndsQuietly DEF Result
<1>6. CASE ReturnUnguarded(c)
  BY <1>1, <1>6, EndsQuietly DEF ReturnUnguarded, CallInv, RanInv
<1>7. CASE BackfillRaises(c)
  BY <1>1, <1>7, EndsQuietly DEF BackfillRaises
<1>8. CASE AttemptRaises(c)
  <2>1. /\ config.flaky /\ call[c].at \in {"evaluate", "append"}
        /\ UNCHANGED <<config, trace, recorded>>
    BY <1>8 DEF AttemptRaises
  <2>2. CASE Revalidating(c) /\ Goes(c, "backfill")
    BY <1>2, <2>1, <2>2 DEF Goes, Entered
  <2>3. CASE Ends(c)
    BY <1>1, <2>1, <2>3, EndsQuietly
  <2>4. CASE call' = [call EXCEPT ![c].at = "unguarded", ![c].answer = "unavailable",
                                  ![c].ran = call[c].asked]
    <3>1. PICK f : call' = [call EXCEPT ![c].at = "unguarded", ![c].answer = "unavailable",
                                        ![c].ran = f]
      BY <2>4
    <3>2. /\ \A b \in Calls \ {c} : call'[b] = call[b]
          /\ call'[c].at = "unguarded" /\ call'[c].asked = call[c].asked
          /\ call'[c].after = call[c].after /\ call'[c].value = call[c].value
      BY <1>1, <3>1 DEF TypeOK, CallState
    <3>3. ~Entered(c)'
      BY <3>2 DEF Entered
    <3> QED  BY <2>1, <3>2, <3>3 DEF Quiet, Counts
  <2> QED  BY <1>8, <2>2, <2>3, <2>4 DEF AttemptRaises
<1> QED  BY <1>3, <1>4, <1>5, <1>6, <1>7, <1>8

-----------------------------------------------------------------------------
(* What the calls of a session make of one another.                        *)

\* At first no call has begun, and the trace is empty.
LEMMA InitSession ==
    ASSUME NothingAssumption, IInv, Init
    PROVE  SessionInv /\ CountInv
<1>1. PICK asked : call = [c \in Calls |-> Fresh(asked[c], "idle")]
  BY DEF Init
<1>2. \A c \in Calls : /\ call[c].at = "idle" /\ call[c].after = {}
                       /\ call[c].form = call[c].asked /\ call[c].value = NoCall
  BY <1>1 DEF Fresh
<1>3. trace = <<>> /\ DOMAIN trace = {} /\ \A c \in Calls : recorded[c] = <<>>
  BY DEF Init
<1>4. AfterInv /\ OrderInv /\ BegunInv /\ ResultsExplained
  BY <1>2, <1>3 DEF AfterInv, OrderInv, BegunInv, ResultsExplained
<1>5. \A c \in Calls : OwnInv(c) /\ ArrivedInv(c)
  BY <1>2 DEF OwnInv, ArrivedInv, Entered
<1>6. \A c \in Calls : Attempts(c) = {} /\ Entries(c) = {}
  BY <1>3 DEF Attempts, Entries
<1>7. Cardinality({}) = 0
  BY FS_EmptySet
<1>8. CountInv
  <2>1. \A b \in Calls : /\ Cardinality(Attempts(b)) = 0 /\ Cardinality(Entries(b)) = 0
                          /\ call[b].at # "record"
    BY <1>2, <1>6, <1>7
  <2>2. \A c, b \in Calls : call[c].at \notin {"evaluate", "append"}
    BY <1>2
  <2>3. \A b \in Calls : Cardinality(Attempts(b)) + (IF call[b].at = "record" THEN 1 ELSE 0)
                              <= Cardinality(Entries(b))
    BY <2>1
  <2> QED  BY <2>2, <2>3 DEF CountInv
<1> QED  BY <1>4, <1>5, <1>8 DEF SessionInv

\* Every step keeps what is known of the session.
LEMMA NextSession ==
    ASSUME CallAssumption, NothingAssumption, IInv, SessionInv, CountInv, [Next]_vars
    PROVE  SessionInv' /\ CountInv'
<1>1. TypeOK
  BY DEF IInv
<1>2. ASSUME NEW c \in Calls, Quiet(c), Counts(c)
      PROVE  SessionInv' /\ CountInv'
  BY <1>1, <1>2, QuietKeeps, CountsKeep
<1>3. ASSUME NEW c \in Calls, Begin(c)
      PROVE  SessionInv' /\ CountInv'
  <2>1. call[c] \in CallState /\ recorded' = recorded /\ trace' = trace
    BY <1>1, <1>3 DEF TypeOK, Begin
  <2>2. PICK k, ended : /\ call' = [call EXCEPT ![c].at = "evaluate", ![c].known = k,
                                                ![c].after = ended]
                        /\ k = Recorded
    BY <1>3 DEF Begin
  <2>3. /\ \A b \in Calls \ {c} : call'[b] = call[b]
        /\ call'[c].at = "evaluate" /\ call'[c].known = Recorded
    BY <1>1, <2>1, <2>2 DEF TypeOK, CallState
  <2>4. Counts(c)
    BY <2>1, <2>3 DEF Counts
  <2> QED  BY <1>1, <1>3, <2>4, BeginSession, CountsKeep
<1>4. ASSUME NEW c \in Calls, AppendTrace(c)
      PROVE  SessionInv' /\ CountInv'
  BY <1>1, <1>4, AppendSession, AppendCounts
<1>5. ASSUME NEW c \in Calls, Backfill(c)
      PROVE  SessionInv' /\ CountInv'
  <2>1. /\ call[c] \in CallState /\ recorded' = recorded
        /\ trace \in Seq(Entry) /\ Len(trace) \in Nat /\ DOMAIN trace = 1 .. Len(trace)
    BY <1>1, <1>5 DEF TypeOK, Backfill
  <2>2. PICK S, v :
            trace' = [i \in DOMAIN trace |->
                         IF i \in S THEN [trace[i] EXCEPT !.result = v] ELSE trace[i]]
    BY <1>5 DEF Backfill
  <2>3. \A i \in DOMAIN trace : trace[i] \in Entry
    BY <2>1
  <2>4. /\ DOMAIN trace' = DOMAIN trace /\ Len(trace') = Len(trace)
        /\ \A i \in DOMAIN trace : trace'[i].call = trace[i].call
    BY <2>1, <2>2, <2>3 DEF Entry
  <2>5. /\ \A b \in Calls \ {c} : call'[b] = call[b]
        /\ call'[c].at = "result"
    BY <1>1, <1>5, <2>1 DEF Backfill, Goes, TypeOK, CallState
  <2>6. Counts(c)
    BY <2>1, <2>4, <2>5 DEF Counts
  <2> QED  BY <1>1, <1>5, <2>6, BackfillSession, CountsKeep
<1>6. ASSUME NEW c \in Calls, Progress(c)
      PROVE  SessionInv' /\ CountInv'
  BY <1>2, <1>4, <1>5, <1>6, AttemptQuietly, EnforceQuietly, OutcomeQuietly DEF Progress
<1>7. ASSUME NEW c \in Calls, Outside(c)
      PROVE  SessionInv' /\ CountInv'
  BY <1>2, <1>3, <1>7, OutcomeQuietly DEF Outside
<1>8. CASE UNCHANGED vars
  <2>1. SessionInv'
    BY <1>8 DEF vars, SessionInv, AfterInv, OrderInv, BegunInv, ResultsExplained, OwnInv,
                ArrivedInv, Alone, Own, Entered, Revalidating, Begun, Overlapped, Coroutine
  <2>2. CountInv'
    <3>1. call' = call /\ trace' = trace
      BY <1>8 DEF vars
    <3>2. \A b \in Calls : Attempts(b)' = Attempts(b) /\ Entries(b)' = Entries(b)
      BY <1>8 DEF vars, Attempts, Entries
    <3> QED  BY <3>1, <3>2 DEF CountInv
  <2> QED  BY <2>1, <2>2
<1> QED  BY <1>6, <1>7, <1>8 DEF Next

\* What is known of the session holds in every reachable state.
LEMMA SessionInvariance == Spec => [](SessionInv /\ CountInv)
<1>1. Init => IInv /\ SessionInv /\ CountInv
  BY InitInv, InitSession, CallAssumption, NothingAssumption
<1>2. IInv /\ SessionInv /\ CountInv /\ [Next]_vars => (SessionInv /\ CountInv)'
  BY NextSession, CallAssumption, NothingAssumption
<1> QED  BY <1>1, <1>2, Invariance, PTL DEF Spec

\* Pipeline.handle_attempt: the trace an evaluation reads holds every attempt that
\* was recorded before handle_attempt was entered, whoever made it.
THEOREM PredecessorsAreSeen == Spec => []PredecessorsSeen
<1>1. TypeOK /\ CountInv => PredecessorsSeen
  <2> SUFFICES ASSUME TypeOK, CountInv, NEW c \in Calls, NEW b \in Calls,
                      call[c].at = "append"
               PROVE  Cardinality({i \in 1 .. call[c].saw : trace[i].call = b})
                          >= call[c].known[b]
    BY DEF PredecessorsSeen
  <2>1. call[c].known[b] \in Nat /\ call[c].saw \in Nat
    BY DEF TypeOK, CallState
  <2>2. IsFiniteSet({i \in 1 .. call[c].saw : trace[i].call = b})
    <3>1. PICK n \in Nat : n = call[c].saw
      BY <2>1
    <3>2. IsFiniteSet(1 .. n)
      BY FS_Interval
    <3>3. {i \in 1 .. call[c].saw : trace[i].call = b} \subseteq 1 .. call[c].saw
      OBVIOUS
    <3> QED  BY <3>1, <3>2, <3>3, FS_Subset
  <2>3. Cardinality({i \in 1 .. call[c].saw : trace[i].call = b}) \in Nat
    BY <2>2, FS_CardinalityType
  <2>4. call[c].known[b] <= Cardinality({i \in 1 .. call[c].saw : trace[i].call = b})
    BY DEF CountInv
  <2> QED  BY <2>1, <2>3, <2>4
<1> QED  BY <1>1, TypeCorrect, SessionInvariance, PTL

\* update_trace_result: only calls that overlap, and coroutines, leave a result by
\* another call.
THEOREM ResultsAreExplained == Spec => []ResultsExplained
<1>1. SessionInv => ResultsExplained
  BY DEF SessionInv
<1> QED  BY <1>1, SessionInvariance, PTL

\* guarded_call: the result of a call that had the session to itself stands where
\* the next call looks for it.
THEOREM ResultsDoArrive == Spec => []ResultsArrive
<1>1. SessionInv => ResultsArrive
  <2> SUFFICES ASSUME SessionInv, NEW c \in Calls,
                      call[c].at = "done", call[c].value = c, ~Coroutine(c), ~config.flaky,
                      \A b \in Calls \ {c} : Begun(b) => ~Overlapped(b, c) /\ ~Coroutine(b)
               PROVE  \E i \in Own(c) : (\A j \in Own(c) : j <= i) /\ trace[i].result = c
    BY DEF ResultsArrive, Own
  <2>1. ArrivedInv(c) /\ Alone(c)
    BY DEF SessionInv, Alone
  <2> QED  BY <2>1 DEF ArrivedInv
<1> QED  BY <1>1, SessionInvariance, PTL

=============================================================================
