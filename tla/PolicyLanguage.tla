--------------------------- MODULE PolicyLanguage ---------------------------
(***************************************************************************)
(* A text of rules from the moment it is written to the decisions it       *)
(* makes: the validator reports on it, the compiler loads it or refuses    *)
(* it, and then the calls of one session are evaluated against it, with    *)
(* the features that runtime/enrichment.py draws from what the session did *)
(* before.  policy/evaluator/ picks the candidates, merges those that fire *)
(* and builds the decision.                                                *)
(*                                                                         *)
(* The session's two histories differ: the trace is appended at once, and  *)
(* the list of previous tools by the graph writer's thread, some time      *)
(* later.  The execution graph is left out: at the evaluation of a call it *)
(* does not hold the call yet, so exists_path answers by the labels.       *)
(***************************************************************************)
EXTENDS RuleChecker

CONSTANTS
    Texts,          \* the texts: records of tokens, and of the rules meant by them
    CallsOf(_),     \* the calls evaluated against a text
    Allowlists,     \* the allowlists the runtime was given
    Results,        \* what a tool may return
    MaxCalls,       \* bound on the calls of the session
    TraceCap,       \* TRACE_LOG_CAP and TRACE_RICH_CAP
    RecentCap       \* how many previous tools the features hold

VARIABLES
    text,           \* the text
    phase,          \* "text", "checked", "refused" or "loaded"
    report,         \* the validator's report
    rules,          \* the rules loaded
    log,            \* every tool attempted, as atoms: a history variable
    rich,           \* the trace with arguments and results
    queue,          \* tools submitted to the graph writer
    recent,         \* previous tools, the newest first
    labels,         \* the session's labels
    seen            \* the last evaluation: the event, its features, the decision

vars == <<text, phase, report, rules, log, rich, queue, recent, labels, seen>>

Nothing == [ev |-> None]

-----------------------------------------------------------------------------
(* Evaluation.                                                             *)

\* Sink risks in tenths.
SinkRisk ==
    [none |-> 0, email |-> 4, http |-> 5, shell |-> 7, fs_write |-> 5, db_write |-> 5,
     llm_out |-> 3]

Sensitive == {"pii", "finance", "hr", "secret"}

\* RiskScorer.score
Risk(ev, matched) ==
    LET tainted == \E label \in ev.refs : label[2][1] \in Sensitive
        base == Max({SinkRisk[ev.sink]} \cup IF tainted THEN {8} ELSE {})
    IN IF matched = <<>> THEN base ELSE Min({10, base + Len(matched)})

\* _event_matches_subtype
MatchesSubtype(rule, ev) ==
    CASE rule.subtype = "requested" -> ev.type \in {"requested", "attempt"}
      [] rule.subtype = "completed" -> ev.type \in {"completed", "result"}
      [] rule.subtype = "failed" -> ev.type = "failed"
      [] OTHER -> TRUE

\* The patterns of _IndexedView.by_pattern, in the order of their first rules.
Patterns(loaded) ==
    LET first == {k \in DOMAIN loaded :
                    \A m \in 1 .. k - 1 : loaded[m].pattern # loaded[k].pattern}
    IN [n \in 1 .. Cardinality(first) |-> loaded[SetToSortSeq(first, <)[n]].pattern]

Bucket(loaded, pattern) == SelectSeq(loaded, LAMBDA r : r.pattern = pattern)

\* Mutant: a tool that has a bucket of its own does not look at the wildcards.
Candidates_Exclusive(loaded, tool) ==
    IF Bucket(loaded, tool) # <<>> THEN Bucket(loaded, tool)
    ELSE FlattenSeq([n \in DOMAIN Patterns(loaded) |->
            IF MatchesTool(Patterns(loaded)[n], tool)
            THEN Bucket(loaded, Patterns(loaded)[n]) ELSE <<>>])

\* _IndexedView.candidates
Candidates(loaded, tool) ==
    Bucket(loaded, tool) \o
    FlattenSeq([n \in DOMAIN Patterns(loaded) |->
        LET pattern == Patterns(loaded)[n] IN
        IF pattern # tool /\ Last(pattern) = "*" /\ MatchesTool(pattern, tool)
        THEN Bucket(loaded, pattern) ELSE <<>>])

\* The order in which evaluate looks for hits.
Strictness == <<"DENY", "LLM_CHECK", "HUMAN_CHECK", "DEGRADE", "ALLOW">>

ObligationName(kind) ==
    CASE kind \in {"REDACT", "MASK_FIELDS"} -> "mask_fields"
      [] kind = "AUDIT" -> "audit"
      [] kind = "REQUIRE_TARGET_IN" -> "require_target_in"
      [] kind = "RATE_LIMIT" -> "rate_limit"
      [] OTHER -> kind

\* build_obligations: the rewrite first, what the rule asks for, and an audit
\* that carries its severity and category.
BuildObligations(rule) ==
    (IF rule.action.profile = <<>> THEN <<>>
     ELSE <<[kind |-> "rewrite_tool", rule_id |-> rule.rule_id]>>)
    \o [n \in DOMAIN rule.action.obligations |->
            [kind |-> ObligationName(rule.action.obligations[n].kind),
             rule_id |-> rule.rule_id]]
    \o (IF {"severity", "category"} \cap DOMAIN rule.meta = {} THEN <<>>
        ELSE <<[kind |-> "audit", rule_id |-> rule.rule_id]>>)

\* The texts of the winning rules, each once: reasons or prompts.
Merged(words) ==
    FoldLeft(LAMBDA before, w :
                IF w = <<>> \/ w \in ToSet(before) THEN before
                ELSE Append(before, w),
             <<>>, words)

MetaText(rule, key, default) ==
    IF key \in DOMAIN rule.meta THEN rule.meta[key][2] ELSE default

\* FastEvaluator._build
BuildDecision(action, matched, ev) ==
    LET profiled == SelectSeq(matched, LAMBDA r : r.action.profile # <<>>)
    IN [action |-> action,
        matched |-> [n \in DOMAIN matched |-> matched[n].rule_id],
        obligations |-> FlattenSeq([n \in DOMAIN matched |-> BuildObligations(matched[n])]),
        profile |-> IF profiled = <<>> THEN <<>> ELSE profiled[1].action.profile,
        reasons |-> Merged([n \in DOMAIN matched |->
                        MetaText(matched[n], "reason", <<matched[n].rule_id>>)]),
        prompts |-> IF action = "LLM_CHECK"
                    THEN Merged([n \in DOMAIN matched |-> MetaText(matched[n], "prompt", <<>>)])
                    ELSE <<>>,
        risk |-> Risk(ev, matched)]

\* FastEvaluator.evaluate: a predicate that raises is passed over.
Evaluate(loaded, ev, f) ==
    LET hits == SelectSeq(Candidates(loaded, ev.tool),
                    LAMBDA r : MatchesSubtype(r, ev) /\ Predicate(r, ev, f) = "yes")
        Of(action) == SelectSeq(hits, LAMBDA r : r.action.kind = action)
        winning == {n \in DOMAIN Strictness : Of(Strictness[n]) # <<>>}
        action == Strictness[Min(winning)]
    IN IF winning = {} THEN BuildDecision("ALLOW", <<>>, ev)
       ELSE BuildDecision(action, Of(action), ev)

-----------------------------------------------------------------------------
(* Enrichment.                                                             *)

RECURSIVE PathsOf(_)

\* The labels of the exists_path of a condition, in order: its path_specs.
PathsOf(e) ==
    CASE e[1] \in {"AND", "OR"} -> PathsOf(e[2]) \o PathsOf(e[3])
      [] e[1] = "not" -> PathsOf(e[2])
      [] e[1] = "exists" -> <<e[2]>>
      [] OTHER -> <<>>

\* The features of the rules' paths: their key is the rule's id, and the first
\* path that has a key computes it.
PathFeatures(loaded, found) ==
    LET specs == FlattenSeq([n \in DOMAIN loaded |->
                    [m \in DOMAIN PathsOf(loaded[n].expr) |->
                        <<loaded[n].rule_id, PathsOf(loaded[n].expr)[m]>>]])
    IN [id \in {spec[1] : spec \in ToSet(specs)} |->
           LET spec == SelectSeq(specs, LAMBDA s : s[1] = id)[1]
           IN \E p \in ToSet(spec[2]) : LabelMatches(p, found)]

\* enrich_event and compute_fast_features
Features(loaded, ev) ==
    LET found == labels \cup ev.refs
        tags == ev.tags
        basic == [key \in {<<"allowlist", name>> : name \in DOMAIN Allowlists}
                        \cup {<<name>> : name \in DOMAIN Allowlists} |-> Allowlists[Last(key)]]
        session == [key \in {<<"session", "labels">>, <<"input", "labels">>} |->
                        <<"set", found>>]
        previous == SubSeq(recent, 1, Min({RecentCap, Len(recent)}))
    IN [named |-> basic @@ session
                  @@ (<<"session", "previous_tools">> :> <<"list", previous>>)
                  @@ (IF tags = {} THEN <<>> ELSE <<"tool", "tags">> :> <<"set", tags>>),
        rich |-> rich,
        sequence |-> [n \in DOMAIN rich |-> rich[n].tool[2]],
        previous |-> previous,
        labels |-> found,
        targets |-> {},
        signals |-> ev.signals,
        paths |-> PathFeatures(loaded, found)]

-----------------------------------------------------------------------------

Init ==
    /\ text \in Texts
    /\ phase = "text"
    /\ report = [rule_count |-> 0, diagnostics |-> {}]
    /\ rules = <<>>
    /\ log = <<>> /\ rich = <<>> /\ queue = <<>> /\ recent = <<>> /\ labels = {}
    /\ seen = Nothing

\* validate_source
Check ==
    /\ phase = "text"
    /\ report' = Validate(text.tokens)
    /\ phase' = "checked"
    /\ UNCHANGED <<text, rules, log, rich, queue, recent, labels, seen>>

\* compile_rules: a text that does not parse loads nothing.
Load ==
    /\ phase = "checked"
    /\ LET read == ParseRules(text.tokens) IN
         IF read.i = 0 THEN phase' = "refused" /\ rules' = <<>>
                       ELSE phase' = "loaded" /\ rules' = read.v
    /\ UNCHANGED <<text, report, log, rich, queue, recent, labels, seen>>

\* A deque with a maxlen.
Capped(seq, cap) == IF Len(seq) <= cap THEN seq ELSE SubSeq(seq, Len(seq) - cap + 1, Len(seq))

\* Pipeline.handle_attempt: evaluated first, recorded afterwards, and recorded
\* only when it is an attempt.
Attempt(ev) ==
    /\ phase = "loaded" /\ Len(log) < MaxCalls
    /\ LET f == Features(rules, ev) IN
         seen' = [ev |-> ev, f |-> f, decision |-> Evaluate(rules, ev, f)]
    /\ labels' = labels \cup ev.refs
    /\ log' = Append(log, ev.tool)
    /\ IF ev.type \in {"attempt", "requested"}
       THEN /\ rich' = Capped(Append(rich, Current(ev)), TraceCap)
            /\ queue' = Append(queue, Text(ev.tool))
       ELSE UNCHANGED <<rich, queue>>
    /\ UNCHANGED <<text, phase, report, rules, recent>>

\* update_trace_result, after the tool ran: the newest entry of the tool.
Return(tool, result) ==
    /\ \E n \in DOMAIN rich :
         /\ rich[n].tool = Text(tool) /\ rich[n].result = None
         /\ \A m \in n + 1 .. Len(rich) : rich[m].tool # Text(tool)
         /\ rich' = [rich EXCEPT ![n].result = result]
    /\ UNCHANGED <<text, phase, report, rules, log, queue, recent, labels, seen>>

\* GraphWriter._write, as far as the session sees it.
Write ==
    /\ queue # <<>>
    /\ recent' = <<Head(queue)>> \o recent
    /\ queue' = Tail(queue)
    /\ UNCHANGED <<text, phase, report, rules, log, rich, labels, seen>>

Next ==
    \/ Check
    \/ Load
    \/ \E ev \in CallsOf(text) : Attempt(ev)
    \/ \E ev \in CallsOf(text), result \in Results : Return(ev.tool, result)
    \/ Write

Spec == Init /\ [][Next]_vars

-----------------------------------------------------------------------------

\* A rule means what it says: reading the text of a rule, written with no more
\* parentheses than precedence needs, gives the rule back.  The
\* recursive descent of parser.py nests OR over AND over NOT, to the left.
ParsesBack == phase = "loaded" /\ text.meant # <<>> => rules = text.meant

\* The strictest rule that applies decides: the decision is the first, in the
\* order of evaluate, of all rules of the text that match the tool and the kind
\* of event and fire; the index by pattern loses none of them, and what the
\* decision obliges to comes from rules of its own kind only.
StrictestRuleDecides ==
    seen # Nothing =>
        LET firing == {k \in DOMAIN rules :
                        /\ MatchesTool(rules[k].pattern, seen.ev.tool)
                        /\ MatchesSubtype(rules[k], seen.ev)
                        /\ Predicate(rules[k], seen.ev, seen.f) = "yes"}
            Rank(action) == CHOOSE n \in DOMAIN Strictness : Strictness[n] = action
            decision == seen.decision
        IN /\ \A k \in firing : Rank(decision.action) <= Rank(rules[k].action.kind)
           /\ firing = {} => decision.action = "ALLOW" /\ decision.matched = <<>>
           /\ ToSet(decision.matched) =
                {rules[k].rule_id : k \in {m \in firing :
                    rules[m].action.kind = decision.action}}
           /\ \A ob \in ToSet(decision.obligations) :
                \E k \in firing : /\ rules[k].action.kind = decision.action
                                  /\ rules[k].rule_id = ob.rule_id

\* A rule with a TRACE clause looks at nothing but the last calls of the
\* session: the chain it binds ends at the call being evaluated, and each gap
\* is the smallest that its separator allows.  match_with_bindings
\* returns the last chain of its search.
TightestChain ==
    seen # Nothing =>
        \A k \in DOMAIN rules :
            LET rich_now == Append(seen.f.rich, Current(seen.ev))
                chains == Chains(Seps(rules[k]), Len(rich_now))
                p == Chosen(chains)
                Least(sep) == CASE sep \in {"->", "...?"} -> 1 [] OTHER -> 2
            IN rules[k].trace # <<>> /\ chains # {} =>
                 /\ p[Len(p)] = Len(rich_now)
                 /\ \A m \in DOMAIN p \ {1} :
                        p[m] - p[m - 1] = Least(rules[k].trace[m].sep)

RECURSIVE CalledIn(_)

\* The functions that a condition calls itself, not as an argument of another.
CalledIn(e) ==
    CASE e[1] \in {"AND", "OR"} -> CalledIn(e[2]) \cup CalledIn(e[3])
      [] e[1] = "not" -> CalledIn(e[2])
      [] e[1] = "call" -> {e[2][2]}
      [] e[1] = "cmp" -> {v[2] : v \in {w \in {e[2], e[4]} : w[1] = "func"}}
      [] OTHER -> {}

\* A predicate that is always False because nobody implements it does not pass
\* the validator in silence: a plain name that the compiler's table lacks is
\* reported, wherever it stands in the condition.  validator.py keeps a table of
\* its own; it does not look at names with a namespace, nor into arguments.
DeadPredicatesReported ==
    phase = "loaded" =>
        \A k \in DOMAIN rules :
            (\E func \in CalledIn(rules[k].expr) : func.ns = <<>> /\ ~Handled(func)
                                                 /\ func.name # "exists_path")
            => <<"warning", rules[k].rule_id, "unknown function">> \in report.diagnostics

\* A chain of calls that the documentation shows is found: A ->...?-> B fires
\* when some earlier call is A's and the current one B's, however many calls
\* lie between.
ChainIsFound ==
    seen # Nothing =>
        \A k \in DOMAIN rules :
            LET rule == rules[k]
                rich_now == Append(seen.f.rich, Current(seen.ev))
                chains == Chains(Seps(rule), Len(rich_now))
            IN rule.trace # <<>> =>
                 ( (\E p \in chains :
                       Holds(rule.expr, rule.rule_id, seen.ev, seen.f,
                             BoundBy(rule.trace, p, rich_now)) = "yes")
                   => Predicate(rule, seen.ev, seen.f) = "yes" )

=============================================================================
