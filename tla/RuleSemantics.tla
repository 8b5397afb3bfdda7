---------------------------- MODULE RuleSemantics ----------------------------
(***************************************************************************)
(* What a compiled rule means: policy/dsl/compiler.py and the matchers of  *)
(* policy/dsl/trace_pattern.py.                                            *)
(*                                                                         *)
(* A value is a tuple tagged with its Python type; True and False are the  *)
(* numbers 1 and 0, as they compare in Python.  A regular expression is a  *)
(* literal text, the one that does not compile is BadPattern; which host a *)
(* URL names is urllib's affair (HostOf).                                  *)
(*                                                                         *)
(* An event is a record of what rules read of a RuntimeEvent.  Features    *)
(* are the record Pipeline and SessionActor compute for an evaluation:     *)
(* `named` for what is looked up by a dotted name, and one field for each  *)
(* of the lists the functions of the language read.                        *)
(***************************************************************************)
EXTENDS RuleSyntax

CONSTANTS HostOf, BadPattern

Text(atoms) == <<"str", atoms>>
Num(n) == <<"num", n>>
Bool(b) == Num(IF b THEN 1 ELSE 0)
None == <<"none">>
Dict(f) == <<"dict", f>>

Collection(v) == v[1] \in {"set", "list", "dict"}

Elements(v) ==
    CASE v[1] = "set" -> v[2]
      [] v[1] = "list" -> ToSet(v[2])
      [] v[1] = "dict" -> {Text(<<key>>) : key \in DOMAIN v[2]}

\* bool(v)
Truthy(v) ==
    CASE v = None -> FALSE
      [] v[1] = "num" -> v[2] # 0
      [] v[1] = "str" -> v[2] # <<>>
      [] OTHER -> Elements(v) # {}

Occurs(part, whole) ==
    \E i \in 0 .. Len(whole) - Len(part) : SubSeq(whole, i + 1, i + Len(part)) = part

\* A test answers "yes" or "no", or "raises" what the evaluator swallows.
Answer(b) == IF b THEN "yes" ELSE "no"

-----------------------------------------------------------------------------
(* Operators.                                                              *)

\* Membership of a set asks for a hash, which a list, a set or a dict has not.
Member(needle, container) ==
    IF container[1] \in {"set", "dict"} /\ Collection(needle) THEN "raises"
    ELSE Answer(needle \in Elements(container))

\* _in
In(needle, haystack) ==
    IF Collection(haystack) THEN Member(needle, haystack)
    ELSE Answer(haystack[1] = "str" /\ needle = haystack)

\* _contains
ContainsValue(haystack, needle) ==
    IF Collection(haystack) THEN Member(needle, haystack)
    ELSE Answer(/\ haystack[1] = "str" /\ needle[1] = "str"
                /\ Occurs(needle[2], haystack[2]))

\* _matches; what str makes of a value that is no string is not modelled.
Matches(left, pattern) ==
    /\ pattern[1] = "str" /\ pattern # BadPattern
    /\ left[1] = "str" /\ Occurs(pattern[2], left[2])

\* _safe_lt: values that have no order are not less than one another; the
\* alphabetical order of strings is not modelled.
Less(a, b) ==
    \/ a[1] = "num" /\ b[1] = "num" /\ a[2] < b[2]
    \/ a[1] = "set" /\ b[1] = "set" /\ a # b /\ a[2] \subseteq b[2]

Opposite(answer) ==
    CASE answer = "yes" -> "no" [] answer = "no" -> "yes" [] OTHER -> "raises"

\* _apply_op
Apply(op, a, b) ==
    CASE op = "==" -> Answer(a = b)
      [] op = "!=" -> Answer(a # b)
      [] op = "<" -> Answer(Less(a, b))
      [] op = "<=" -> Answer(a = b \/ Less(a, b))
      [] op = ">" -> Answer(Less(b, a))
      [] op = ">=" -> Answer(a = b \/ Less(b, a))
      [] op = "IN" -> In(a, b)
      [] op = "NOT_IN" -> Opposite(In(a, b))
      [] op = "MATCHES" -> Answer(Matches(a, b))
      [] op = "CONTAINS" -> ContainsValue(a, b)

\* _label_match_any, of the patterns a, a/* and a*; a label is its segments.
LabelMatches(pattern, labels) ==
    IF pattern[2] # <<>> /\ Last(pattern[2]) = "*"
    THEN \E label \in labels : IsPrefix(Front(pattern[2]), label[2])
    ELSE pattern \in labels

-----------------------------------------------------------------------------
(* Chains of calls.                                                        *)

\* What a separator says of the positions of the steps beside it.
Follows(sep, p, q) ==
    CASE sep = "->" -> q = p + 1
      [] sep = "*" -> q = p + 2
      [] sep = "..." -> q >= p + 2
      [] sep = "...?" -> q >= p + 1

\* Every way to place the steps in a sequence of n calls.
Chains(seps, n) ==
    {p \in [DOMAIN seps -> 1 .. n] :
        \A k \in DOMAIN seps \ {1} : Follows(seps[k], p[k - 1], p[k])}

\* compile_trace_pattern: the names of the pattern are the steps' tools, and
\* the regular expression matches wherever they stand in the sequence.
TracePatternMatches(steps, tools) ==
    \E p \in Chains([k \in DOMAIN steps |-> steps[k].sep], Len(tools)) :
        \A k \in DOMAIN steps : tools[p[k]] = steps[k].tool

Precedes(p, q) ==
    \E k \in DOMAIN p : p[k] < q[k] /\ \A m \in 1 .. k - 1 : p[m] = q[m]

\* Mutant: the first chain the search finds.
Chosen_First(chains) == CHOOSE p \in chains : \A q \in chains \ {p} : Precedes(p, q)

\* match_with_bindings tries each step's positions in ascending order and
\* returns the last chain that it found.
Chosen(chains) == CHOOSE p \in chains : \A q \in chains \ {p} : Precedes(q, p)

\* The entry each placeholder is bound to; of two with one name, the later.
BoundBy(steps, p, rich) ==
    [name \in {steps[k].name : k \in DOMAIN steps} |->
        rich[p[Max({k \in DOMAIN steps : steps[k].name = name})]]]

Seps(rule) == [k \in DOMAIN rule.trace |-> rule.trace[k].sep]

-----------------------------------------------------------------------------
(* Paths.                                                                  *)

EventFields ==
    {"principal", "tool_call", "scope", "goal", "event_type", "ts_ms", "event_id",
     "extra", "provenance_refs", "result", "trace_id"}

ToolFields ==
    {"target", "args", "tool_name", "sink_type", "label", "syntax", "result",
     "authority", "ts_ms"}

\* _PATH_ALIAS_REWRITES
Alias(prefix) ==
    CASE prefix = <<"caller">> -> <<"principal">>
      [] prefix = <<"tool", "name">> -> <<"tool_call", "tool_name">>
      [] /\ Len(prefix) = 2 /\ prefix[1] = "tool"
         /\ prefix[2] \in {"boundary", "sensitivity", "integrity", "tags"}
            -> <<"tool_call", "label", prefix[2]>>
      [] prefix = <<"tool">> -> <<"tool_call">>
      [] prefix = <<"event", "type">> -> <<"event_type">>
      [] prefix = <<"event", "id">> -> <<"event_id">>
      [] prefix = <<"event", "timestamp">> -> <<"ts_ms">>
      [] prefix = <<"event", "session_id">> -> <<"principal", "session_id">>
      [] OTHER -> <<>>

\* _rewrite_alias: the longer prefix first.
Rewrite(parts) ==
    LET long == IF Len(parts) >= 2 THEN Alias(SubSeq(parts, 1, 2)) ELSE <<>>
        short == Alias(SubSeq(parts, 1, 1))
    IN CASE long # <<>> -> long \o SubSeq(parts, 3, Len(parts))
         [] long = <<>> /\ short # <<>> -> short \o Tail(parts)
         [] OTHER -> parts

\* The event as the path resolver walks it.
Tree(ev) ==
    Dict([event_type |-> Text(<<ev.type>>),
          principal |-> Dict(ev.principal),
          scope |-> <<"set", ev.scope>>,
          tool_call |-> Dict([tool_name |-> Text(ev.tool), args |-> Dict(ev.args),
                              target |-> Dict(ev.target), label |-> Dict(ev.label),
                              sink_type |-> Text(<<ev.sink>>)])])

\* _get_attr_or_key
Get(node, key) ==
    IF node[1] = "dict" /\ key \in DOMAIN node[2] THEN node[2][key] ELSE None

\* A path whose first part is a field: tool.<param> reads the arguments.
Walk(parts, ev) ==
    LET tail == Tail(parts)
        onEvent == parts[1] \in EventFields
        node == Get(IF onEvent THEN Tree(ev) ELSE Get(Tree(ev), "tool_call"), parts[1])
        param == /\ parts[1] = "tool_call" /\ tail # <<>>
                 /\ tail[1] \notin ToolFields /\ tail[1] \in DOMAIN ev.args
    IN IF param THEN FoldLeft(Get, ev.args[tail[1]], Tail(tail))
                ELSE FoldLeft(Get, node, tail)

Known(parts) == parts[1] \in EventFields \cup ToolFields

\* A field of the entry a placeholder is bound to.
Placeholder(entry, tail) ==
    IF tail = <<>> THEN Dict(entry)
    ELSE LET name == Lower(tail[1]) IN
         CASE name = "name" -> entry.tool
           [] name \in {"boundary", "sensitivity", "integrity"} -> Get(entry.label, name)
           [] name = "result" -> entry.result
           [] OTHER -> Get(entry.args, tail[1])

\* _resolve_path
Resolve(parts, ev, f, bound) ==
    LET real == Rewrite(parts) IN
    CASE parts[1] \in DOMAIN bound -> Placeholder(bound[parts[1]], Tail(parts))
      [] parts[1] \notin DOMAIN bound /\ Known(real) -> Walk(real, ev)
      [] parts[1] \notin DOMAIN bound /\ ~Known(real) ->
            IF real \in DOMAIN f.named THEN f.named[real] ELSE None

\* _lookup_ref, behind the right side of a comparison: by its name among the
\* features, and then as a path, but without the features and so without the
\* placeholders; a path that ends nowhere recurses until Python gives up.
LookupRef(parts, ev, f) ==
    IF parts \in DOMAIN f.named THEN f.named[parts]
    ELSE IF Known(Rewrite(parts)) THEN Walk(Rewrite(parts), ev)
    ELSE None

-----------------------------------------------------------------------------
(* Functions.                                                              *)

Signals ==
    [goal_drift_detected |-> "goal_drift", scope_expansion_detected |-> "scope_expansion",
     suspicious_exfil_pattern |-> "suspicious_exfil",
     high_entropy_payload_detected |-> "high_entropy_payload",
     goal_changed_from_initial |-> "goal_changed"]

Plain ==
    DOMAIN Signals \cup
    {"whitelist", "upstream_contains_tool", "upstream_contains_any_tool",
     "derived_from_tool", "tool_sequence_matches", "trace", "path_length",
     "repeated_attempts", "distinct_targets", "starts_with", "ends_with", "contains",
     "subset", "any_in", "history_arg", "history_result", "history_args_match"}

Namespaced ==
    {<<<<"input">>, "has_label">>, <<<<"input">>, "has_any_label">>,
     <<<<"caller">>, "scope_missing">>, <<<<"tool">>, "has_tag">>,
     <<<<"url">>, "domain">>, <<<<"url">>, "is_external">>, <<<<"email">>, "domain">>}

\* _FUNC_TABLE.get(key) or _FUNC_TABLE.get(("", name))
Handled(func) == <<func.ns, func.name>> \in Namespaced \/ func.name \in Plain

\* What str makes of an argument that is not evaluated: of a path or a call it
\* is the text of the syntax tree, which names nothing.
Raw(a) == IF a[1] \in {"str", "num"} THEN a ELSE Text(<<"repr">>)

\* The strings among the arguments, the items of a set literal one by one.
Spread(args) ==
    FoldLeft(LAMBDA seq, a : IF a[1] = "list" THEN seq \o a[2] ELSE Append(seq, Raw(a)),
             <<>>, args)

RECURSIVE Subsequence(_, _)
Subsequence(wanted, tools) ==
    CASE wanted = <<>> -> TRUE
      [] wanted # <<>> /\ tools = <<>> -> FALSE
      [] OTHER -> Subsequence(IF Head(wanted) = Head(tools) THEN Tail(wanted) ELSE wanted,
                              Tail(tools))

\* The entries of the rich trace for a tool, the newest last.
EntriesOf(tool, f) == SelectSeq(f.rich, LAMBDA e : e.tool = tool)

\* The host of a "url" or of an "email" address, as its labels.
Host(kind, v) ==
    IF v[1] = "str" /\ v[2] \in DOMAIN HostOf[kind] THEN HostOf[kind][v[2]] ELSE <<>>

\* _f_url_is_external
IsExternal(url, internal) ==
    /\ Host("url", url) # <<>>
    /\ ~\E d \in internal : d[2] # <<>> /\ IsSuffix(d[2], Host("url", url))

\* _f_subset and _f_any_in, which treat a single value as `in`.
Quantified(members, container, all) ==
    /\ members # None /\ Collection(container)
    /\ IF Collection(members)
       THEN IF all THEN Elements(members) \subseteq Elements(container)
                   ELSE Elements(members) \cap Elements(container) # {}
       ELSE members \in Elements(container)

\* A keyword argument, or the first positional one.
Keyed(func, key) ==
    IF key \in DOMAIN func.kwargs THEN func.kwargs[key]
    ELSE IF func.args # <<>> THEN func.args[1] ELSE None

\* _f_trace: the tools of the trace and the one being called.
TraceAnswer(args, ev, f) ==
    args # <<>> /\ TracePatternMatches(args[1][2], Append(f.sequence, ev.tool))

\* _f_starts_with, _f_ends_with and _f_contains_func
StringAnswer(name, a, b) ==
    LET strings == a[1] = "str" /\ b[1] = "str" IN
    CASE name = "starts_with" -> strings /\ IsPrefix(b[2], a[2])
      [] name = "ends_with" -> strings /\ IsSuffix(b[2], a[2])
      [] name = "contains" -> ContainsValue(a, b) = "yes"

\* _f_history_arg, _f_history_result and _f_history_args_match: the last call
\* of a tool that the trace remembers.
HistoryAnswer(name, args, f) ==
    LET entries == EntriesOf(args[1], f)
        param == IF args[2][1] = "str" THEN Get(Last(entries).args, args[2][2][1]) ELSE None
        lacking == CASE name = "history_arg" -> Len(args) < 2
                     [] name = "history_result" -> args = <<>>
                     [] name = "history_args_match" -> Len(args) < 3
    IN IF name = "history_args_match" THEN Bool(~lacking /\ entries # <<>> /\ param = args[3])
       ELSE IF lacking \/ entries = <<>> THEN None
       ELSE IF name = "history_arg" THEN param ELSE Last(entries).result

\* The handlers; some take their arguments as they are written, some by their
\* values.  One that lacks an argument answers no, nothing or the empty set.
Handler(func, args, ev, f) ==
    LET name == func.name
        n == Len(args)
        raw == Spread(func.args)
        first == IF n = 0 THEN None ELSE Raw(func.args[1])
        previous == ToSet(f.previous)
        named(key) == IF key \in DOMAIN f.named THEN f.named[key] ELSE None
        collection(key) == IF Collection(named(key)) THEN Elements(named(key)) ELSE {}
        source == Raw(Keyed(func, "source"))
    IN
    CASE name = "whitelist" ->
            <<"set", IF n = 0 THEN {}
                     ELSE IF named(<<"allowlist">> \o first[2]) # None
                     THEN collection(<<"allowlist">> \o first[2])
                     ELSE IF first \in DOMAIN ev.allowlists THEN ev.allowlists[first]
                     ELSE {}>>
      [] name \in {"upstream_contains_tool", "derived_from_tool"} ->
            Bool(first \in previous)
      [] name = "upstream_contains_any_tool" -> Bool(ToSet(raw) \cap previous # {})
      [] name = "tool_sequence_matches" ->
            Bool(n > 0 /\ Subsequence(raw, Append(Reverse(f.previous), Text(ev.tool))))
      [] name = "path_length" ->
            Num(IF source \in previous
                THEN Min({i \in DOMAIN f.previous : f.previous[i] = source}) ELSE 0)
      [] name = "repeated_attempts" ->
            LET tool == Keyed(func, "tool") IN
            Num(Len(SelectSeq(f.previous, LAMBDA t : t = tool))
                + (IF tool = Text(ev.tool) THEN 1 ELSE 0))
      [] name = "distinct_targets" -> Num(Cardinality(f.targets))
      [] name \in DOMAIN Signals -> Bool(Signals[name] \in f.signals)
      [] name = "has_label" -> Bool(n > 0 /\ LabelMatches(first, f.labels))
      [] name = "has_any_label" -> Bool(\E p \in ToSet(raw) : LabelMatches(p, f.labels))
      [] name = "scope_missing" -> Bool(n > 0 /\ first \notin ev.scope)
      [] name = "has_tag" -> Bool(n > 0 /\ first \in collection(<<"tool", "tags">>))
      [] name = "domain" -> Text(IF n = 0 THEN <<>> ELSE Host(func.ns[1], args[1]))
      [] name = "is_external" ->
            Bool(n > 0 /\ IsExternal(args[1], collection(<<"allowlist", "internal_domains">>)))
      [] name \in {"subset", "any_in"} ->
            Bool(n > 1 /\ Quantified(args[1], args[2], name = "subset"))
      [] name \in {"starts_with", "ends_with", "contains"} ->
            Bool(n > 1 /\ StringAnswer(name, args[1], args[2]))
      [] name = "trace" -> Bool(TraceAnswer(args, ev, f))
      [] name \in {"history_arg", "history_result", "history_args_match"} ->
            HistoryAnswer(name, args, f)

RECURSIVE Evaluated(_, _, _, _)

\* _call_func and _evaluate_arg: a function nobody handles is False.
Call(func, ev, f, bound) ==
    IF Handled(func)
    THEN Handler(func, [i \in DOMAIN func.args |-> Evaluated(func.args[i], ev, f, bound)],
                 ev, f)
    ELSE Bool(FALSE)

Evaluated(v, ev, f, bound) ==
    CASE v[1] = "path" -> Resolve(v[2], ev, f, bound)
      [] v[1] = "func" -> Call(v[2], ev, f, bound)
      [] v[1] = "list" -> <<"set", ToSet(v[2])>>
      [] OTHER -> v

-----------------------------------------------------------------------------
(* Conditions and rules.                                                   *)

Capitals == {"UNFILTERED", "EXTERNAL"}

\* resolve_value: a word in capitals is a string in small letters.
RightSide(v, ev, f, bound) ==
    CASE v[1] = "path" ->
            IF Len(v[2]) = 1 /\ v[2][1] \in Capitals \ DOMAIN bound
            THEN Text(<<Lower(v[2][1])>>)
            ELSE LookupRef(v[2], ev, f)
      [] OTHER -> Evaluated(v, ev, f, bound)

\* _exists_path_eval: the feature computed beforehand, under a key that the
\* paths of one rule share, or else the labels.
ExistsPathHolds(labels, rule_id, f) ==
    IF rule_id \in DOMAIN f.paths THEN f.paths[rule_id]
    ELSE \E p \in ToSet(labels) : LabelMatches(p, f.labels)

RECURSIVE Holds(_, _, _, _, _)

\* _compile_expr, applied; and and or stop at the side that decides.
Holds(e, rule_id, ev, f, bound) ==
    LET Part(k) == Holds(e[k], rule_id, ev, f, bound) IN
    CASE e[1] = "true" -> "yes"
      [] e[1] = "AND" -> IF Part(2) = "yes" THEN Part(3) ELSE Part(2)
      [] e[1] = "OR" -> IF Part(2) = "no" THEN Part(3) ELSE Part(2)
      [] e[1] = "not" -> Opposite(Part(2))
      [] e[1] = "cmp" -> Apply(e[3], Evaluated(e[2], ev, f, bound), RightSide(e[4], ev, f, bound))
      [] e[1] = "call" -> Answer(Truthy(Evaluated(e[2], ev, f, bound)))
      [] e[1] = "exists" -> Answer(ExistsPathHolds(e[2], rule_id, f))

\* The current call as an entry: it has no result yet.
Current(ev) ==
    [tool |-> Text(ev.tool), args |-> Dict(ev.args), result |-> None, label |-> Dict(ev.label)]

NoBindings == [name \in {} |-> None]

\* CompiledRule.predicate, with _wrap_trace_predicate around it when the rule
\* has a TRACE clause.
Predicate(rule, ev, f) ==
    IF rule.trace = <<>> THEN Holds(rule.expr, rule.rule_id, ev, f, NoBindings)
    ELSE LET rich == Append(f.rich, Current(ev))
             chains == Chains(Seps(rule), Len(rich))
         IN IF chains = {} THEN "no"
            ELSE Holds(rule.expr, rule.rule_id, ev, f,
                       BoundBy(rule.trace, Chosen(chains), rich))

\* CompiledRule.matches_tool, by fnmatch.
MatchesTool(pattern, tool) ==
    IF Last(pattern) = "*"
    THEN Len(tool) >= Len(pattern) /\ IsPrefix(Front(pattern), tool)
    ELSE pattern = tool

=============================================================================
