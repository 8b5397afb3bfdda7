---------------------------- MODULE RuleChecker ----------------------------
(***************************************************************************)
(* policy/dsl/validator.py: what `agentguard check` and the API say of a   *)
(* text of rules before anybody loads it.                                  *)
(*                                                                         *)
(* A diagnostic is a tuple <<level, rule id, subject>>; the wording of the *)
(* message, the suggestion and the line it guesses are left out, and the   *)
(* report is the set of its diagnostics with the number of rules.          *)
(***************************************************************************)
EXTENDS RuleSemantics

FileLevel == "file"

KnownPrefixes ==
    {"tool", "caller", "principal", "target", "input", "event", "session", "allowlist"}

KnownFunctions ==
    {"trace", "exists_path", "upstream_contains_tool", "upstream_contains_any_tool",
     "derived_from_tool", "tool_sequence_matches", "goal_drift_detected",
     "scope_expansion_detected", "suspicious_exfil_pattern",
     "high_entropy_payload_detected", "goal_changed_from_initial", "repeated_attempts",
     "whitelist", "history_arg", "history_result", "history_args_match"}

PlaceholderFields ==
    {"name", "integrity", "sensitivity", "boundary", "result", "tags"}

\* The values of the labels of a tool that have a fixed set of them.
Enumerated ==
    [boundary |-> {"internal", "external", "privileged"},
     sensitivity |-> {"low", "moderate", "high"},
     integrity |-> {"trusted", "unfiltered"}]

EnumWords == (UNION {Enumerated[field] : field \in DOMAIN Enumerated}) \cup {"none"}

Roles == {"basic", "default", "privileged", "system"}

Severities == {"critical", "high", "medium", "low", "info"}

Only(condition, diagnostic) == IF condition THEN {diagnostic} ELSE {}

-----------------------------------------------------------------------------

\* The words a value gives to compare with: a string, a bare word, or the items
\* of a set.
WordsOf(v) ==
    CASE v[1] = "str" -> {v[2]}
      [] v[1] = "path" /\ Len(v[2]) = 1 -> {v[2]}
      [] v[1] = "list" -> {item[2] : item \in ToSet(v[2])}
      [] OTHER -> {}

\* str.lower of a word of one atom.
LowerWord(word) == IF Len(word) = 1 THEN <<Lower(word[1])>> ELSE word

\* _check_path, of the left side of a comparison.
CheckPath(parts, op, value, names) ==
    LET prefix == parts[1]
        field == IF Len(parts) >= 2 THEN parts[2] ELSE ""
    IN CASE prefix \in names ->
                Only(Len(parts) < 2, <<"warning", "placeholder without a field">>)
                \cup Only(Len(parts) = 2 /\ Lower(field) \notin PlaceholderFields,
                          <<"hint", "placeholder argument">>)
         [] prefix \notin names /\ prefix = "tool" ->
                Only(/\ field \in DOMAIN Enumerated
                     /\ \E word \in WordsOf(value) :
                            LowerWord(word) \notin {<<w>> : w \in Enumerated[field]},
                     <<"warning", "not a value of the field">>)
         [] prefix \notin names /\ prefix \in {"caller", "principal"} ->
                Only(/\ field = "role" /\ op = "==" /\ value[1] # "list"
                     /\ \E word \in WordsOf(value) : word \notin {<<r>> : r \in Roles},
                     <<"hint", "unusual role">>)
         [] prefix \notin names /\ prefix = "allowlist" ->
                Only(Len(parts) < 2, <<"warning", "allowlist without a key">>)
         [] OTHER ->
                Only(prefix \notin KnownPrefixes, <<"warning", "unknown prefix">>)

\* _check_func; a pattern string that is not well formed is the empty one.
CheckFunc(func, names) ==
    LET n == Len(func.args)
        first == func.args[1]
        plain == func.ns = <<>>
        labels == func.ns = <<"input">> /\ func.name \in {"has_label", "has_any_label"}
        scope == func.ns \in {<<"caller">>, <<"principal">>} /\ func.name = "scope_missing"
        history == func.name \in {"history_arg", "history_result"}
        arguments ==
            CASE func.name \in {"history_arg", "history_args_match"} -> 2
              [] func.name = "history_result" -> 1
              [] func.name = "trace" /\ plain -> 1
              [] OTHER -> 0
    IN Only(/\ history /\ plain /\ names # {} /\ n > 0
            /\ first[1] = "str" /\ first[2] # <<>>,
            <<"warning", "history in a TRACE rule">>)
       \cup Only((labels \/ scope) /\ n = 0, <<"warning", "no arguments">>)
       \cup Only(n < arguments, <<"error", "too few arguments">>)
       \cup Only(func.name = "trace" /\ plain /\ n > 0 /\ first = Text(<<>>),
                 <<"error", "invalid pattern">>)
       \cup Only(plain /\ func.name \notin KnownFunctions \cup {"EXISTS_PATH"},
                 <<"warning", "unknown function">>)

\* _check_compare
CheckCompare(e, names) ==
    (IF e[2][1] = "path" THEN CheckPath(e[2][2], e[3], e[4], names)
                         ELSE CheckFunc(e[2][2], names))
    \cup Only(/\ e[4][1] = "path" /\ Len(e[4][2]) = 1
              /\ Lower(e[4][2][1]) \in EnumWords,
              <<"hint", "bare word">>)
    \cup (IF e[4][1] = "func" THEN CheckFunc(e[4][2], names) ELSE {})

RECURSIVE CheckExpr(_, _)

\* Mutant: what is negated is not looked at.
CheckExpr_Negated(e, names) ==
    CASE e[1] \in {"true", "not"} -> {}
      [] e[1] \in {"AND", "OR"} -> CheckExpr(e[2], names) \cup CheckExpr(e[3], names)
      [] e[1] = "cmp" -> CheckCompare(e, names)
      [] e[1] = "call" -> CheckFunc(e[2][2], names)
      [] e[1] = "exists" -> Only(e[2] = <<>>, <<"warning", "path without a label">>)

\* _check_expr
CheckExpr(e, names) ==
    CASE e[1] = "true" -> {}
      [] e[1] \in {"AND", "OR"} -> CheckExpr(e[2], names) \cup CheckExpr(e[3], names)
      [] e[1] = "not" -> CheckExpr(e[2], names)
      [] e[1] = "cmp" -> CheckCompare(e, names)
      [] e[1] = "call" -> CheckFunc(e[2][2], names)
      [] e[1] = "exists" -> Only(e[2] = <<>>, <<"warning", "path without a label">>)

-----------------------------------------------------------------------------

\* _check_rule with _check_trace_clause; again says whether an earlier rule of
\* the text has this rule's id.
CheckRule(rule, again) ==
    LET names == {rule.trace[k].name : k \in DOMAIN rule.trace}
        meta == rule.meta
        prompt == "prompt" \in DOMAIN meta /\ meta["prompt"] # Text(<<>>)
        found ==
            Only(again, <<"warning", "duplicate id">>)
            \cup Only(Cardinality(names) < Len(rule.trace),
                      <<"warning", "duplicate placeholder">>)
            \cup CheckExpr(rule.expr, names)
            \cup Only("severity" \notin DOMAIN meta, <<"hint", "no severity">>)
            \cup Only(/\ "severity" \in DOMAIN meta
                      /\ ~\E s \in Severities :
                             /\ meta["severity"][1] = "str"
                             /\ LowerWord(meta["severity"][2]) = <<s>>,
                      <<"warning", "unknown severity">>)
            \cup Only("category" \notin DOMAIN meta, <<"hint", "no category">>)
            \cup Only(rule.action.kind = "DEGRADE" /\ rule.action.profile = <<>>,
                      <<"error", "no profile">>)
            \cup Only(rule.action.kind = "LLM_CHECK", <<"hint", "needs a model">>)
            \cup Only(rule.action.kind # "LLM_CHECK" /\ prompt, <<"warning", "unused prompt">>)
            \cup Only(rule.trace # <<>> /\ rule.expr = <<"true">>,
                      <<"hint", "TRACE without CONDITION">>)
    IN {<<d[1], rule.rule_id, d[2]>> : d \in found}

\* _check_file_level
CheckFile(rules) ==
    Only(rules = <<>>, <<"warning", FileLevel, "no rules">>)
    \cup Only(/\ Len(rules) > 5
              /\ \A k \in DOMAIN rules : rules[k].action.kind # "DENY",
              <<"hint", FileLevel, "no DENY rules">>)

\* validate_source, of what the parser made of the text
Diagnosed(read) ==
    LET rules == read.v
        Again(k) == \E m \in 1 .. k - 1 : rules[m].rule_id = rules[k].rule_id
    IN IF read.i = 0
       THEN [rule_count |-> 0, diagnostics |-> {<<"error", FileLevel, "parse error">>}]
       ELSE [rule_count |-> Len(rules),
             diagnostics |-> UNION {CheckRule(rules[k], Again(k)) : k \in DOMAIN rules}
                             \cup CheckFile(rules)]

Validate(tokens) == Diagnosed(ParseRules(tokens))

=============================================================================
