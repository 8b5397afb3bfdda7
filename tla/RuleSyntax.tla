----------------------------- MODULE RuleSyntax -----------------------------
(***************************************************************************)
(* The rule language: tokens, abstract syntax and the recursive-descent    *)
(* parser of policy/dsl/parser.py.                                         *)
(*                                                                         *)
(* A text is a sequence of tokens that ends with EOF; how characters make  *)
(* tokens is left out.  A token is a tuple <<kind, value>>, a literal      *)
(* <<"str", atoms>> or <<"num", n>>; a string is a sequence of atoms, and  *)
(* a dotted name is one too.  A parser takes the tokens and a position and *)
(* returns what it read with the position after it; position 0 stands for  *)
(* the RuleCompileError that ends the whole parse.                         *)
(***************************************************************************)
EXTENDS Integers, SequencesExt

EOF == <<"EOF">>
KW(word) == <<"KW", word>>
PUNC(mark) == <<"PUNC", mark>>
IDENT(name) == <<"IDENT", name>>

\* str.upper of the identifiers that may stand for a keyword.
Capital ==
    [on |-> "ON", trace |-> "TRACE", condition |-> "CONDITION", policy |-> "POLICY",
     deny |-> "DENY", allow |-> "ALLOW", degrade |-> "DEGRADE"]

Upper(token) ==
    IF token[1] = "IDENT" /\ token[2] \in DOMAIN Capital
    THEN KW(Capital[token[2]])
    ELSE token

\* str.lower of the words that may be a metadata key or an enumeration value.
Small ==
    [Severity |-> "severity", Category |-> "category", Reason |-> "reason",
     Prompt |-> "prompt", ON |-> "on", TRACE |-> "trace", CONDITION |-> "condition",
     POLICY |-> "policy", UNFILTERED |-> "unfiltered", EXTERNAL |-> "external"]

Lower(word) == IF word \in DOMAIN Small THEN Small[word] ELSE word

ActionKinds == {"DENY", "ALLOW", "HUMAN_CHECK", "LLM_CHECK", "DEGRADE"}

-----------------------------------------------------------------------------
(* Reading tokens.                                                         *)

Done(value, i) == [v |-> value, i |-> i]
Error == [v |-> "RuleCompileError", i |-> 0]

\* One parser after another.
Then(read, Next(_, _)) == IF read.i = 0 THEN Error ELSE Next(read.v, read.i)

\* eat, of one token and of a kind
Eat(t, i, token) == IF t[i] = token THEN Done(token, i + 1) ELSE Error
EatKind(t, i, kind) == IF t[i][1] = kind THEN Done(t[i][2], i + 1) ELSE Error

\* _v3_accept_key, without consuming: a keyword in any case, and a colon.
AtKey(t, i, key) == Upper(t[i]) = KW(key) /\ t[i + 1] = PUNC(":")

\* dict[key] = value, in order: a key given twice keeps its last value.
DictOf(pairs) ==
    [key \in {pairs[n][2] : n \in DOMAIN pairs} |->
        LET last == CHOOSE n \in DOMAIN pairs :
                        /\ pairs[n][2] = key
                        /\ \A m \in DOMAIN pairs : pairs[m][2] = key => m <= n
        IN pairs[last][3]]

RECURSIVE Dotted(_, _, _, _)
RECURSIVE PathOrFunc(_, _)
RECURSIVE ExistsPath(_, _)
RECURSIVE Comparison(_, _)
RECURSIVE Atom(_, _)
RECURSIVE Item(_, _, _)
RECURSIVE Enclosed(_, _, _, _)
RECURSIVE Items(_, _, _, _)
RECURSIVE Value(_, _)
RECURSIVE Disjunction(_, _)
RECURSIVE Negation(_, _)
RECURSIVE Rest(_, _, _, _)
RECURSIVE TraceSteps(_, _, _, _)
RECURSIVE Meta(_, _, _)
RECURSIVE Rules(_, _, _)

\* ("." IDENT)*, where a pattern may end with a star.
Dotted(t, i, parts, star) ==
    IF t[i] # PUNC(".") THEN Done(parts, i)
    ELSE IF star /\ t[i + 1] = PUNC("*") THEN Done(Append(parts, "*"), i + 2)
    ELSE Then(EatKind(t, i + 1, "IDENT"),
              LAMBDA name, j : Dotted(t, j, Append(parts, name), star))

DottedName(t, i) ==
    Then(EatKind(t, i, "IDENT"), LAMBDA name, j : Dotted(t, j, <<name>>, FALSE))

-----------------------------------------------------------------------------
(* Values and calls.                                                       *)

Pair(t, i, key) ==
    Then(Eat(t, i, PUNC("=")),
         LAMBDA eq, j : Then(Value(t, j), LAMBDA v, k : Done(<<"pair", key, v>>, k)))

\* What stands between the commas of a set, of a call's arguments, of an
\* obligation's or of exists_path's, and of the obligations of an action.
Item(what, t, i) ==
    CASE what = "member" ->
            IF t[i][1] = "STRING" THEN Done(<<"str", t[i][2]>>, i + 1)
            ELSE Then(EatKind(t, i, "IDENT"),
                      LAMBDA name, j : Done(<<"str", <<name>>>>, j))
      [] what = "argument" ->
            IF t[i][1] = "IDENT" /\ t[i + 1] = PUNC("=")
            THEN Pair(t, i + 1, t[i][2])
            ELSE Value(t, i)
      [] what = "parameter" ->
            Then(EatKind(t, i, "IDENT"), LAMBDA key, j : Pair(t, j, key))
      [] what = "path" ->
            Then(DottedName(t, i), LAMBDA key, j :
                IF key \in {<<"source_label">>, <<"source", "label">>}
                THEN Then(Eat(t, j, KW("IN")), LAMBDA word, k :
                         IF t[k] = PUNC("{")
                         THEN Then(Value(t, k),
                                   LAMBDA v, m : Done(<<"pair", "labels", v>>, m))
                         ELSE Error)
                ELSE Pair(t, j, key[1]))
      [] what = "obligation" ->
            Then(EatKind(t, i, "IDENT"), LAMBDA kind, j :
                Then(Eat(t, j, PUNC("(")), LAMBDA open, k :
                    IF t[k] = PUNC(")")
                    THEN Done([kind |-> kind, args |-> DictOf(<<>>)], k + 1)
                    ELSE Then(Items("parameter", t, k, <<>>), LAMBDA ps, m :
                             Then(Eat(t, m, PUNC(")")), LAMBDA close, n :
                                 Done([kind |-> kind, args |-> DictOf(ps)], n)))))

Items(what, t, i, before) ==
    Then(Item(what, t, i), LAMBDA item, j :
        IF t[j] = PUNC(",")
        THEN Items(what, t, j + 1, Append(before, item))
        ELSE Done(Append(before, item), j))

\* A list of items up to a closing mark, possibly empty.
Enclosed(what, t, i, close) ==
    IF t[i] = PUNC(close) THEN Done(<<>>, i + 1)
    ELSE Then(Items(what, t, i, <<>>), LAMBDA items, j :
             Then(Eat(t, j, PUNC(close)), LAMBDA mark, k : Done(items, k)))

\* _parse_path_or_func
PathOrFunc(t, i) ==
    Then(DottedName(t, i), LAMBDA parts, j :
        IF t[j] # PUNC("(") THEN Done(<<"path", parts>>, j)
        ELSE Then(Enclosed("argument", t, j + 1, ")"), LAMBDA items, k :
                 Done(<<"func", [ns |-> Front(parts), name |-> Last(parts),
                                 args |-> SelectSeq(items, LAMBDA x : x[1] # "pair"),
                                 kwargs |-> DictOf(SelectSeq(items,
                                                LAMBDA x : x[1] = "pair"))]>>, k)))

\* _parse_value; true and false are 1 and 0, a set literal is its items.
Value(t, i) ==
    CASE t[i][1] = "STRING" -> Done(<<"str", t[i][2]>>, i + 1)
      [] t[i][1] = "NUMBER" -> Done(<<"num", t[i][2]>>, i + 1)
      [] t[i] \in {KW("true"), KW("TRUE")} -> Done(<<"num", 1>>, i + 1)
      [] t[i] \in {KW("false"), KW("FALSE")} -> Done(<<"num", 0>>, i + 1)
      [] t[i] = PUNC("{") ->
            Then(Enclosed("member", t, i + 1, "}"),
                 LAMBDA items, j : Done(<<"list", items>>, j))
      [] t[i][1] = "IDENT" -> PathOrFunc(t, i)
      [] OTHER -> Error

-----------------------------------------------------------------------------
(* Conditions.                                                             *)

\* _parse_exists_path; sink and over are read and not used.
ExistsPath(t, i) ==
    Then(Eat(t, i, PUNC("(")), LAMBDA open, j :
        Then(Items("path", t, j, <<>>), LAMBDA pairs, k :
            Then(Eat(t, k, PUNC(")")), LAMBDA close, m :
                LET given == DictOf(pairs) IN
                Done(<<"exists", IF "labels" \in DOMAIN given THEN given["labels"][2]
                                                              ELSE <<>>>>, m))))

\* _parse_bare_or_compare
Comparison(t, i) ==
    Then(PathOrFunc(t, i), LAMBDA left, j :
        LET Against(op, k) == Then(Value(t, k),
                                LAMBDA v, m : Done(<<"cmp", left, op, v>>, m))
        IN CASE t[j] \in {KW("IN"), KW("MATCHES"), KW("CONTAINS")} -> Against(t[j][2], j + 1)
             [] t[j] = KW("NOT") -> Then(Eat(t, j + 1, KW("IN")),
                                         LAMBDA word, k : Against("NOT_IN", k))
             [] t[j][1] = "OP" -> Against(t[j][2], j + 1)
             [] OTHER -> IF left[1] = "func" THEN Done(<<"call", left>>, j) ELSE Error)

\* _parse_atom
Atom(t, i) ==
    IF t[i] = PUNC("(")
    THEN Then(Disjunction(t, i + 1), LAMBDA e, j :
             Then(Eat(t, j, PUNC(")")), LAMBDA close, k : Done(e, k)))
    ELSE IF \/ t[i] = KW("EXISTS_PATH")
            \/ t[i] = IDENT("exists_path") /\ t[i + 1] = PUNC("(")
    THEN ExistsPath(t, i + 1)
    ELSE Comparison(t, i)

\* _parse_not
Negation(t, i) ==
    IF t[i] = KW("NOT")
    THEN Then(Negation(t, i + 1), LAMBDA e, j : Done(<<"not", e>>, j))
    ELSE Atom(t, i)

\* Mutant: OR binds as tightly as AND.
Rest_Flat(word, t, i, left) ==
    IF t[i] \in {KW("AND"), KW("OR")}
    THEN Then(Negation(t, i + 1), LAMBDA e, j : Rest(word, t, j, <<t[i][2], left, e>>))
    ELSE Done(left, i)

\* The loops of _parse_or and _parse_and: operators of a kind nest to the left.
Rest(word, t, i, left) ==
    IF t[i] # KW(word) THEN Done(left, i)
    ELSE Then(IF word = "AND" THEN Negation(t, i + 1)
              ELSE Then(Negation(t, i + 1), LAMBDA e, j : Rest("AND", t, j, e)),
              LAMBDA e, j : Rest(word, t, j, <<word, left, e>>))

\* _parse_expr
Disjunction(t, i) ==
    Then(Negation(t, i), LAMBDA e, j :
        Then(Rest("AND", t, j, e), LAMBDA left, k : Rest("OR", t, k, left)))

-----------------------------------------------------------------------------
(* Clauses.                                                                *)

\* _parse_tool_pattern
ToolPattern(t, i) ==
    IF t[i] = PUNC("*") THEN Done(<<"*">>, i + 1)
    ELSE Then(EatKind(t, i, "IDENT"), LAMBDA name, j : Dotted(t, j, <<name>>, TRUE))

\* _parse_event_match
EventMatch(t, i) ==
    LET InParentheses(j, subtype) ==
            Then(ToolPattern(t, j), LAMBDA pattern, k :
                Then(Eat(t, k, PUNC(")")),
                     LAMBDA close, m : Done(<<pattern, subtype>>, m)))
    IN Then(Eat(t, i, IDENT("tool_call")), LAMBDA call, j :
           IF t[j] = PUNC(".")
           THEN Then(EatKind(t, j + 1, "IDENT"), LAMBDA subtype, k :
                    IF t[k] = PUNC("(") THEN InParentheses(k + 1, subtype)
                    ELSE Done(<<<<"*">>, subtype>>, k))
           ELSE Then(Eat(t, j, PUNC("(")),
                     LAMBDA open, k : InParentheses(k, "")))

\* _try_consume_gap: the operator that starts here, and its length.
Gap(t, i) ==
    LET Dots == /\ i + 2 <= Len(t)
                /\ \A k \in i .. i + 2 : t[k] = PUNC(".")
    IN CASE t[i] = PUNC("*") -> <<"*", 1>>
         [] Dots /\ t[i + 3] = PUNC("?") -> <<"...?", 4>>
         [] Dots /\ t[i + 3] # PUNC("?") -> <<"...", 3>>
         [] OTHER -> <<"", 0>>

\* _parse_trace_clause; a step carries the separator that leads to it, "" the
\* first one and "->" one without a gap.
TraceSteps(t, i, gap, steps) ==
    IF t[i][1] \notin {"IDENT", "KW"}
    THEN IF steps = <<>> THEN Error ELSE Done(steps, i)
    ELSE Then(EatKind(t, i, "IDENT"), LAMBDA name, j :
             LET now == Append(steps, [name |-> name, sep |-> gap])
                 found == Gap(t, j + 1)
             IN IF t[j] # PUNC("->") THEN Done(now, j)
                ELSE IF found[2] = 0 THEN TraceSteps(t, j + 1, "->", now)
                ELSE Then(Eat(t, j + 1 + found[2], PUNC("->")),
                          LAMBDA arrow, k : TraceSteps(t, k, found[1], now)))

\* _parse_action
Action(t, i) ==
    LET kind == Upper(t[i])[2]
        Obliged(profile, j) ==
            IF t[j] = KW("WITH") /\ t[j + 1][1] = "IDENT" /\ t[j + 2] = PUNC("(")
            THEN Then(Items("obligation", t, j + 1, <<>>), LAMBDA obs, k :
                     Done([kind |-> kind, profile |-> profile, obligations |-> obs], k))
            ELSE Done([kind |-> kind, profile |-> profile, obligations |-> <<>>], j)
    IN IF Upper(t[i])[1] # "KW" \/ kind \notin ActionKinds THEN Error
       ELSE IF kind # "DEGRADE" THEN Obliged(<<>>, i + 1)
       ELSE IF t[i + 1] = KW("TO")
            THEN Then(EatKind(t, i + 2, "STRING"), LAMBDA name, j : Obliged(name, j))
            ELSE Then(Eat(t, i + 1, PUNC("(")), LAMBDA open, j :
                     Then(DottedName(t, j), LAMBDA name, k :
                         Then(Eat(t, k, PUNC(")")),
                              LAMBDA close, m : Obliged(name, m))))

\* _parse_v3_meta: every `key: value` up to the next rule is metadata.
Meta(t, i, pairs) ==
    IF t[i] = KW("RULE") \/ t[i][1] \notin {"IDENT", "KW"} \/ t[i + 1] # PUNC(":")
    THEN Done(DictOf(pairs), i)
    ELSE Then(Value(t, i + 2), LAMBDA v, j :
             LET plain == IF v[1] = "path" /\ Len(v[2]) = 1 THEN <<"str", v[2]>> ELSE v
             IN Meta(t, IF t[j] = PUNC(",") THEN j + 1 ELSE j,
                     Append(pairs, <<"pair", Lower(t[i][2]), plain>>)))

\* An optional clause: its default when the key is not there.
Clause(t, i, key, default, Read(_, _)) ==
    IF AtKey(t, i, key) THEN Read(t, i + 2) ELSE Done(default, i)

\* _v3_require_key("POLICY")
Policy(t, i) == IF AtKey(t, i, "POLICY") THEN Action(t, i + 2) ELSE Error

\* parse_rule, its first line and its clauses ON, TRACE and CONDITION, in order
Named(t, i) ==
    Then(Eat(t, i, KW("RULE")), LAMBDA rule, j :
    Then(Eat(t, j, PUNC(":")), LAMBDA colon, k : EatKind(t, k, "IDENT")))

Matched(t, i) ==
    Then(Clause(t, i, "ON", <<<<"*">>, "">>, EventMatch), LAMBDA on, j :
    Then(Clause(t, j, "TRACE", <<>>, LAMBDA s, n : TraceSteps(s, n, "", <<>>)),
         LAMBDA trace, k :
    Then(Clause(t, k, "CONDITION", <<"true">>, Disjunction), LAMBDA expr, m :
         Done([on |-> on, trace |-> trace, expr |-> expr], m))))

\* parse_rule: then its policy and its metadata.
Rule(t, i) ==
    Then(Named(t, i), LAMBDA id, j :
    Then(Matched(t, j), LAMBDA when, k :
    Then(Policy(t, k), LAMBDA action, m :
    Then(Meta(t, m, <<>>), LAMBDA meta, n :
        Done([rule_id |-> id, pattern |-> when.on[1], subtype |-> when.on[2],
              trace |-> when.trace, expr |-> when.expr, action |-> action,
              meta |-> meta], n)))))

\* parse_rules
Rules(t, i, before) ==
    IF t[i] = EOF THEN Done(before, i)
    ELSE Then(Rule(t, i), LAMBDA rule, j : Rules(t, j, Append(before, rule)))

ParseRules(t) == Rules(t, 1, <<>>)

-----------------------------------------------------------------------------
(* The block of text that goes with a rule.                                *)

=============================================================================
