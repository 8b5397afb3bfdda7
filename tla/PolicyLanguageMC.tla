-------------------------- MODULE PolicyLanguageMC --------------------------
(***************************************************************************)
(* The texts, calls and bounds TLC checks PolicyLanguage with.  Most texts *)
(* are written out from rules, so that the rules they mean are known; the  *)
(* others are written token by token.                                      *)
(***************************************************************************)
EXTENDS PolicyLanguage

-----------------------------------------------------------------------------
(* Writing rules.                                                          *)

RECURSIVE ShowValue(_)
RECURSIVE ShowExpr(_, _)

Between(parts, mark) ==
    FoldLeft(LAMBDA before, p : IF before = <<>> THEN p ELSE before \o <<PUNC(mark)>> \o p,
             <<>>, parts)

ShowName(parts) ==
    Between([n \in DOMAIN parts |->
                IF parts[n] = "*" THEN <<PUNC("*")>> ELSE <<IDENT(parts[n])>>], ".")

ShowKeyed(f) ==
    LET keys == SetToSeq(DOMAIN f)
    IN [n \in DOMAIN keys |-> <<IDENT(keys[n]), PUNC("=")>> \o ShowValue(f[keys[n]])]

ShowCall(func) ==
    ShowName(Append(func.ns, func.name)) \o <<PUNC("(")>>
    \o Between([n \in DOMAIN func.args |-> ShowValue(func.args[n])] \o ShowKeyed(func.kwargs), ",")
    \o <<PUNC(")")>>

ShowValue(v) ==
    CASE v[1] = "str" -> <<<<"STRING", v[2]>>>>
      [] v[1] = "num" -> <<<<"NUMBER", v[2]>>>>
      [] v[1] = "path" -> ShowName(v[2])
      [] v[1] = "func" -> ShowCall(v[2])
      [] v[1] = "list" ->
            <<PUNC("{")>> \o Between([n \in DOMAIN v[2] |-> ShowValue(v[2][n])], ",")
            \o <<PUNC("}")>>

\* How tightly an expression binds.
Level(e) == CASE e[1] = "OR" -> 0 [] e[1] = "AND" -> 1 [] OTHER -> 2

ShowOp(op) ==
    CASE op \in {"IN", "MATCHES", "CONTAINS"} -> <<KW(op)>>
      [] op = "NOT_IN" -> <<KW("NOT"), KW("IN")>>
      [] OTHER -> <<<<"OP", op>>>>

ShowExpr(e, level) ==
    IF Level(e) < level THEN <<PUNC("(")>> \o ShowExpr(e, 0) \o <<PUNC(")")>>
    ELSE CASE e[1] \in {"AND", "OR"} ->
                ShowExpr(e[2], Level(e)) \o <<KW(e[1])>> \o ShowExpr(e[3], Level(e) + 1)
           [] e[1] = "not" -> <<KW("NOT")>> \o ShowExpr(e[2], 2)
           [] e[1] = "cmp" -> ShowValue(e[2]) \o ShowOp(e[3]) \o ShowValue(e[4])
           [] e[1] = "call" -> ShowValue(e[2])
           [] e[1] = "exists" ->
                <<KW("EXISTS_PATH"), PUNC("("), IDENT("source"), PUNC("."), IDENT("label"),
                  KW("IN")>> \o ShowValue(<<"list", e[2]>>) \o <<PUNC(")")>>

ShowGap(sep) ==
    CASE sep = "->" -> <<PUNC("->")>>
      [] sep = "*" -> <<PUNC("->"), PUNC("*"), PUNC("->")>>
      [] sep = "..." -> <<PUNC("->"), PUNC("."), PUNC("."), PUNC("."), PUNC("->")>>
      [] sep = "...?" ->
            <<PUNC("->"), PUNC("."), PUNC("."), PUNC("."), PUNC("?"), PUNC("->")>>
      [] OTHER -> <<>>

ShowClause(present, key, tokens) ==
    IF present THEN <<KW(key), PUNC(":")>> \o tokens ELSE <<>>

ShowAction(action) ==
    <<KW(action.kind)>>
    \o (IF action.profile = <<>> THEN <<>>
        ELSE <<PUNC("(")>> \o ShowName(action.profile) \o <<PUNC(")")>>)
    \o (IF action.obligations = <<>> THEN <<>>
        ELSE <<KW("WITH")>> \o Between([n \in DOMAIN action.obligations |->
                <<IDENT(action.obligations[n].kind), PUNC("(")>>
                \o Between(ShowKeyed(action.obligations[n].args), ",") \o <<PUNC(")")>>], ","))

ShowRule(rule) ==
    <<KW("RULE"), PUNC(":"), IDENT(rule.rule_id)>>
    \o ShowClause(rule.subtype # "" \/ rule.pattern # <<"*">>, "ON",
            <<IDENT("tool_call")>>
            \o (IF rule.subtype = "" THEN <<>> ELSE <<PUNC("."), IDENT(rule.subtype)>>)
            \o <<PUNC("(")>> \o ShowName(rule.pattern) \o <<PUNC(")")>>)
    \o ShowClause(rule.trace # <<>>, "TRACE",
            FlattenSeq([n \in DOMAIN rule.trace |->
                ShowGap(rule.trace[n].sep) \o <<IDENT(rule.trace[n].name)>>]))
    \o ShowClause(rule.expr # <<"true">>, "CONDITION", ShowExpr(rule.expr, 0))
    \o ShowClause(TRUE, "POLICY", ShowAction(rule.action))
    \o LET keys == SetToSeq(DOMAIN rule.meta) IN
       FlattenSeq([n \in DOMAIN keys |->
            <<IDENT(keys[n]), PUNC(":")>> \o ShowValue(rule.meta[keys[n]])])

Written(meant) ==
    [tokens |-> FlattenSeq([n \in DOMAIN meant |-> ShowRule(meant[n])]) \o <<EOF>>,
     meant |-> meant]

-----------------------------------------------------------------------------
(* Rules.                                                                  *)

Nothing_else == [name \in {} |-> None]

Act(kind) == [kind |-> kind, profile |-> <<>>, obligations |-> <<>>]

RuleOf(id, pattern, trace, expr, action) ==
    [rule_id |-> id, pattern |-> pattern, subtype |-> "", trace |-> trace, expr |-> expr,
     action |-> action, meta |-> Nothing_else]

Fn(ns, name, args) ==
    <<"func", [ns |-> ns, name |-> name, args |-> args, kwargs |-> Nothing_else]>>

Query == <<"db", "query">>
Send == <<"email", "send">>
Read == <<"file", "read">>

Path(parts) == <<"path", parts>>
Cmp(left, op, right) == <<"cmp", left, op, right>>
Step(name, sep) == [name |-> name, sep |-> sep]

\* Conditions of every shape up to two operators deep.
Leaves == {Cmp(Path(<<"tool", "id">>), "==", Num(0)),
           <<"call", Fn(<<>>, "upstream_contains_tool", <<Text(Query)>>)>>}
Shapes(inner, leaf) ==
    {<<"not", e>> : e \in inner}
    \cup {<<op, e, x>> : op \in {"AND", "OR"}, e \in inner, x \in leaf}
    \cup {<<op, x, e>> : op \in {"AND", "OR"}, e \in inner, x \in leaf}
Conditions == Shapes(Shapes(Leaves, Leaves), Leaves)

Shaped == {Written(<<RuleOf("shaped", <<"*">>, <<>>, e, Act("DENY"))>>) : e \in Conditions}

\* Five actions that contend for the same calls.
Contending == Written(<<
    [RuleOf("rewrite", Send, <<>>, <<"true">>,
            [kind |-> "DEGRADE", profile |-> <<"email", "draft">>,
             obligations |-> <<[kind |-> "REDACT",
                                args |-> [fields |-> <<"list", <<Text(<<"id">>)>>>>]]>>])
        EXCEPT !.subtype = "requested",
               !.meta = [severity |-> Text(<<"high">>), reason |-> Text(<<"drafts">>)]],
    RuleOf("untrusted", <<"*">>, <<>>,
           Cmp(Path(<<"principal", "trust_level">>), "<", Num(2)), Act("HUMAN_CHECK")),
    RuleOf("unfiltered", <<"db", "*">>, <<>>,
           Cmp(Path(<<"tool", "integrity">>), "==", Path(<<"UNFILTERED">>)), Act("DENY")),
    [RuleOf("outside", <<"*">>, <<>>,
            <<"call", Fn(<<"url">>, "is_external", <<Path(<<"tool", "url">>)>>)>>,
            Act("LLM_CHECK"))
        EXCEPT !.meta = [prompt |-> Text(<<"look">>)]],
    RuleOf("permitted", Query, <<>>, <<"true">>, Act("ALLOW"))>>)

\* A chain by a TRACE clause with each separator.
Chained(sep) == Written(<<
    RuleOf("chain", <<"*">>, <<Step("Src", ""), Step("Dst", sep)>>,
           <<"AND", Cmp(Path(<<"Src", "name">>), "==", Text(Query)),
                    Cmp(Path(<<"Dst", "boundary">>), "==", Text(<<"external">>))>>,
           Act("DENY"))>>)

\* trace() with each separator, and what it calls a sequence.
Pattern(sep) ==
    <<"str", <<[tool |-> Query, sep |-> ""], [tool |-> Send, sep |-> sep]>>>>

Traced == Written([n \in 1 .. 4 |->
    LET sep == <<"->", "*", "...", "...?">>[n] IN
    RuleOf(<<"adjacent", "one", "some", "any">>[n], <<"*">>, <<>>,
           <<"call", Fn(<<>>, "trace", <<Pattern(sep)>>)>>, Act("DENY"))])

\* Conditions on what happened before.
Historical == Written(<<
    RuleOf("restricted", Send, <<>>,
           Cmp(Fn(<<>>, "history_result", <<Text(Query)>>), "==", Text(<<"secret">>)),
           Act("DENY")),
    RuleOf("same", <<"*">>, <<>>,
           Cmp(Fn(<<>>, "history_arg", <<Text(Query), Text(<<"id">>)>>), "==",
               Path(<<"tool", "id">>)), Act("HUMAN_CHECK")),
    RuleOf("again", <<"*">>, <<>>,
           <<"OR", Cmp(<<"func", [ns |-> <<>>, name |-> "repeated_attempts", args |-> <<>>,
                                  kwargs |-> [tool |-> Text(Query)]]>>, ">=", Num(2)),
                   <<"call", Fn(<<>>, "tool_sequence_matches",
                                <<<<"list", <<Text(Query), Text(Send)>>>>>>)>>>>,
           Act("LLM_CHECK")),
    [RuleOf("finished", <<"*">>, <<>>,
            <<"AND", Cmp(Fn(<<>>, "path_length", <<Text(Query)>>), ">", Num(1)),
                     <<"not", <<"call", Fn(<<>>, "history_args_match",
                        <<Text(Query), Text(<<"id">>), Num(1)>>)>>>>>>, Act("DENY"))
        EXCEPT !.subtype = "completed"]>>)

\* Conditions on labels, scopes and lists.
Labelled == Written(<<
    RuleOf("leak", Send, <<>>,
           <<"AND", <<"exists", <<Text(<<"pii", "*">>)>>>>,
                    <<"not", <<"call", Fn(<<"input">>, "has_label", <<Text(<<"hr">>)>>)>>>>>>,
           Act("DENY")),
    RuleOf("scope", Send, <<>>,
           <<"OR", <<"call", Fn(<<"caller">>, "scope_missing", <<Text(<<"mail">>)>>)>>,
                   <<"call", Fn(<<>>, "goal_drift_detected", <<>>)>>>>, Act("HUMAN_CHECK")),
    RuleOf("strangers", Send, <<>>,
           <<"not", <<"call", Fn(<<>>, "subset", <<Path(<<"tool", "to">>),
                                 Fn(<<>>, "whitelist", <<Text(<<"contacts">>)>>)>>)>>>>,
           Act("LLM_CHECK")),
    RuleOf("listed", Send, <<>>,
           Cmp(Path(<<"tool", "to">>), "NOT_IN", Path(<<"allowlist", "contacts">>)),
           Act("DENY")),
    RuleOf("tagged", <<"*">>, <<>>,
           <<"call", Fn(<<"tool">>, "has_tag", <<Text(<<"bulk">>)>>)>>,
           [kind |-> "ALLOW", profile |-> <<>>,
            obligations |-> <<[kind |-> "RATE_LIMIT", args |-> [max |-> Num(2)]]>>])>>)

\* Texts with no rule written out for them: the clauses in lower case, a rule
\* without POLICY, conditions after POLICY, no rule at all.
Plainly(tokens) == <<KW("RULE"), PUNC(":"), IDENT("plain")>> \o tokens \o <<EOF>>
Key(word) == <<IDENT(word), PUNC(":")>>
Equal == <<IDENT("tool"), PUNC("."), IDENT("nmae"), <<"OP", "==">>, IDENT("high")>>
Raw_texts == {
    Plainly(Key("condition") \o Equal \o Key("policy") \o <<IDENT("deny")>>
         \o Key("Severity") \o <<IDENT("urgent")>> \o Key("Category") \o <<IDENT("x")>>),
    Plainly(Key("condition") \o Equal),
    Plainly(Key("policy") \o <<KW("DENY")>> \o Key("condition") \o Equal),
    Plainly(Key("policy") \o <<KW("DENY")>> \o Key("condition") \o <<IDENT("tool")>>),
    Plainly(Key("policy") \o <<KW("DEGRADE"), KW("TO"), <<"STRING", <<"safe">>>>>>),
    Plainly(Key("on") \o <<IDENT("tool_call"), PUNC("."), IDENT("failed")>>
         \o Key("policy") \o <<KW("ALLOW")>>),
    <<EOF>>,
    Plainly(Key("condition") \o <<KW("NOT"), IDENT("is_safe"), PUNC("("), PUNC(")")>>
         \o Key("policy") \o <<KW("DENY")>>)}

-----------------------------------------------------------------------------
(* Calls.                                                                  *)

CallOf(tool, boundary, integrity, trust) ==
    [type |-> "attempt", tool |-> tool, args |-> [id |-> Num(0)], target |-> Nothing_else,
     label |-> [boundary |-> Text(<<boundary>>), sensitivity |-> Text(<<"low">>),
                integrity |-> Text(<<integrity>>)],
     principal |-> [trust_level |-> Num(trust), session_id |-> Text(<<"s">>)],
     scope |-> {}, sink |-> "none", refs |-> {}, tags |-> {}, signals |-> {},
     allowlists |-> Nothing_else]

PlainQuery == CallOf(Query, "internal", "trusted", 3)
PlainSend == [CallOf(Send, "external", "trusted", 3) EXCEPT !.sink = "email"]
PlainRead == CallOf(Read, "internal", "trusted", 3)

Addressed(call, to) == [call EXCEPT !.args = [to |-> <<"list", to>>]]

Ana == Text(<<"ana">>)
Bob == Text(<<"bob">>)

MCCallsOf(t) ==
    CASE t = Contending ->
            {PlainQuery, PlainSend, CallOf(Query, "internal", "unfiltered", 1),
             [PlainSend EXCEPT !.args = [url |-> Text(<<"https", "evil">>)]],
             [PlainSend EXCEPT !.type = "completed"]}
      [] t \in {Chained(sep) : sep \in {"->", "*", "...", "...?"}} \cup {Traced} ->
            {PlainQuery, PlainSend, PlainRead}
      [] t = Historical ->
            {PlainQuery, PlainSend, [PlainQuery EXCEPT !.args = [id |-> Num(1)]],
             [PlainSend EXCEPT !.type = "completed"]}
      [] t = Labelled ->
            {Addressed(PlainSend, <<Ana>>),
             [Addressed(PlainSend, <<Ana, Bob>>) EXCEPT
                !.scope = {Text(<<"mail">>)}, !.tags = {Text(<<"bulk">>)}],
             [PlainRead EXCEPT !.refs = {Text(<<"pii", "email">>)}],
             [PlainRead EXCEPT !.refs = {Text(<<"hr">>)}, !.signals = {"goal_drift"}]}
      [] OTHER -> {}

MCTexts ==
    Shaped \cup {[tokens |-> tokens, meant |-> <<>>] : tokens \in Raw_texts}
    \cup {Contending, Traced, Historical, Labelled}
    \cup {Chained(sep) : sep \in {"->", "*", "...", "...?"}}

\* The text of the documentation's example of a chain.
DocumentedTexts == {Chained("...?")}

MCHostOf ==
    [url |-> (<<"https", "evil">> :> <<"evil", "com">>) @@ (<<"https", "wiki">> :> <<"in", "net">>),
     email |-> <<"ana">> :> <<"in", "net">>]

MCBadPattern == Text(<<"(">>)

MCAllowlists ==
    [internal_domains |-> <<"set", {Text(<<"net">>)}>>, contacts |-> <<"set", {Ana}>>]

MCResults == {Text(<<"secret">>)}

=============================================================================
