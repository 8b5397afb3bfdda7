---------------------------- MODULE RuleRouterMC ----------------------------
(* Instances of RuleRouter: three packs, and one or two versions of a rule. *)
EXTENDS RuleRouter, TLC

CONSTANTS pack, r1, b1, b2

MCPackId == {BUILTIN, DEFAULT, pack}

\* "__builtin__" < "__default__" < "pack", the order sorted() gives them
MCRank == [p \in MCPackId |-> CASE p = BUILTIN -> 0 [] p = DEFAULT -> 1 [] OTHER -> 2]

\* A policy file without the rule, and with either version of it.
OneRule == {Empty, [r \in {r1} |-> b1], [r \in {r1} |-> b2]}

\* Threads are alike, and so are the versions of a rule; no run with symmetry
\* has a liveness property.
Symmetry == Permutations(Admin) \cup Permutations({b1, b2})

=============================================================================
