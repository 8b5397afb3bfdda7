\* Two managing threads and an evaluation, three packs, two versions of a rule.
SPECIFICATION Spec
CONSTANTS
    Agent = {agent}
    PackId <- MCPackId
    BUILTIN = BUILTIN
    DEFAULT = DEFAULT
    Rank <- MCRank
    Rule = {r1}
    Body = {b1, b2}
    Contents <- OneRule
    Caller = {c1}
    Admin = {d1, d2}
    NoThread = NoThread
    ApplyDefaultWhenUnbound = TRUE
    SourceMayFail = TRUE
    pack = pack
    r1 = r1
    b1 = b1
    b2 = b2
INVARIANTS
    CacheFresh
    StaleViewsExplained
SYMMETRY Symmetry
