CONSTANTS
 c1 = c1
 c2 = c2
 Calls = {c1, c2}
 Forms <- MCForms
 Asked <- MCAsked
 ToolOf <- MCToolOf
 Rules <- MCRules
 ActionOf <- MCActionOf
 Rewrite <- MCRewrite
 Profiled = {"review", "toDraft", "toMasked"}
 Limited = {"mask"}
 Configs <- MCConfigs
 MaxRewriteDepth = 1
 Rank <- MCRank
SPECIFICATION FairSpec
INVARIANTS
 RefusedNeverRuns
 RunsAsPermitted
 PredecessorsSeen
 ResultsExplained
 ResultsArrive
PROPERTIES
 CallsFollowLifecycle
 EveryCallEnds
CHECK_DEADLOCK FALSE
