SPECIFICATION Spec
CONSTANTS
    ann = ann
    Agent = {ann}
    Id = {"r2", "r3"}
    Bad = "bad"
    Named = {"office"}
    Default = "default"
    AgentPack <- MCAgentPack
    Rank <- MCRank
    FileText <- MCFileText
    PushText <- MCPushText
    ConfigText <- MCConfigText
    ConfigBound <- MCConfigBound
    AskedText <- MCAskedText
    AskedBound <- MCAskedBound
    one = one
    two = two
    Client = {one, two}
    OnePath = TRUE
    Persistent = TRUE
    Async = TRUE
    Loading = TRUE
    MaxRequests = 2
    MaxOthers = 2
    MaxInAll = 3
SYMMETRY Swapped
INVARIANTS
    StoreFollows
    FilesFollowed
    ActorViewsExplained
PROPERTIES
    AgentRulesSurvive
CHECK_DEADLOCK FALSE
