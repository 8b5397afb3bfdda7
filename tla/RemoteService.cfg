SPECIFICATION Spec
CONSTANTS
    Calls = {c1}
    Regs = {1, 2}
    Agents = {ann, bob}
    Labels <- MCLabels
    Declared = "internal"
    Gate = "privileged"
    ActionsFor <- MCActionsFor
    Configs <- MCConfigs
    MaxPatches = 2
    MaxSwitches = 1
    MaxRestarts = 1
INVARIANTS
    RunsExplained
    GatedCallsStop
CHECK_DEADLOCK FALSE
