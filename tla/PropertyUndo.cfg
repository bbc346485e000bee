\* A property of a mapping is set and its action undone or aborted.
SPECIFICATION Spec
CONSTANTS
    Children = {n1}
    Keys = {k1}
    Variants = {x}
    Invalid = Invalid
    Kinds = {"Mapping"}
    SelfIds = {0}
    Calls = {}
    MaxSteps = 4
    MaxSheetStep = 0
    MaxPropertyStep = 1
    MaxTx = 2
    MaxSheet = 0
INVARIANTS AtRestRestored
CHECK_DEADLOCK FALSE
