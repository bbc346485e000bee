\* An action of each kind, up to three calls within each other, with every risky call:
\* each property says which of them it survives.
SPECIFICATION Spec
CONSTANTS
    NodeActions = {a1}
    SheetInserts = {s1}
    SheetRemoves = {r1}
    RootChanges = {c1}
    NullChanges = {}
    Calls = {"reenter", "leave", "begin"}
    MaxSteps = 4
    MaxStep = 2
    MaxDepth = 3
INVARIANTS TypeOK LockMatches NothingLeftRecorded RecordedInOrder Restored StepStays
CHECK_DEADLOCK FALSE
