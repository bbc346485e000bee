\* One byte node edited ten times: the engine trims at the ninth commit.
SPECIFICATION HSpec
CONSTANTS
    VectorNodes = {v1}
    BytesNodes = {b1}
    Bytes = {x}
    Zero = x
    Null = Null
    Wild = Wild
    MaxSteps = 4
    Uninit = {Null}
    Calls = {}
    MaxStep = 10
    MaxTx = 1
    MaxItems = 1
    MaxId = 2
SYMMETRY NodeSymmetry
INVARIANTS IndexComplete
PROPERTIES ImplementsUndoHistory
