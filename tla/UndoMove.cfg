\* A move is aborted or undone.
SPECIFICATION HSpec
CONSTANTS
    VectorNodes = {v1, v2, v3, v4}
    BytesNodes = {}
    Bytes = {}
    Zero = x
    Null = Null
    Wild = Wild
    MaxSteps = 4
    Uninit = {Null}
    Calls = {"move"}
    MaxStep = 1
    MaxTx = 2
    MaxItems = 3
    MaxId = 3
SYMMETRY NodeSymmetry
INVARIANTS AtRestRestored
CHECK_DEADLOCK FALSE
