\* Three vectors: a root with two children or with one that has a child, edited
\* by transactions of one or two actions, one or two nodes at a time.
SPECIFICATION HSpec
CONSTANTS
    VectorNodes = {v1, v2, v3}
    BytesNodes = {}
    Bytes = {}
    Zero = x
    Null = Null
    Wild = Wild
    MaxSteps = 4
    Uninit = {Null}
    Calls = {}
    MaxStep = 3
    MaxTx = 2
    MaxItems = 2
    MaxId = 4
SYMMETRY NodeSymmetry
INVARIANTS TypeOK TreeConsistent DetachedMatchesTree WritableMatchesTree IndexSound IndexComplete NoOutOfRange
PROPERTIES NeverRenumbered ImplementsUndoHistory
