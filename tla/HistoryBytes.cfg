\* A vector that holds a byte node, or either alone: two edits in a transaction,
\* which may overlap.  No symmetry: it is not sound for liveness.
SPECIFICATION HFairSpec
CONSTANTS
    VectorNodes = {v1}
    BytesNodes = {b1}
    Bytes = {x, y}
    Zero = x
    Null = Null
    Wild = Wild
    MaxSteps = 4
    Uninit = {Null}
    Calls = {}
    MaxStep = 1
    MaxTx = 2
    MaxItems = 2
    MaxId = 2
PROPERTIES CallsReturn ImplementsUndoHistory
