\* Two vectors and two byte nodes, which the client clones and makes longer by
\* replacing bytes beyond the end.  That may run into a fault, which ends the
\* behaviour, so that it may stop.
SPECIFICATION Spec
CONSTANTS
    VectorNodes = {v1, v2}
    BytesNodes = {b1, b2}
    Bytes = {x}
    Zero = x
    Null = Null
    Wild = Wild
    MaxSteps = 4
    Uninit = {Null}
    Calls = {"grow", "clone"}
    MaxStep = 1
    MaxTx = 2
    MaxItems = 2
    MaxId = 1
SYMMETRY NodeSymmetry
INVARIANTS TreeConsistent WritableMatchesTree
CHECK_DEADLOCK FALSE
