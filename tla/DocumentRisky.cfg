\* A client that moves children, sets the root, edits nodes the transaction
\* inserted, asks nodes whose parent or model is gone and destroys the model.  A
\* fault ends the behaviour, so that it may stop.
SPECIFICATION Spec
CONSTANTS
    VectorNodes = {v1, v2, v3}
    BytesNodes = {}
    Bytes = {}
    Zero = x
    Null = Null
    Wild = Wild
    MaxSteps = 4
    Uninit = {Null, Wild}
    Calls = {"move", "setRoot", "unmanaged", "dangling", "destroy"}
    MaxStep = 2
    MaxTx = 2
    MaxItems = 2
    MaxId = 3
SYMMETRY NodeSymmetry
INVARIANTS IndexSound DeathHasModel
PROPERTIES NeverRenumbered
CHECK_DEADLOCK FALSE
