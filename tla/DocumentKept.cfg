\* A client that holds nodes while the model is reset: it goes on editing the old
\* root and what is below it, with the ids they have, and inserts it under the new
\* one.
SPECIFICATION Spec
CONSTANTS
    VectorNodes = {v1, v2, v3}
    BytesNodes = {}
    Bytes = {}
    Zero = x
    Null = Null
    Wild = Wild
    MaxSteps = 4
    Uninit = {Null}
    Calls = {"keep"}
    MaxStep = 2
    MaxTx = 2
    MaxItems = 2
    MaxId = 3
SYMMETRY NodeSymmetry
INVARIANTS IndexSound
PROPERTIES NeverRenumbered
