\* Files of two values, containers of up to two entries, cut at any byte.
SPECIFICATION Spec
CONSTANTS
    Shapes <- MCShapes
    Numbers = {0, 1}
    Strings <- MCStrings
    Kept <- Empty
    Sizes = {3, 8}
    MaxItems = 2
    MaxEntries = 2
INVARIANTS ReadBack CutReported NothingPartial
CHECK_DEADLOCK FALSE
