\* A sheet, a mapping and a struct, each as the root (0) or as a node with the
\* first id (1).  Sheets are also asked to remove entries that they do not find.
SPECIFICATION Spec
CONSTANTS
    Children = {n1, n2, n3}
    Keys = {k1, k2}
    Variants = {x}
    Invalid = Invalid
    Kinds = {"Sheet", "Mapping", "Struct"}
    SelfIds = {0, 1}
    Calls = {"removeOther"}
    MaxSteps = 4
    MaxSheetStep = 3
    MaxPropertyStep = 1
    MaxTx = 2
    MaxSheet = 4
SYMMETRY Symmetry
INVARIANTS TypeOK LinksMatchSlots SheetIdsUnique EntryFound SheetRestored SheetManaged
CHECK_DEADLOCK FALSE
