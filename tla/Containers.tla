----------------------------- MODULE Containers -----------------------------
(***************************************************************************)
(* The nodes whose children stand in named slots: SheetNode, and the       *)
(* MappingNode and StructNode of qsubstate, which hold properties.         *)
(*                                                                         *)
(* One container is in the document of a model; the client keeps all the   *)
(* children it makes, so that none of them dies (lifetimes are the subject *)
(* of Document).  The container is what a release build makes of it: the   *)
(* assertion in StructNodeBase::setAt does not compile.                    *)
(*                                                                         *)
(* Around the containers stand the transactions and the undo stack of      *)
(* Document, reduced to this one node.                                     *)
(***************************************************************************)
EXTENDS Integers, Sequences, FiniteSets

CONSTANTS
    Children,           \* the nodes a client puts into slots
    Keys,               \* keys of the mapping, indexes of the struct
    Variants,           \* values that are not nodes
    Invalid,            \* the invalid Property
    Kinds,              \* which of the containers are looked at
    SelfIds,            \* ids the container itself may have
    Calls,              \* "removeOther": SheetNode::remove of any id
    MaxSteps,           \* _maxSteps of the engine
    MaxSheetStep,       \* bound of the model: the largest step of a sheet
    MaxPropertyStep,    \* bound of the model: the same, of properties
    MaxTx,              \* bound of the model: actions in one transaction
    MaxSheet            \* bound of the model: the largest id of a sheet

ASSUME ContainersAssumption ==
    /\ IsFiniteSet(Children)
    /\ Invalid \notin Children \cup Variants
    /\ Children \cap Variants = {}
    /\ Kinds \subseteq {"Sheet", "Mapping", "Struct"}
    /\ IsFiniteSet(Keys)
    /\ SelfIds \subseteq Nat
    /\ MaxSteps \in Nat /\ MaxSteps >= 4
    /\ {MaxSheetStep, MaxPropertyStep, MaxTx, MaxSheet} \subseteq Nat

VARIABLES
    kind,               \* the type of the container
    selfId,             \* its own _id: 0 for a root, or one that commit gave it
    slots,              \* _sheet, _map or _storage
    sheetMax,           \* _maxId of the sheet
    child,              \* state, "_parent is the container", "_model is set"
    given,              \* the children the client has passed to the container
    mstate, txActions, todo,    \* the model, as in Document
    stack, min, current,        \* the engine's undo stack
    fault,              \* undefined behaviour the program has run into
    hist,               \* history variable: the slots after each step
    strayed             \* history variable: remove() was asked for another
                        \* entry than the one it finds

selfVars == <<kind, selfId>>
contentVars == <<slots, child>>
clientVars == <<sheetMax, given, strayed>>
engineVars == <<stack, min, current, hist>>
vars == <<selfVars, contentVars, clientVars, mstate, txActions, todo,
          engineVars, fault>>

\* A Property: invalid, a node or a variant.  operator== compares the type and
\* then the pointers or the variants.
Property == {Invalid} \cup Children \cup Variants

SlotNames == IF kind = "Sheet" THEN Nat ELSE Keys

SheetAction ==
    [type : {"SheetInsert", "SheetRemove"}, slot : Nat, child : Children]
PropertyAction ==
    [type : {"Assign"}, slot : Keys, value : Property, oldValue : Property]
Action == SheetAction \cup PropertyAction
Transaction == Seq(Action)

Engine == INSTANCE UndoStack WITH
    Payload <- Transaction, Requests <- {},
    maxSteps <- MaxSteps, MaxStep <- MaxSheetStep, attached <- TRUE

ChildFields ==
    [state : {"Created", "Active", "Detached"}, linked : BOOLEAN, managed : BOOLEAN]

TypeOK ==
    /\ kind \in {"Sheet", "Mapping", "Struct"} /\ selfId \in Nat
    /\ DOMAIN slots \subseteq SlotNames /\ \A k \in DOMAIN slots : slots[k] \in Property
    /\ sheetMax \in Nat
    /\ child \in [Children -> ChildFields]
    /\ given \subseteq Children
    /\ mstate \in {"Idle", "Transaction", "Undo", "Redo"}
    /\ txActions \in Transaction /\ todo \in Transaction
    /\ stack \in Seq(Transaction) /\ min \in Nat /\ current \in Nat
    /\ fault \in {"none", "missing entry"} /\ strayed \in BOOLEAN

----------------------------------------------------------------------------
(***************************************************************************)
(* Slots and links.                                                        *)
(***************************************************************************)
Put(s, k, v) == [j \in DOMAIN s \cup {k} |-> IF j = k THEN v ELSE s[j]]
Without(s, k) == [j \in DOMAIN s \ {k} |-> s[j]]
SlotValue(s, k) == IF k \in DOMAIN s THEN s[k] ELSE Invalid
InSlots == {slots[k] : k \in DOMAIN slots} \cap Children

\* Slip: the links are those of the value that was there.
LinkedBackwards(c, old, new) ==
    [n \in Children |->
        IF n = old THEN [c[n] EXCEPT !.linked = TRUE, !.state = "Active"]
        ELSE IF n = new THEN [c[n] EXCEPT !.linked = FALSE, !.state = "Detached"]
        ELSE c[n]]

\* removeChild of the old value, then addChild of the new one.
Linked(c, old, new) ==
    [n \in Children |->
        IF n = new THEN [c[n] EXCEPT !.linked = TRUE, !.state = "Active"]
        ELSE IF n = old THEN [c[n] EXCEPT !.linked = FALSE, !.state = "Detached"]
        ELSE c[n]]

\* The assignment of a property: a mapping erases a key that becomes invalid,
\* but enters a key that is not there whatever its value.
Assigned(s, k, v) ==
    IF kind = "Mapping" /\ k \in DOMAIN s /\ v = Invalid
    THEN Without(s, k)
    ELSE Put(s, k, v)

----------------------------------------------------------------------------
(***************************************************************************)
(* Actions.                                                                *)
(***************************************************************************)

\* Slip: the key and the old value change places.
PropertyActionMixed(k, old, new) ==
    [type |-> "Assign", slot |-> old, value |-> k, oldValue |-> new]

\* The constructor of PropertyAction stores its two values the wrong way round
\* and its accessors turn them back; execute and queryNodes do not.
NewPropertyAction(k, old, new) ==
    [type |-> "Assign", slot |-> k, value |-> old, oldValue |-> new]

\* Slip: a sheet asks for what was removed.
QueryRemoved(a) ==
    IF a.type = "Assign" THEN {a.oldValue} \cap Children
    ELSE IF a.type = "SheetRemove" THEN {a.child} ELSE {}

\* queryNodes(true)
QueryInserted(a) ==
    IF a.type = "Assign" THEN {a.oldValue} \cap Children
    ELSE IF a.type = "SheetInsert" THEN {a.child} ELSE {}

\* Slip: backwards is the same as forwards.
ErasesForwards(a, undo) == a.type = "SheetRemove"

\* (_type == SheetRemove) ^ undo
Erases(a, undo) == (a.type = "SheetRemove") # undo

\* SheetAction::execute goes on with what find() returns.
Executable(s, a, undo) ==
    a.type # "Assign" /\ Erases(a, undo) => a.slot \in DOMAIN s

NewValue(a, undo) == IF undo THEN a.oldValue ELSE a.value

\* _sheet.insert does not replace an entry that is there.
NewSlots(s, a, undo) ==
    IF a.type = "Assign" THEN Assigned(s, a.slot, NewValue(a, undo))
    ELSE IF Erases(a, undo) THEN Without(s, a.slot)
    ELSE IF a.slot \in DOMAIN s THEN s ELSE Put(s, a.slot, a.child)

NewChild(s, c, a, undo) ==
    IF a.type = "Assign" THEN Linked(c, SlotValue(s, a.slot), NewValue(a, undo))
    ELSE IF Erases(a, undo) THEN Linked(c, s[a.slot], Invalid)
    ELSE Linked(c, Invalid, a.child)

----------------------------------------------------------------------------
Init ==
    /\ kind \in Kinds
    /\ selfId \in IF kind = "Sheet" THEN SelfIds ELSE {0}
    /\ slots = [k \in (IF kind = "Struct" THEN Keys ELSE {}) |-> Invalid]
    /\ sheetMax = 0
    /\ child = [n \in Children |->
                   [state |-> "Created", linked |-> FALSE, managed |-> FALSE]]
    /\ given = {}
    /\ mstate = "Idle"
    /\ txActions = <<>> /\ todo = <<>>
    /\ stack = <<>> /\ min = 0 /\ current = 0
    /\ fault = "none"
    /\ hist = [k \in {0} |-> slots]
    /\ strayed = FALSE

\* isWritable() of the container, with no call under way.
Editable == mstate = "Transaction" /\ todo = <<>> /\ fault = "none"
Ready == todo = <<>> /\ fault = "none"

Push(a) ==
    /\ Len(txActions) < MaxTx
    /\ txActions' = Append(txActions, a)
    /\ UNCHANGED <<selfVars, mstate, todo, engineVars, fault>>

\* The client makes a node for every slot it fills.  (A sheet asserts that the
\* node is free, a mapping and a struct do not look.)
Fresh == Children \ given
Passed(v) ==
    /\ given' = given \cup ({v} \cap Children)
    /\ UNCHANGED strayed

\* Slip: the id is counted instead of remembered.
SheetInsertCounted(n) ==
    LET a == [type |-> "SheetInsert", slot |-> Cardinality(DOMAIN slots) + 1, child |-> n]
    IN  /\ Editable /\ kind = "Sheet" /\ n \in Fresh
        /\ sheetMax' = a.slot
        /\ slots' = NewSlots(slots, a, FALSE)
        /\ child' = NewChild(slots, child, a, FALSE)
        /\ Passed(n)
        /\ Push(a)

\* SheetNode::insert
SheetInsert(n) ==
    LET a == [type |-> "SheetInsert", slot |-> sheetMax + 1, child |-> n]
    IN  /\ Editable /\ kind = "Sheet" /\ n \in Fresh
        /\ sheetMax < MaxSheet
        /\ sheetMax' = a.slot
        /\ slots' = NewSlots(slots, a, FALSE)
        /\ child' = NewChild(slots, child, a, FALSE)
        /\ Passed(n)
        /\ Push(a)

\* SheetNode::remove(id) finds and removes the entry with the number of the
\* sheet's own id, and records the id that it was asked for.  Without that
\* entry it returns false and changes nothing.
SheetRemove(id) ==
    /\ Editable /\ kind = "Sheet"
    /\ id = selfId \/ "removeOther" \in Calls
    /\ selfId \in DOMAIN slots
    /\ slots' = Without(slots, selfId)
    /\ child' = Linked(child, slots[selfId], Invalid)
    /\ strayed' = (strayed \/ id # selfId)
    /\ UNCHANGED <<sheetMax, given>>
    /\ Push([type |-> "SheetRemove", slot |-> id, child |-> slots[selfId]])

\* MappingNode::setProperty changes the map itself and records the action.
SetProperty(k, v) ==
    /\ Editable /\ kind = "Mapping"
    /\ v \in Children => v \in Fresh
    /\ v # SlotValue(slots, k)
    /\ slots' = Assigned(slots, k, v)
    /\ child' = Linked(child, SlotValue(slots, k), v)
    /\ UNCHANGED sheetMax
    /\ Passed(v)
    /\ Push(NewPropertyAction(k, SlotValue(slots, k), v))

\* StructNodeBase::setAt makes the action and executes it.
SetAt(k, v) ==
    LET a == NewPropertyAction(k, slots[k], v)
    IN  /\ Editable /\ kind = "Struct"
        /\ v \in Children => v \in Fresh
        /\ slots' = NewSlots(slots, a, FALSE)
        /\ child' = NewChild(slots, child, a, FALSE)
        /\ UNCHANGED sheetMax
        /\ Passed(v)
        /\ Push(a)

----------------------------------------------------------------------------
(***************************************************************************)
(* The model around the container.                                         *)
(***************************************************************************)
BeginTransaction ==
    /\ Ready /\ mstate = "Idle"
    /\ mstate' = "Transaction"
    /\ UNCHANGED <<selfVars, contentVars, clientVars, txActions, todo,
                   engineVars, fault>>

CommitNothing ==
    /\ Ready /\ mstate = "Transaction" /\ txActions = <<>>
    /\ mstate' = "Idle"
    /\ UNCHANGED <<selfVars, contentVars, clientVars, txActions, todo,
                   engineVars, fault>>

StepBound == IF kind = "Sheet" THEN MaxSheetStep ELSE MaxPropertyStep

Commit ==
    /\ Ready /\ mstate = "Transaction" /\ txActions # <<>>
    /\ Engine!currentStep < StepBound
    /\ mstate' = "Idle"
    /\ txActions' = <<>>
    /\ LET inserted == UNION {QueryInserted(txActions[i]) : i \in DOMAIN txActions}
       IN  child' = [n \in Children |->
                        [child[n] EXCEPT !.managed = @ \/ n \in inserted]]
    /\ Engine!CommitWindow(txActions)
    /\ hist' = [k \in min' .. Engine!currentStep' |->
                   IF k <= Engine!currentStep THEN hist[k] ELSE slots]
    /\ UNCHANGED <<selfVars, slots, clientVars, todo, fault>>

\* Slip: the actions are undone in the order they were made.
InOrder(s) == s

Reversed(s) == [i \in 1 .. Len(s) |-> s[Len(s) + 1 - i]]

AbortTransaction ==
    /\ Ready /\ mstate = "Transaction"
    /\ todo' = Reversed(txActions)
    /\ mstate' = IF txActions = <<>> THEN "Idle" ELSE mstate
    /\ UNCHANGED <<selfVars, contentVars, clientVars, txActions, engineVars, fault>>

Undo ==
    /\ Ready /\ mstate = "Idle" /\ current # 0
    /\ mstate' = "Undo"
    /\ todo' = Reversed(stack[current])
    /\ UNCHANGED <<selfVars, contentVars, clientVars, txActions, engineVars, fault>>

Redo ==
    /\ Ready /\ mstate = "Idle" /\ current # Len(stack)
    /\ mstate' = "Redo"
    /\ todo' = stack[current + 1]
    /\ UNCHANGED <<selfVars, contentVars, clientVars, txActions, engineVars, fault>>

\* One action of the running abort, undo or redo; after the last one the call
\* returns.
ExecuteAction ==
    LET a == Head(todo)
        undo == mstate # "Redo"
        returns == Len(todo) = 1
    IN  /\ todo # <<>> /\ fault = "none"
        /\ Executable(slots, a, undo)
        /\ slots' = NewSlots(slots, a, undo)
        /\ child' = NewChild(slots, child, a, undo)
        /\ todo' = Tail(todo)
        /\ mstate' = IF returns THEN "Idle" ELSE mstate
        /\ txActions' = IF returns THEN <<>> ELSE txActions
        /\ CASE returns /\ mstate = "Undo" -> Engine!StepBack
             [] returns /\ mstate = "Redo" -> Engine!StepForward
             [] OTHER -> UNCHANGED <<stack, min, current>>
        /\ UNCHANGED <<selfVars, clientVars, hist, fault>>

\* find() returned end(), which is erased.
ExecuteMissing ==
    /\ todo # <<>> /\ fault = "none"
    /\ ~Executable(slots, Head(todo), mstate # "Redo")
    /\ fault' = "missing entry"
    /\ UNCHANGED <<selfVars, contentVars, clientVars, mstate, txActions, todo,
                   engineVars>>

Next ==
    \/ \E n \in Children : SheetInsert(n)
    \/ \E id \in 1 .. MaxSheet : SheetRemove(id)
    \/ \E k \in Keys, v \in Property : SetProperty(k, v)
    \/ \E k \in Keys, v \in Property : SetAt(k, v)
    \/ BeginTransaction
    \/ CommitNothing
    \/ Commit
    \/ AbortTransaction
    \/ Undo
    \/ Redo
    \/ ExecuteAction
    \/ ExecuteMissing

Spec == Init /\ [][Next]_vars

----------------------------------------------------------------------------
(***************************************************************************)
(* Properties                                                              *)
(***************************************************************************)

\* Between any two actions the links agree with the slots: a node stands in
\* one slot at most, and it is active and linked exactly when it stands in
\* one.  It holds for properties although their actions are executed the
\* wrong way round.
LinksMatchSlots ==
    ~strayed =>
        /\ \A n \in Children :
              /\ n \in InSlots <=> child[n].linked
              /\ n \in InSlots <=> child[n].state = "Active"
        /\ \A j, k \in DOMAIN slots :
              slots[j] \in Children /\ slots[j] = slots[k] => j = k

\* The actions that are recorded, for undo or redo or in the transaction.
Recorded ==
    {txActions[i] : i \in DOMAIN txActions} \cup
    UNION {{stack[i][j] : j \in DOMAIN stack[i]} : i \in DOMAIN stack}

\* An id of a sheet names one child for as long as anything remembers it:
\* _maxId is not taken back by an undo or an abort, so that a redo never meets
\* an entry that another child has taken.
SheetIdsUnique ==
    kind = "Sheet" /\ ~strayed =>
        /\ \A a, b \in Recorded : a.slot = b.slot => a.child = b.child
        /\ \A a \in Recorded : a.slot \in DOMAIN slots => slots[a.slot] = a.child

\* SheetAction::execute finds the entry it removes, forwards and backwards,
\* unless remove() has recorded an entry it did not remove.
EntryFound == fault # "none" => strayed

\* At rest the slots are those of the current step.
AtRestRestored == mstate = "Idle" /\ fault = "none" => slots = hist[Engine!currentStep]

\* Abort, undo and redo of a sheet's actions restore it exactly.
SheetRestored == kind = "Sheet" /\ ~strayed => AtRestRestored

\* At rest every child in a sheet has its model: queryNodes reports on commit
\* whatever can come back later.
SheetManaged ==
    kind = "Sheet" /\ mstate = "Idle" => \A n \in InSlots : child[n].managed
=============================================================================
