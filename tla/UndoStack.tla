----------------------------- MODULE UndoStack -----------------------------
(***************************************************************************)
(* StandardStorageEngine: the in-memory undo stack behind a Model.         *)
(*                                                                         *)
(* The stack holds the committed transactions of the current timeline,     *)
(* oldest first; `current' of them are applied, the rest can be redone.    *)
(* Steps are numbered from 1 over the whole life of the document: the      *)
(* transaction at stack[i] is step min + i, where min counts the steps     *)
(* dropped at the front.  What a transaction contains does not matter      *)
(* here: Payload is any set.  Executing its actions is in Document.        *)
(***************************************************************************)
EXTENDS Integers, Sequences

CONSTANTS
    Payload,            \* transactions: the actions with their message
    Requests,           \* the values a client passes to setMaxSteps
    MaxStep             \* bound of the model: the largest step number reached

ASSUME UndoStackAssumption ==
    /\ Requests \subseteq Int
    /\ MaxStep \in Nat

VARIABLES
    maxSteps,           \* _maxSteps
    attached,           \* _model is set: a Model owns this engine
    stack,              \* _stack
    min,                \* _min
    current             \* _current

vars == <<maxSteps, attached, stack, min, current>>
window == <<stack, min, current>>

TypeOK ==
    /\ maxSteps \in Nat
    /\ attached \in BOOLEAN
    /\ stack \in Seq(Payload)
    /\ min \in Nat
    /\ current \in Nat

----------------------------------------------------------------------------
\* The numbers the engine reports to the model.
minimumStep == min
maximumStep == min + Len(stack)
currentStep == min + current

canUndo == currentStep > minimumStep
canRedo == currentStep < maximumStep

NoMessage == CHOOSE m : m \notin Payload

\* stepMessage(step): found by position, nothing outside the stack.
StepMessage(step) ==
    LET i == step - (min + 1)
    IN  IF i < 0 \/ i >= Len(stack) THEN NoMessage ELSE stack[i + 1]

----------------------------------------------------------------------------
Init ==
    /\ maxSteps = 100
    /\ attached = FALSE
    /\ stack = <<>>
    /\ min = 0
    /\ current = 0

\* setMaxSteps: ignored once a model owns the engine, and below 4.
SetMaxSteps(n) ==
    /\ maxSteps' = IF attached \/ n < 4 THEN maxSteps ELSE n
    /\ UNCHANGED <<attached, window>>

\* setup, called by the constructor of the Model.
Setup ==
    /\ ~attached
    /\ attached' = TRUE
    /\ UNCHANGED <<maxSteps, window>>

\* The part of the stack that commit keeps, and the new transaction on top.
Truncated == SubSeq(stack, 1, current)
Pushed(p) == Append(Truncated, p)

\* Slips: the trim leaves the cursor; the trim leaves the number of the oldest
\* step.
CommitCursorLeft(p) ==
    IF current + 1 > 2 * maxSteps
    THEN /\ stack' = SubSeq(Pushed(p), maxSteps + 1, current + 1)
         /\ min' = min + maxSteps
         /\ current' = current + 1
    ELSE /\ stack' = Pushed(p)
         /\ min' = min
         /\ current' = current + 1

CommitMinLeft(p) ==
    IF current + 1 > 2 * maxSteps
    THEN /\ stack' = SubSeq(Pushed(p), maxSteps + 1, current + 1)
         /\ min' = min
         /\ current' = current + 1 - maxSteps
    ELSE /\ stack' = Pushed(p)
         /\ min' = min
         /\ current' = current + 1

\* commit: drop the redoable tail, push, and drop maxSteps transactions at
\* the front when more than twice maxSteps have piled up.
CommitWindow(p) ==
    IF current + 1 > 2 * maxSteps
    THEN /\ stack' = SubSeq(Pushed(p), maxSteps + 1, current + 1)
         /\ min' = min + maxSteps
         /\ current' = current + 1 - maxSteps
    ELSE /\ stack' = Pushed(p)
         /\ min' = min
         /\ current' = current + 1

Commit(p) ==
    /\ attached
    /\ currentStep < MaxStep
    /\ CommitWindow(p)
    /\ UNCHANGED <<maxSteps, attached>>

\* Slip: the bottom of the stack is not checked.
StepBackUnchecked ==
    /\ current' = current - 1
    /\ UNCHANGED <<stack, min>>

\* execute(true) and execute(false), once the actions have been executed.
StepBack ==
    /\ current # 0
    /\ current' = current - 1
    /\ UNCHANGED <<stack, min>>

StepForward ==
    /\ current # Len(stack)
    /\ current' = current + 1
    /\ UNCHANGED <<stack, min>>

Undo == attached /\ StepBack /\ UNCHANGED <<maxSteps, attached>>
Redo == attached /\ StepForward /\ UNCHANGED <<maxSteps, attached>>

\* reset, as far as the stack is concerned.
ResetWindow ==
    /\ stack' = <<>>
    /\ min' = 0
    /\ current' = 0

Reset == attached /\ ResetWindow /\ UNCHANGED <<maxSteps, attached>>

Next ==
    \/ \E n \in Requests : SetMaxSteps(n)
    \/ Setup
    \/ \E p \in Payload : Commit(p)
    \/ Undo
    \/ Redo
    \/ Reset

Spec == Init /\ [][Next]_vars

----------------------------------------------------------------------------
(***************************************************************************)
(* Properties                                                              *)
(***************************************************************************)

\* The cursor stays inside the stack, the stack never outgrows twice the
\* configured number of steps (StandardStorageEngine::commit trims it), and
\* an engine no model owns is empty.  What Model::canUndo and canRedo say by
\* comparing step numbers is what execute does by looking at the stack.
WindowInv ==
    /\ current <= Len(stack)
    /\ Len(stack) <= 2 * maxSteps
    /\ maxSteps >= 4
    /\ ~attached => stack = <<>> /\ min = 0
    /\ canUndo <=> current # 0
    /\ canRedo <=> current # Len(stack)

\* StandardStorageEngine implements StepLog: every step keeps its number and
\* its message (as stepMessage finds it) until it is truncated by a commit,
\* cleared by reset, or dropped at the front with more than maxSteps steps
\* left behind the cursor.
Log == INSTANCE StepLog WITH
    steps <- [k \in min + 1 .. maximumStep |-> StepMessage(k)],
    floor <- min,
    pos <- currentStep,
    keep <- maxSteps

ImplementsStepLog == Log!Spec
=============================================================================
