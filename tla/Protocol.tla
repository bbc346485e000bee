------------------------------ MODULE Protocol ------------------------------
(***************************************************************************)
(* The calls of a Model and its nodes with the code they call back.        *)
(*                                                                         *)
(* A subclass of Model is notified before and after every action, after    *)
(* every commit, undo and redo, and before a reset.  Its notify is client  *)
(* code: whatever an assertion does not refuse it may call, so that calls  *)
(* nest.  The calls under way are a stack of frames; each frame waits for  *)
(* notify to return.                                                       *)
(*                                                                         *)
(* What an action does to the document is left out (Document, Containers): *)
(* the document is the sequence of the actions that made it, and an action *)
(* can be undone on the document it has left and on no other.              *)
(***************************************************************************)
EXTENDS Integers, Sequences

CONSTANTS
    NodeActions,        \* edits of vectors, bytes, mappings and structs
    SheetInserts,       \* edits made by SheetNode::insert
    SheetRemoves,       \* edits made by SheetNode::remove
    RootChanges,        \* made by Model::setRoot of a node, or in place of one
    NullChanges,        \* made by Model::setRoot of none, in place of none
    Calls,              \* the risky things the client does, see below
    MaxSteps,           \* _maxSteps of the engine
    MaxStep,            \* bound of the model: the largest step number
    MaxDepth            \* bound of the model: calls within calls

Edits == NodeActions \cup SheetInserts \cup SheetRemoves
Actions == Edits \cup RootChanges \cup NullChanges

\* Calls names what notify may do besides:
\*   "reenter"  editing while an action is under way that does not hold the
\*              lock, other than before an insertion into a sheet and while
\*              the root is set
\*   "leave"    leaving the transaction while one of its actions is under way
\*   "begin"    leaving a transaction open when it returns to reset
ASSUME ProtocolAssumption ==
    /\ NodeActions \cap SheetInserts = {}
    /\ (NodeActions \cup SheetInserts) \cap SheetRemoves = {}
    /\ Edits \cap (RootChanges \cup NullChanges) = {}
    /\ RootChanges \cap NullChanges = {}
    /\ Calls \subseteq {"reenter", "leave", "begin"}
    /\ MaxSteps \in Nat /\ MaxSteps >= 4
    /\ MaxStep \in Nat /\ MaxDepth \in Nat

VARIABLES
    mstate,             \* _state
    locked,             \* _lockedNode, which the constructor does not set
    frames,             \* the calls under way, the innermost last
    txActions,          \* _txActions
    doc,                \* the document: the actions that made it
    stack, min, current,    \* the engine's undo stack
    fault,              \* what the program has run into
    hist,               \* history variable: the document after each step
    slips               \* history variable: which of Calls the client has done

engineVars == <<stack, min, current>>
vars == <<mstate, locked, frames, txActions, doc, engineVars, fault, hist, slips>>

Engine == INSTANCE UndoStack WITH
    Payload <- Seq(Actions), Requests <- {},
    maxSteps <- MaxSteps, attached <- TRUE

\* A call, the actions it has still to finish, and whether the first of them
\* has been executed: notify is AboutToTrigger before, and ActionTriggered
\* after.  The frames "step" and "reset" are StepChange and AboutToReset.
Frame ==
    [call : {"edit", "setRoot", "abort", "undo", "redo", "step", "reset"},
     todo : Seq(Actions), done : BOOLEAN]

TypeOK ==
    /\ mstate \in {"Idle", "Transaction", "Undo", "Redo"}
    /\ locked \in {"free", "held", "garbage"}
    /\ frames \in Seq(Frame)
    /\ txActions \in Seq(Actions) /\ doc \in Seq(Actions)
    /\ stack \in Seq(Seq(Actions)) /\ min \in Nat /\ current \in Nat
    /\ fault \in {"none", "misfit", "iterators"}
    /\ slips \subseteq Calls

----------------------------------------------------------------------------
Top == frames[Len(frames)]
Below == SubSeq(frames, 1, Len(frames) - 1)
Called(call, todo) == Append(frames, [call |-> call, todo |-> todo, done |-> FALSE])
Replaced(call, todo, done) ==
    Append(Below, [call |-> call, todo |-> todo, done |-> done])

Reversed(s) == [i \in 1 .. Len(s) |-> s[Len(s) + 1 - i]]

\* beginAction: an edit of a sheet locks when it removes, the execution of a
\* SheetAction never does.  setRoot locks the root or the node that comes first.
Locks(call, a) ==
    IF call = "edit" THEN a \notin SheetInserts ELSE a \in NodeActions \cup RootChanges

Lock(call, a) == IF Locks(call, a) THEN "held" ELSE "free"

ModelWritable == mstate = "Transaction" /\ locked = "free"

\* An action is under way; an edit is under way that is past its beginning, or
\* that an abort, undo or redo executes; an abort is under way.
Acting == \E i \in DOMAIN frames : frames[i].todo # <<>>
Early(f) == (f.call = "edit" /\ ~f.done) \/ f.call = "setRoot"
Midway == \E i \in DOMAIN frames : frames[i].todo # <<>> /\ ~Early(frames[i])
Aborting == \E i \in DOMAIN frames : frames[i].call = "abort"

Undoing(call) == call \in {"abort", "undo"}

\* What somebody remembers is not made anew.
Elements(s) == {s[i] : i \in DOMAIN s}
Remembered ==
    Elements(doc) \cup Elements(txActions)
        \cup UNION {Elements(stack[i]) : i \in DOMAIN stack}
        \cup UNION {Elements(frames[i].todo) : i \in DOMAIN frames}

----------------------------------------------------------------------------
Init ==
    /\ mstate = "Idle"
    /\ locked \in {"free", "garbage"}
    /\ frames = <<>>
    /\ txActions = <<>>
    /\ doc = <<>>
    /\ stack = <<>> /\ min = 0 /\ current = 0
    /\ fault = "none"
    /\ hist = [k \in {0} |-> <<>>]
    /\ slips = {}

(***************************************************************************)
(* Calls of the client, from outside or from notify.                       *)
(***************************************************************************)
Running == fault = "none"
Calling == Running /\ Len(frames) < MaxDepth

Slip(call) == slips' = slips \cup {call}

\* Slip: the action is recorded before it is executed.
EditPushedFirst(a) ==
    /\ Calling /\ ModelWritable
    /\ a \notin Remembered
    /\ ~Midway
    /\ locked' = Lock("edit", a)
    /\ frames' = Called("edit", <<a>>)
    /\ txActions' = Append(txActions, a)
    /\ UNCHANGED <<mstate, doc, engineVars, fault, hist, slips>>

\* VectorNode::insert and its like, up to AboutToTrigger.
Edit(a) ==
    /\ Calling /\ ModelWritable
    /\ a \notin Remembered
    /\ IF Midway THEN "reenter" \in Calls /\ Slip("reenter") ELSE UNCHANGED slips
    /\ locked' = Lock("edit", a)
    /\ frames' = Called("edit", <<a>>)
    /\ UNCHANGED <<mstate, txActions, doc, engineVars, fault, hist>>

\* Model::setRoot, up to AboutToTrigger.
SetRoot(a) ==
    /\ Calling /\ ModelWritable
    /\ IF Midway THEN "reenter" \in Calls /\ Slip("reenter") ELSE UNCHANGED slips
    /\ locked' = Lock("setRoot", a)
    /\ frames' = Called("setRoot", <<a>>)
    /\ UNCHANGED <<mstate, txActions, doc, engineVars, fault, hist>>

BeginTransaction ==
    /\ Running /\ mstate = "Idle"
    /\ mstate' = "Transaction"
    /\ UNCHANGED <<locked, frames, txActions, doc, engineVars, fault, hist, slips>>

Leaving ==
    /\ Calling /\ mstate = "Transaction"
    /\ IF Acting THEN "leave" \in Calls /\ Slip("leave") ELSE UNCHANGED slips

\* commitTransaction and abortTransaction without a recorded action.
LeaveNothing ==
    /\ Leaving /\ ~Aborting /\ txActions = <<>>
    /\ mstate' = "Idle"
    /\ UNCHANGED <<locked, frames, txActions, doc, engineVars, fault, hist>>

\* Slip: the recorded actions are copied, not taken.
CommitCopy ==
    /\ Leaving /\ ~Aborting /\ txActions # <<>>
    /\ Engine!currentStep < MaxStep
    /\ Engine!CommitWindow(txActions)
    /\ txActions' = txActions
    /\ mstate' = "Idle"
    /\ frames' = Called("step", <<>>)
    /\ hist' = [k \in min' .. Engine!currentStep' |->
                   IF k <= Engine!currentStep THEN hist[k] ELSE doc]
    /\ UNCHANGED <<locked, doc, fault>>

\* commitTransaction, up to StepChange.
Commit ==
    /\ Leaving /\ ~Aborting /\ txActions # <<>>
    /\ Engine!currentStep < MaxStep
    /\ Engine!CommitWindow(txActions)
    /\ txActions' = <<>>
    /\ mstate' = "Idle"
    /\ frames' = Called("step", <<>>)
    /\ hist' = [k \in min' .. Engine!currentStep' |->
                   IF k <= Engine!currentStep THEN hist[k] ELSE doc]
    /\ UNCHANGED <<locked, doc, fault>>

\* abortTransaction, up to AboutToTrigger of its first action.
AbortTransaction ==
    /\ Leaving /\ ~Aborting /\ txActions # <<>>
    /\ frames' = Called("abort", Reversed(txActions))
    /\ locked' = IF Locks("abort", Reversed(txActions)[1]) THEN "held" ELSE locked
    /\ UNCHANGED <<mstate, txActions, doc, engineVars, fault, hist>>

\* Either of them from within an abort, which goes on with iterators into the
\* actions that are gone.
LeaveAbort ==
    /\ Leaving /\ Aborting
    /\ fault' = "iterators"
    /\ UNCHANGED <<mstate, locked, frames, txActions, doc, engineVars, hist>>

\* Slip: the next transaction is the one that was undone last.
RedoSame ==
    /\ Calling /\ mstate = "Idle" /\ current # Len(stack) /\ current # 0
    /\ mstate' = "Redo"
    /\ frames' = Called("redo", stack[current])
    /\ locked' = IF Locks("redo", stack[current][1]) THEN "held" ELSE locked
    /\ UNCHANGED <<txActions, doc, engineVars, fault, hist, slips>>

\* Slip: the model stays idle while the engine executes the transaction.
UndoIdle ==
    /\ Calling /\ mstate = "Idle" /\ current # 0
    /\ mstate' = "Idle"
    /\ frames' = Called("undo", Reversed(stack[current]))
    /\ locked' = IF Locks("undo", Reversed(stack[current])[1]) THEN "held" ELSE locked
    /\ UNCHANGED <<txActions, doc, engineVars, fault, hist, slips>>

\* undo and redo, up to AboutToTrigger of the first action ...
Undo ==
    /\ Calling /\ mstate = "Idle" /\ current # 0
    /\ mstate' = "Undo"
    /\ frames' = Called("undo", Reversed(stack[current]))
    /\ locked' = IF Locks("undo", Reversed(stack[current])[1]) THEN "held" ELSE locked
    /\ UNCHANGED <<txActions, doc, engineVars, fault, hist, slips>>

Redo ==
    /\ Calling /\ mstate = "Idle" /\ current # Len(stack)
    /\ mstate' = "Redo"
    /\ frames' = Called("redo", stack[current + 1])
    /\ locked' = IF Locks("redo", stack[current + 1][1]) THEN "held" ELSE locked
    /\ UNCHANGED <<txActions, doc, engineVars, fault, hist, slips>>

\* Slip: the cursor moves nevertheless.
StepBelow ==
    /\ Calling /\ mstate = "Idle"
    /\ current = 0
    /\ current' = current - 1
    /\ frames' = Called("step", <<>>)
    /\ UNCHANGED <<mstate, locked, txActions, doc, stack, min, fault, hist, slips>>

\* ... or to StepChange, if there is nothing to undo or redo.
StepNowhere ==
    /\ Calling /\ mstate = "Idle"
    /\ current = 0 \/ current = Len(stack)
    /\ frames' = Called("step", <<>>)
    /\ UNCHANGED <<mstate, locked, txActions, doc, engineVars, fault, hist, slips>>

\* reset, up to AboutToReset.
Reset ==
    /\ Calling /\ mstate = "Idle"
    /\ frames' = Called("reset", <<>>)
    /\ UNCHANGED <<mstate, locked, txActions, doc, engineVars, fault, hist, slips>>

(***************************************************************************)
(* notify returns.                                                         *)
(***************************************************************************)
Returned(call, done) ==
    /\ Running /\ frames # <<>>
    /\ Top.call = call /\ Top.done = done

\* Between its two notifications an action changes the document.
Execute ==
    LET a == Head(Top.todo)
        undo == Undoing(Top.call)
    IN  /\ Running /\ frames # <<>>
        /\ Top.todo # <<>> /\ ~Top.done /\ Top.call # "setRoot"
        /\ IF undo /\ (doc = <<>> \/ doc[Len(doc)] # a)
           THEN fault' = "misfit" /\ UNCHANGED <<doc, frames>>
           ELSE /\ doc' = IF undo THEN SubSeq(doc, 1, Len(doc) - 1) ELSE Append(doc, a)
                /\ frames' = Replaced(Top.call, Top.todo, TRUE)
                /\ UNCHANGED fault
        /\ UNCHANGED <<mstate, locked, txActions, engineVars, hist, slips>>

\* Slip: the lock stays.
EditEndsLocked ==
    /\ Returned("edit", TRUE)
    /\ locked' = locked
    /\ txActions' = Append(txActions, Head(Top.todo))
    /\ frames' = Below
    /\ UNCHANGED <<mstate, doc, engineVars, fault, hist, slips>>

\* endAction and pushAction.  The actions may move away under the iterators of
\* an abort.
EditEnds ==
    /\ Returned("edit", TRUE)
    /\ locked' = "free"
    /\ txActions' = Append(txActions, Head(Top.todo))
    /\ frames' = Below
    /\ fault' \in IF Aborting THEN {"none", "iterators"} ELSE {"none"}
    /\ UNCHANGED <<mstate, doc, engineVars, hist, slips>>

\* setRoot replaces the root between its notifications, which is not recorded.
ChangeRoot ==
    /\ Returned("setRoot", FALSE)
    /\ frames' = Replaced("setRoot", Top.todo, TRUE)
    /\ UNCHANGED <<mstate, locked, txActions, doc, engineVars, fault, hist, slips>>

\* Slip: setRoot leaves its lock, as an edit does not.
SetRootEndsLocked ==
    /\ Returned("setRoot", TRUE)
    /\ locked' = locked
    /\ frames' = Below
    /\ UNCHANGED <<mstate, txActions, doc, engineVars, fault, hist, slips>>

SetRootEnds ==
    /\ Returned("setRoot", TRUE)
    /\ locked' = "free"
    /\ frames' = Below
    /\ UNCHANGED <<mstate, txActions, doc, engineVars, fault, hist, slips>>

\* endAction, and beginAction of the next one.
NextAction ==
    /\ Running /\ frames # <<>>
    /\ Top.done /\ Len(Top.todo) > 1
    /\ locked' = Lock(Top.call, Top.todo[2])
    /\ frames' = Replaced(Top.call, Tail(Top.todo), FALSE)
    /\ UNCHANGED <<mstate, txActions, doc, engineVars, fault, hist, slips>>

AbortReturns ==
    /\ Returned("abort", TRUE) /\ Len(Top.todo) = 1
    /\ locked' = "free"
    /\ txActions' = <<>>
    /\ mstate' = "Idle"
    /\ frames' = Below
    /\ UNCHANGED <<doc, engineVars, fault, hist, slips>>

\* undo and redo go on to StepChange.
UndoReturns ==
    /\ Returned("undo", TRUE) /\ Len(Top.todo) = 1
    /\ locked' = "free"
    /\ Engine!StepBack
    /\ mstate' = "Idle"
    /\ frames' = Replaced("step", <<>>, FALSE)
    /\ UNCHANGED <<txActions, doc, fault, hist, slips>>

RedoReturns ==
    /\ Returned("redo", TRUE) /\ Len(Top.todo) = 1
    /\ locked' = "free"
    /\ Engine!StepForward
    /\ mstate' = "Idle"
    /\ frames' = Replaced("step", <<>>, FALSE)
    /\ UNCHANGED <<txActions, doc, fault, hist, slips>>

StepReturns ==
    /\ Returned("step", FALSE)
    /\ frames' = Below
    /\ UNCHANGED <<mstate, locked, txActions, doc, engineVars, fault, hist, slips>>

\* The engine resets what notify has left: the state is not asserted again.
ResetReturns ==
    /\ Returned("reset", FALSE)
    /\ IF mstate # "Idle" THEN "begin" \in Calls /\ Slip("begin") ELSE UNCHANGED slips
    /\ Engine!ResetWindow
    /\ doc' = <<>>
    /\ hist' = [k \in {0} |-> <<>>]
    /\ frames' = Below
    /\ UNCHANGED <<mstate, locked, txActions, fault>>

Next ==
    \/ \E a \in Edits : Edit(a)
    \/ \E a \in RootChanges \cup NullChanges : SetRoot(a)
    \/ BeginTransaction
    \/ LeaveNothing
    \/ Commit
    \/ AbortTransaction
    \/ LeaveAbort
    \/ Undo
    \/ Redo
    \/ StepNowhere
    \/ Reset
    \/ Execute
    \/ EditEnds
    \/ ChangeRoot
    \/ SetRootEnds
    \/ NextAction
    \/ AbortReturns
    \/ UndoReturns
    \/ RedoReturns
    \/ StepReturns
    \/ ResetReturns

Spec == Init /\ [][Next]_vars

----------------------------------------------------------------------------
(***************************************************************************)
(* Properties                                                              *)
(***************************************************************************)

\* The lock is held exactly while the innermost call is in an action that takes
\* it, as long as nobody leaves a transaction within an action: endAction and
\* setRoot clear whatever lock there is, and never that of another action.  A model
\* that was constructed with a garbage lock stays what it was: nothing is made,
\* recorded or under way that could clear it, only a notification of a step or
\* a reset.
LockMatches ==
    /\ "leave" \notin slips =>
          (locked = "held" <=> /\ frames # <<>> /\ Top.todo # <<>>
                               /\ Locks(Top.call, Head(Top.todo)))
    /\ locked = "garbage" =>
          /\ doc = <<>> /\ txActions = <<>> /\ stack = <<>>
          /\ \A i \in DOMAIN frames : frames[i].todo = <<>>

\* Outside of a transaction nothing is recorded, where the next one would commit
\* it: not in the notifications of an undo or a redo, and not after an abort
\* whose notifications made edits (pushAction asserts inTransaction()).  Only a
\* transaction that is left within an edit breaks it.
NothingLeftRecorded ==
    "leave" \notin slips => (mstate # "Transaction" => txActions = <<>>)

\* The actions are recorded in the order in which they changed the document,
\* also those that notify makes before an insertion into a sheet: nested calls
\* finish in another order than they begin.
RecordedInOrder ==
    slips = {} /\ mstate = "Transaction" /\ ~Aborting =>
        doc = hist[Engine!currentStep] \o txActions \o
              (IF frames # <<>> /\ Top.call = "edit" /\ Top.done
               THEN Top.todo ELSE <<>>)

\* Whatever notify undoes, redoes, edits, commits or aborts on its own, every
\* action is undone on the document it has left, and whenever the model is idle
\* the document is that of the current step.
Restored ==
    slips = {} => /\ fault = "none"
                  /\ mstate = "Idle" => doc = hist[Engine!currentStep]

\* execute goes through a transaction in the engine, by reference, while every
\* action of it notifies: whatever notify calls and the client has done, what is
\* still to execute is the rest of the step before, or after, the cursor, which
\* moves only when all of it is executed.
RestOf(todo, actions) ==
    \E k \in 0 .. Len(actions) : todo = SubSeq(actions, k + 1, Len(actions))

StepStays ==
    \A i \in DOMAIN frames :
        /\ frames[i].call = "undo" =>
              current # 0 /\ RestOf(frames[i].todo, Reversed(stack[current]))
        /\ frames[i].call = "redo" =>
              current # Len(stack) /\ RestOf(frames[i].todo, stack[current + 1])
=============================================================================
