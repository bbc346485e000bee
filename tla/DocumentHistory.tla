-------------------------- MODULE DocumentHistory --------------------------
(***************************************************************************)
(* Document with a history variable: the content of the document after     *)
(* each step that undo and redo can reach.  It changes nothing of what the *)
(* document does, and shows that Document implements UndoHistory.          *)
(***************************************************************************)
EXTENDS Document

VARIABLE hist           \* the content after each step, by step number

hvars == <<vars, hist>>

\* The tree with the elements of all its nodes, bytes included.
Content == [root |-> root, items |-> [n \in OnTree |-> heap[n].items]]

HInit ==
    /\ Init
    /\ hist = [k \in {0} |-> Content]

HNext ==
    \/ /\ NewDocument
       /\ hist' = [k \in {0} |-> Content']
    \/ /\ Commit
       /\ hist' = [k \in min' .. Engine!currentStep' |->
                      IF k <= Engine!currentStep THEN hist[k] ELSE Content]
    \/ /\ ClientStep \/ LibraryStep
       /\ UNCHANGED hist

HSpec == HInit /\ [][HNext]_hvars

\* With the fairness of FairSpec.
HFairSpec == HSpec /\ WF_hvars(LibraryStep /\ UNCHANGED hist)

History == INSTANCE UndoHistory WITH
    doc <- Content,
    pos <- Engine!currentStep,
    resting <- mstate = "Idle"

\* Undo and redo bring back, node by node and byte by byte, the document
\* that was committed at the step they return to, and abort the one the
\* transaction began with, for as long as the engine keeps the step
\* (Model::undo, redo, abortTransaction; StandardStorageEngine::execute).
ImplementsUndoHistory == History!Spec

\* At rest the document is the one of the current step.  Holds for a client
\* that neither moves children, nor sets the root, nor replaces bytes beyond the
\* end, and fails for one that does any of these: "Undo or redo the action" says
\* the comment on Action::execute, and a root change is an action of its own.
AtRestRestored == mstate = "Idle" => Content = hist[Engine!currentStep]
=============================================================================
