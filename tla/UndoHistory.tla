---------------------------- MODULE UndoHistory ----------------------------
(***************************************************************************)
(* What undo and redo promise the client: a history of documents with a    *)
(* cursor.  Inside a transaction the document changes freely; whenever the *)
(* model is at rest, the document is exactly the one of the current step,  *)
(* whichever way that step was reached.                                    *)
(*                                                                         *)
(* This is the abstract specification; Document implements it, by the      *)
(* refinement mapping of DocumentHistory.                                  *)
(***************************************************************************)
EXTENDS Integers

VARIABLES
    doc,                \* the document, whatever it is made of
    hist,               \* the document after each step that can be reached
    pos,                \* the current step
    resting             \* no transaction, undo or redo is under way

docVars == <<doc, hist, pos, resting>>

Init ==
    /\ hist = [k \in {0} |-> doc]
    /\ pos = 0
    /\ resting = TRUE

\* A transaction, an undo or a redo begins ...
Enter ==
    /\ resting /\ ~resting'
    /\ UNCHANGED <<doc, hist, pos>>

\* ... changes the document in any way ...
Wander ==
    /\ ~resting /\ ~resting'
    /\ UNCHANGED <<hist, pos>>

\* ... and ends: with a new step, which forgets the ones after the cursor
\* and possibly the oldest ones, ...
Record ==
    /\ ~resting /\ resting'
    /\ UNCHANGED doc
    /\ pos' = pos + 1
    /\ \E first \in DOMAIN hist :
          /\ first <= pos
          /\ hist' = [k \in first .. pos + 1 |-> IF k <= pos THEN hist[k] ELSE doc]

\* ... or at this step, the one before or the one after.
Return ==
    /\ ~resting /\ resting'
    /\ pos' \in {pos - 1, pos, pos + 1} \cap DOMAIN hist
    /\ doc' = hist[pos']
    /\ UNCHANGED hist

\* Another document is loaded, or this one is reset.
Restart ==
    /\ resting /\ resting'
    /\ pos' = 0
    /\ hist' = [k \in {0} |-> doc']

Next == Enter \/ Wander \/ Record \/ Return \/ Restart

Spec == Init /\ [][Next]_docVars
=============================================================================
