------------------------------ MODULE StepLog ------------------------------
(***************************************************************************)
(* What a storage engine promises to the model: a log of numbered steps    *)
(* with a cursor.  A step keeps its number and its payload for as long as  *)
(* the log holds it; committing forgets the steps after the cursor; the    *)
(* oldest steps may be forgotten, but only while more than `keep' steps    *)
(* stay behind the cursor.                                                 *)
(*                                                                         *)
(* This is the abstract specification; UndoStack implements it.            *)
(***************************************************************************)
EXTENDS Integers

CONSTANT Payload        \* what one step carries (actions and message)

VARIABLES
    steps,              \* the payload of each step number still held
    floor,              \* the number of the last step forgotten at the front
    pos,                \* the number of the current step
    keep                \* how many steps always stay reachable backwards

logVars == <<steps, floor, pos, keep>>

Init ==
    /\ steps = [k \in {} |-> k]
    /\ floor = 0
    /\ pos = 0
    /\ keep \in Nat

\* The amount kept is chosen before the first step is committed.
Configure ==
    /\ DOMAIN steps = {}
    /\ keep' \in Nat
    /\ UNCHANGED <<steps, floor, pos>>

Commit(p) ==
    \E f \in floor .. pos :
        /\ f = floor \/ pos + 1 - f > keep
        /\ floor' = f
        /\ pos' = pos + 1
        /\ steps' = [k \in f + 1 .. pos + 1 |-> IF k = pos + 1 THEN p ELSE steps[k]]
        /\ UNCHANGED keep

Back ==
    /\ pos > floor
    /\ pos' = pos - 1
    /\ UNCHANGED <<steps, floor, keep>>

Forward ==
    /\ pos + 1 \in DOMAIN steps
    /\ pos' = pos + 1
    /\ UNCHANGED <<steps, floor, keep>>

Clear ==
    /\ steps' = [k \in {} |-> k]
    /\ floor' = 0
    /\ pos' = 0
    /\ UNCHANGED keep

Next ==
    \/ Configure
    \/ \E p \in Payload : Commit(p)
    \/ Back
    \/ Forward
    \/ Clear

Spec == Init /\ [][Next]_logVars
=============================================================================
