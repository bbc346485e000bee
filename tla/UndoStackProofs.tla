-------------------------- MODULE UndoStackProofs --------------------------
(***************************************************************************)
(* What TLAPS proves of UndoStack, for every payload, every limit and any  *)
(* number of steps: the invariants of the window, and that the engine      *)
(* implements the step log it promises to the model.                       *)
(***************************************************************************)
EXTENDS UndoStack, SequenceTheorems, TLAPS

\* The inductive invariant: types, and the window between min and current.
IInv == TypeOK /\ WindowInv

\* Pushing on the truncated stack: length and elements.  Commit drops the
\* redoable tail before it appends (StandardStorageEngine::commit).
LEMMA PushedFacts ==
    ASSUME TypeOK, current <= Len(stack), NEW p \in Payload
    PROVE  /\ Pushed(p) \in Seq(Payload)
           /\ Len(Pushed(p)) = current + 1
           /\ \A i \in 1 .. current : Pushed(p)[i] = stack[i]
           /\ Pushed(p)[current + 1] = p
<1> USE DEF TypeOK
<1>1. /\ Truncated \in Seq(Payload)
      /\ Len(Truncated) = current
      /\ \A i \in 1 .. current : Truncated[i] = stack[i]
  BY SubSeqProperties DEF Truncated
<1> QED
  BY <1>1, AppendProperties DEF Pushed

\* The window commit leaves, with and without the trim at the front.
LEMMA CommitFacts ==
    ASSUME IInv, NEW p \in Payload, CommitWindow(p)
    PROVE  \E d \in {0, maxSteps} :
              /\ d = 0 \/ current + 1 > 2 * maxSteps
              /\ d = 0 => current + 1 <= 2 * maxSteps
              /\ stack' \in Seq(Payload)
              /\ Len(stack') = current + 1 - d
              /\ min' = min + d
              /\ current' = current + 1 - d
              /\ \A i \in 1 .. current - d : stack'[i] = stack[i + d]
              /\ stack'[current + 1 - d] = p
<1> USE DEF IInv, TypeOK, WindowInv
<1>1. /\ Pushed(p) \in Seq(Payload)
      /\ Len(Pushed(p)) = current + 1
      /\ \A i \in 1 .. current : Pushed(p)[i] = stack[i]
      /\ Pushed(p)[current + 1] = p
  BY PushedFacts
<1>2. CASE current + 1 > 2 * maxSteps
  <2>1. stack' = SubSeq(Pushed(p), maxSteps + 1, current + 1)
    BY <1>2 DEF CommitWindow
  <2>2. /\ stack' \in Seq(Payload)
        /\ Len(stack') = current + 1 - maxSteps
        /\ \A i \in 1 .. current + 1 - maxSteps : stack'[i] = Pushed(p)[maxSteps + i]
    BY <1>1, <1>2, <2>1, SubSeqProperties
  <2>3. \A i \in 1 .. current - maxSteps : stack'[i] = stack[i + maxSteps]
    BY <1>1, <1>2, <2>2
  <2>4. stack'[current + 1 - maxSteps] = p
    BY <1>1, <1>2, <2>2
  <2>5. min' = min + maxSteps /\ current' = current + 1 - maxSteps
    BY <1>2 DEF CommitWindow
  <2> QED
    BY <1>2, <2>2, <2>3, <2>4, <2>5
<1>3. CASE ~(current + 1 > 2 * maxSteps)
  BY <1>1, <1>3 DEF CommitWindow
<1> QED
  BY <1>2, <1>3

\* The invariant is inductive: Init establishes it and every operation of
\* the engine keeps it.
LEMMA InvInit == Init => IInv
<1> SUFFICES ASSUME Init PROVE IInv
  OBVIOUS
<1>1. <<>> \in Seq(Payload) /\ Len(<<>>) = 0
  OBVIOUS
<1>2. TypeOK
  BY <1>1 DEF Init, TypeOK
<1>3. WindowInv
  BY <1>1 DEF Init, WindowInv, canUndo, canRedo, minimumStep, maximumStep, currentStep
<1> QED
  BY <1>2, <1>3 DEF IInv

LEMMA InvStep == IInv /\ [Next]_vars => IInv'
<1> SUFFICES ASSUME IInv, [Next]_vars
             PROVE  IInv'
  OBVIOUS
<1> USE UndoStackAssumption DEF IInv, TypeOK, WindowInv, canUndo, canRedo,
        minimumStep, maximumStep, currentStep
<1>1. ASSUME NEW n \in Requests, SetMaxSteps(n)
      PROVE  IInv'
  BY <1>1 DEF SetMaxSteps, window
<1>2. CASE Setup
  BY <1>2 DEF Setup, window
<1>3. ASSUME NEW p \in Payload, Commit(p)
      PROVE  IInv'
  <2>1. attached /\ CommitWindow(p) /\ UNCHANGED <<maxSteps, attached>>
    BY <1>3 DEF Commit
  <2> QED
    BY <2>1, CommitFacts
<1>4. CASE Undo
  BY <1>4 DEF Undo, StepBack
<1>5. CASE Redo
  BY <1>5 DEF Redo, StepForward
<1>6. CASE Reset
  BY <1>6 DEF Reset, ResetWindow
<1>7. CASE UNCHANGED vars
  BY <1>7 DEF vars
<1> QED
  BY <1>1, <1>2, <1>3, <1>4, <1>5, <1>6, <1>7 DEF Next

\* The state of the engine keeps its types whatever is called in whatever
\* order: no counter of StandardStorageEngine goes below zero.
THEOREM TypeCorrect == Spec => []TypeOK
<1>1. IInv => TypeOK
  BY DEF IInv
<1> QED
  BY InvInit, InvStep, <1>1, PTL DEF Spec

\* The cursor never leaves the stack and the stack never outgrows twice the
\* configured number of steps, for every limit and every number of commits
\* (StandardStorageEngine::commit, execute and reset together).
THEOREM WindowSafe == Spec => []WindowInv
<1>1. IInv => WindowInv
  BY DEF IInv
<1> QED
  BY InvInit, InvStep, <1>1, PTL DEF Spec

----------------------------------------------------------------------------
(***************************************************************************)
(* The engine implements StepLog.                                          *)
(***************************************************************************)

\* The steps of the log as the engine holds them, by step number.
Held == [k \in min + 1 .. maximumStep |-> StepMessage(k)]

\* stepMessage finds step k at position k - min of the stack.
LEMMA HeldSteps ==
    ASSUME IInv
    PROVE  /\ DOMAIN Held = min + 1 .. min + Len(stack)
           /\ \A k \in min + 1 .. min + Len(stack) : Held[k] = stack[k - min]
BY DEF IInv, TypeOK, Held, StepMessage, maximumStep

\* The same after a step.
LEMMA HeldStepsNext ==
    ASSUME IInv'
    PROVE  Held' = [k \in min' + 1 .. min' + Len(stack') |-> stack'[k - min']]
BY DEF IInv, TypeOK, Held, StepMessage, maximumStep

\* A commit of the engine is a commit of the log: with the trim it forgets
\* maxSteps steps, and more than maxSteps stay behind the cursor.
LEMMA CommitImplements ==
    ASSUME IInv, IInv', NEW p \in Payload, Commit(p)
    PROVE  Log!Commit(p)
<1> USE DEF IInv, TypeOK, WindowInv, currentStep
<1>1. PICK d \in {0, maxSteps} :
              /\ d = 0 \/ current + 1 > 2 * maxSteps
              /\ d = 0 => current + 1 <= 2 * maxSteps
              /\ stack' \in Seq(Payload)
              /\ Len(stack') = current + 1 - d
              /\ min' = min + d
              /\ current' = current + 1 - d
              /\ \A i \in 1 .. current - d : stack'[i] = stack[i + d]
              /\ stack'[current + 1 - d] = p
  BY CommitFacts DEF Commit
<1>2. maxSteps' = maxSteps
  BY DEF Commit
<1>3. /\ min' \in min .. min + current
      /\ min' = min \/ (min + current) + 1 - min' > maxSteps
  BY <1>1
<1>4. currentStep' = currentStep + 1
  BY <1>1
<1>5. Held' = [k \in min' + 1 .. currentStep + 1 |->
                  IF k = currentStep + 1 THEN p ELSE Held[k]]
  <2>1. Held' = [k \in min' + 1 .. min' + Len(stack') |-> stack'[k - min']]
    BY HeldStepsNext
  <2>2. min' + Len(stack') = currentStep + 1
    BY <1>1
  <2>3. ASSUME NEW k \in min' + 1 .. currentStep + 1
        PROVE  stack'[k - min'] = IF k = currentStep + 1 THEN p ELSE Held[k]
    <3>1. CASE k = currentStep + 1
      BY <1>1, <3>1
    <3>2. CASE k # currentStep + 1
      <4>1. k \in min + 1 .. min + Len(stack) /\ k - min' \in 1 .. current - d
        BY <1>1, <3>2
      <4>2. stack'[k - min'] = stack[(k - min') + d]
        BY <1>1, <4>1
      <4>3. (k - min') + d = k - min
        BY <1>1, <4>1
      <4>4. Held[k] = stack[k - min]
        BY <4>1, HeldSteps
      <4> QED
        BY <3>2, <4>2, <4>3, <4>4
    <3> QED
      BY <3>1, <3>2
  <2> QED
    BY <2>1, <2>2, <2>3
<1> QED
  BY <1>2, <1>3, <1>4, <1>5 DEF Log!Commit, Held

\* Every step of the engine is a step of the log or leaves it alone.
LEMMA StepImplements ==
    ASSUME IInv, IInv', [Next]_vars
    PROVE  [Log!Next]_(Log!logVars)
<1> USE DEF IInv, TypeOK, WindowInv
<1> DEFINE Same == stack' = stack /\ min' = min
<1>1. Same => Held' = Held
  BY DEF Held, StepMessage, maximumStep
<1>2. ASSUME Same, current' = current, maxSteps' = maxSteps
      PROVE  UNCHANGED Log!logVars
  BY <1>1, <1>2 DEF Log!logVars, Held, currentStep
<1>3. ASSUME NEW n \in Requests, SetMaxSteps(n)
      PROVE  [Log!Next]_(Log!logVars)
  <2>1. Same /\ current' = current
    BY <1>3 DEF SetMaxSteps, window
  <2>2. CASE maxSteps' = maxSteps
    BY <1>2, <2>1, <2>2
  <2>3. CASE maxSteps' # maxSteps
    <3>1. stack = <<>>
      BY <1>3, <2>3 DEF SetMaxSteps
    <3>2. DOMAIN Held = {}
      BY <3>1, HeldSteps
    <3>3. Held' = Held
      BY <1>1, <2>1
    <3>4. Log!Configure
      BY <2>1, <3>2, <3>3 DEF Log!Configure, Held, currentStep
    <3> QED
      BY <3>4 DEF Log!Next
  <2> QED
    BY <2>2, <2>3
<1>4. CASE Setup
  BY <1>2, <1>4 DEF Setup, window
<1>5. ASSUME NEW p \in Payload, Commit(p)
      PROVE  [Log!Next]_(Log!logVars)
  BY <1>5, CommitImplements DEF Log!Next
<1>6. CASE Undo
  <2>1. Same /\ maxSteps' = maxSteps /\ current > 0 /\ current' = current - 1
    BY <1>6 DEF Undo, StepBack
  <2>2. Log!Back
    BY <1>1, <2>1 DEF Log!Back, Held, currentStep
  <2> QED
    BY <2>2 DEF Log!Next
<1>7. CASE Redo
  <2>1. /\ Same
        /\ maxSteps' = maxSteps
        /\ current < Len(stack)
        /\ current' = current + 1
    BY <1>7 DEF Redo, StepForward
  <2>2. currentStep + 1 \in DOMAIN Held
    BY <2>1, HeldSteps DEF currentStep
  <2>3. Log!Forward
    BY <1>1, <2>1, <2>2 DEF Log!Forward, Held, currentStep
  <2> QED
    BY <2>3 DEF Log!Next
<1>8. CASE Reset
  <2>1. stack' = <<>> /\ min' = 0 /\ current' = 0 /\ maxSteps' = maxSteps
    BY <1>8 DEF Reset, ResetWindow
  <2>2. Held' = [k \in {} |-> k]
    BY <2>1, HeldStepsNext
  <2>3. Log!Clear
    BY <2>1, <2>2 DEF Log!Clear, Held, currentStep
  <2> QED
    BY <2>3 DEF Log!Next
<1>9. CASE UNCHANGED vars
  BY <1>2, <1>9 DEF vars
<1> QED
  BY <1>3, <1>4, <1>5, <1>6, <1>7, <1>8, <1>9 DEF Next

\* The engine starts as an empty log.
LEMMA InitImplements == Init => Log!Init
<1> SUFFICES ASSUME Init PROVE Log!Init
  OBVIOUS
<1>1. IInv
  BY InvInit
<1>2. Len(stack) = 0 /\ min = 0 /\ current = 0 /\ maxSteps = 100
  BY DEF Init
<1>3. Held = [k \in {} |-> k]
  BY <1>1, <1>2, HeldSteps DEF Held, maximumStep
<1> QED
  BY <1>2, <1>3 DEF Log!Init, Held, currentStep

\* StandardStorageEngine keeps its promise to the model for every limit: a
\* step keeps its number and its message until a commit truncates it, reset
\* clears it, or it is dropped with more than maxSteps steps kept behind the
\* cursor.
THEOREM EngineImplementsStepLog == Spec => ImplementsStepLog
<1>1. IInv /\ IInv' /\ [Next]_vars => [Log!Next]_(Log!logVars)
  BY StepImplements
<1> QED
  BY InvInit, InvStep, InitImplements, <1>1, PTL
     DEF Spec, ImplementsStepLog, Log!Spec
=============================================================================
