-------------------------- MODULE ContainersProofs --------------------------
(***************************************************************************)
(* What TLAPS proves of Containers, for any children, keys, ids and number *)
(* of steps: the types and the links of all three containers, the models   *)
(* of the children of a sheet, and of a sheet from which only its own      *)
(* entry is removed, that its ids are never given twice and that undo,     *)
(* redo and abort restore it.                                              *)
(***************************************************************************)
EXTENDS Containers, SequenceTheorems, TLAPS

\* The actions that a container records.
KindAction == IF kind = "Sheet" THEN SheetAction ELSE PropertyAction

SlotsOK(s) ==
    /\ DOMAIN s \subseteq SlotNames
    /\ \A k \in DOMAIN s : s[k] \in Property
    /\ kind = "Struct" => DOMAIN s = Keys
    /\ kind = "Sheet" => \A k \in DOMAIN s : s[k] \in Children

StateOK ==
    /\ TypeOK
    /\ SlotsOK(slots)
    /\ stack \in Seq(Seq(KindAction))
    /\ txActions \in Seq(KindAction) /\ todo \in Seq(KindAction)
    /\ current <= Len(stack)
    /\ \A i \in DOMAIN stack : stack[i] # <<>>
    /\ mstate = "Idle" => todo = <<>> /\ txActions = <<>>
    /\ mstate = "Undo" => todo # <<>> /\ current # 0
    /\ mstate = "Redo" => todo # <<>> /\ current # Len(stack)
    /\ fault # "none" => kind = "Sheet"

\* The action a turns the sheet s into t; undone, it turns t into s.
IsSheet(s) == s = [k \in DOMAIN s |-> s[k]]

Change(s, a, t) ==
    /\ IsSheet(s) /\ IsSheet(t)
    /\ \/ /\ a.type = "SheetInsert" /\ a.slot \notin DOMAIN s
          /\ t = Put(s, a.slot, a.child)
       \/ /\ a.type = "SheetRemove" /\ a.slot \in DOMAIN s
          /\ s[a.slot] = a.child
          /\ t = Without(s, a.slot)

Move(s, a, t, undo) == IF undo THEN Change(t, a, s) ELSE Change(s, a, t)

\* The actions q, executed one after the other, lead from s to t.
Leads(s, q, t, undo) ==
    \E w : /\ DOMAIN w = 0 .. Len(q)
           /\ w[0] = s /\ w[Len(q)] = t
           /\ \A i \in 1 .. Len(q) : Move(w[i - 1], q[i], w[i], undo)

\* What a sheet remembers: an id names one child, no id is above _maxId, and a
\* running call has only actions to execute that are recorded.
RecordOK ==
    /\ \A a, b \in Recorded : a.slot = b.slot => a.child = b.child
    /\ \A a \in Recorded : a.slot \in DOMAIN slots => slots[a.slot] = a.child
    /\ \A a \in Recorded : a.slot <= sheetMax
    /\ \A k \in DOMAIN slots : k <= sheetMax
    /\ \A i \in DOMAIN todo : todo[i] \in Recorded

\* The recorded actions lead from step to step, and those that are left to
\* execute lead to the step where the call ends.
PathOK ==
    /\ fault = "none"
    /\ IsSheet(slots)
    /\ DOMAIN hist = min .. min + Len(stack)
    /\ \A k \in 1 .. Len(stack) :
          Leads(hist[min + k - 1], stack[k], hist[min + k], FALSE)
    /\ mstate = "Idle" => slots = hist[min + current]
    /\ mstate = "Transaction" /\ todo = <<>> =>
          Leads(hist[min + current], txActions, slots, FALSE)
    /\ mstate = "Transaction" /\ todo # <<>> =>
          Leads(slots, todo, hist[min + current], TRUE)
    /\ mstate = "Undo" => Leads(slots, todo, hist[min + current - 1], TRUE)
    /\ mstate = "Redo" => Leads(slots, todo, hist[min + current + 1], FALSE)

IInv == StateOK /\ (kind = "Sheet" /\ ~strayed => RecordOK /\ PathOK)

----------------------------------------------------------------------------
(***************************************************************************)
(* Sequences of actions.                                                   *)
(***************************************************************************)
LEMMA HeadFacts ==
    ASSUME NEW S, NEW s \in Seq(S), s # <<>>
    PROVE  /\ Len(s) \in Nat \ {0}
           /\ Head(s) \in S /\ Head(s) = s[1]
           /\ Tail(s) \in Seq(S) /\ Len(Tail(s)) = Len(s) - 1
           /\ \A i \in 1 .. Len(s) - 1 : Tail(s)[i] = s[i + 1]
BY EmptySeq, HeadTailProperties

LEMMA ReversedFacts ==
    ASSUME NEW S, NEW s \in Seq(S)
    PROVE  /\ Reversed(s) \in Seq(S)
           /\ Len(Reversed(s)) = Len(s)
           /\ \A i \in 1 .. Len(s) : Reversed(s)[i] = s[Len(s) + 1 - i]
<1>1. Len(s) \in Nat
  BY LenProperties
<1>2. \A i \in 1 .. Len(s) : s[Len(s) + 1 - i] \in S
  BY <1>1, ElementOfSeq
<1> QED
  BY <1>1, <1>2 DEF Reversed

LEMMA ReversedEmpty == ASSUME NEW S, NEW s \in Seq(S)
                       PROVE  Reversed(s) = <<>> <=> s = <<>>
BY ReversedFacts, EmptySeq

\* A widening of the type of the elements.
LEMMA SeqWidens ==
    ASSUME NEW S, NEW T, S \subseteq T, NEW s \in Seq(S) PROVE s \in Seq(T)
<1>1. Len(s) \in Nat /\ DOMAIN s = 1 .. Len(s)
      /\ s = [i \in 1 .. Len(s) |-> s[i]]
  BY LenProperties
<1>2. \A i \in 1 .. Len(s) : s[i] \in T
  BY <1>1, ElementOfSeq
<1> QED
  BY <1>1, <1>2, IsASeq

----------------------------------------------------------------------------
(***************************************************************************)
(* Paths of actions.                                                       *)
(***************************************************************************)

\* SheetAction::execute does what the action stands for, forwards and
\* backwards.
LEMMA MoveExecutes ==
    ASSUME NEW s, NEW t, NEW a \in SheetAction, NEW undo \in BOOLEAN,
           Move(s, a, t, undo)
    PROVE  Executable(s, a, undo) /\ NewSlots(s, a, undo) = t
<1>1. a.type \in {"SheetInsert", "SheetRemove"}
  BY DEF SheetAction
<1>2. CASE a.type = "SheetInsert" /\ ~undo
  BY <1>2 DEF Move, Change, Executable, NewSlots, Erases
<1>3. CASE a.type = "SheetInsert" /\ undo
  <2>1. /\ IsSheet(t) /\ a.slot \notin DOMAIN t
        /\ s = Put(t, a.slot, a.child)
    BY <1>3 DEF Move, Change
  <2>2. Without(s, a.slot) = t
    BY <2>1 DEF Put, Without, IsSheet
  <2>3. a.slot \in DOMAIN s
    BY <2>1 DEF Put
  <2> QED
    BY <1>3, <2>2, <2>3 DEF Executable, NewSlots, Erases
<1>4. CASE a.type = "SheetRemove" /\ ~undo
  BY <1>4 DEF Move, Change, Executable, NewSlots, Erases
<1>5. CASE a.type = "SheetRemove" /\ undo
  <2>1. /\ IsSheet(t) /\ a.slot \in DOMAIN t /\ t[a.slot] = a.child
        /\ s = Without(t, a.slot)
    BY <1>5 DEF Move, Change
  <2>2. Put(s, a.slot, a.child) = t
    BY <2>1 DEF Put, Without, IsSheet
  <2>3. a.slot \notin DOMAIN s
    BY <2>1 DEF Without
  <2> QED
    BY <1>5, <2>2, <2>3 DEF Executable, NewSlots, Erases
<1> QED
  BY <1>1, <1>2, <1>3, <1>4, <1>5

LEMMA LeadsNowhere ==
    ASSUME NEW s, NEW t, NEW undo PROVE Leads(s, <<>>, t, undo) <=> s = t
<1>1. Len(<<>>) = 0 /\ 1 .. 0 = {}
  OBVIOUS
<1>2. ASSUME s = t PROVE Leads(s, <<>>, t, undo)
  <2> DEFINE w == [i \in 0 .. 0 |-> s]
  <2>1. DOMAIN w = 0 .. 0 /\ w[0] = s /\ w[0] = t
    BY <1>2
  <2> QED
    BY <1>1, <2>1 DEF Leads
<1> QED
  BY <1>1, <1>2 DEF Leads

LEMMA LeadsOn ==
    ASSUME NEW S, NEW q \in Seq(S), NEW a \in S, NEW s, NEW t, NEW u,
           Leads(s, q, t, FALSE), Change(t, a, u)
    PROVE  Leads(s, Append(q, a), u, FALSE)
<1> DEFINE n == Len(q)
<1>1. PICK w : /\ DOMAIN w = 0 .. n
               /\ w[0] = s /\ w[n] = t
               /\ \A i \in 1 .. n : Move(w[i - 1], q[i], w[i], FALSE)
  BY DEF Leads
<1>2. /\ n \in Nat /\ Len(Append(q, a)) = n + 1
      /\ \A i \in 1 .. n : Append(q, a)[i] = q[i]
      /\ Append(q, a)[n + 1] = a
  BY LenProperties, AppendProperties
<1> HIDE DEF n
<1> DEFINE v == [i \in 0 .. n + 1 |-> IF i = n + 1 THEN u ELSE w[i]]
<1>3. DOMAIN v = 0 .. n + 1 /\ v[0] = s /\ v[n + 1] = u
  BY <1>1, <1>2
<1>4. ASSUME NEW i \in 1 .. n + 1
      PROVE  Move(v[i - 1], Append(q, a)[i], v[i], FALSE)
  <2>1. CASE i = n + 1
    <3>1. v[i] = u /\ v[i - 1] = t
      BY <1>1, <1>2, <2>1
    <3> QED
      BY <1>2, <2>1, <3>1 DEF Move
  <2>2. CASE i \in 1 .. n
    <3>1. v[i] = w[i] /\ v[i - 1] = w[i - 1]
      BY <1>2, <2>2
    <3> QED
      BY <1>1, <1>2, <2>2, <3>1
  <2> QED
    BY <1>2, <2>1, <2>2
<1> HIDE DEF v
<1> QED
  BY <1>2, <1>3, <1>4 DEF Leads

LEMMA LeadsHead ==
    ASSUME NEW S, NEW q \in Seq(S), q # <<>>, NEW s, NEW t, NEW undo,
           Leads(s, q, t, undo)
    PROVE  \E u : Move(s, Head(q), u, undo) /\ Leads(u, Tail(q), t, undo)
<1> DEFINE n == Len(q)
           r == Tail(q)
<1>1. PICK w : /\ DOMAIN w = 0 .. n
               /\ w[0] = s /\ w[n] = t
               /\ \A i \in 1 .. n : Move(w[i - 1], q[i], w[i], undo)
  BY DEF Leads
<1>2. /\ n \in Nat \ {0} /\ Head(q) = q[1] /\ Len(r) = n - 1
      /\ \A i \in 1 .. n - 1 : r[i] = q[i + 1]
  BY HeadFacts
<1> HIDE DEF n, r
<1> DEFINE v == [i \in 0 .. n - 1 |-> w[i + 1]]
<1>3. DOMAIN v = 0 .. n - 1 /\ v[0] = w[1] /\ v[n - 1] = t
  BY <1>1, <1>2
<1>4. ASSUME NEW i \in 1 .. n - 1 PROVE Move(v[i - 1], r[i], v[i], undo)
  <2>1. v[i] = w[i + 1] /\ v[i - 1] = w[i] /\ i + 1 \in 1 .. n /\ (i + 1) - 1 = i
    BY <1>2
  <2> QED
    BY <1>1, <1>2, <2>1
<1> HIDE DEF v
<1>5. Leads(w[1], r, t, undo)
  BY <1>2, <1>3, <1>4 DEF Leads
<1>6. Move(s, Head(q), w[1], undo)
  <2>1. 1 \in 1 .. n /\ 1 - 1 = 0
    BY <1>2
  <2> QED
    BY <1>1, <1>2, <2>1
<1> QED
  BY <1>5, <1>6 DEF r

LEMMA LeadsBack ==
    ASSUME NEW S, NEW q \in Seq(S), NEW s, NEW t, Leads(s, q, t, FALSE)
    PROVE  Leads(t, Reversed(q), s, TRUE)
<1> DEFINE n == Len(q)
           r == Reversed(q)
<1>1. PICK w : /\ DOMAIN w = 0 .. n
               /\ w[0] = s /\ w[n] = t
               /\ \A i \in 1 .. n : Move(w[i - 1], q[i], w[i], FALSE)
  BY DEF Leads
<1>2. /\ n \in Nat /\ Len(r) = n
      /\ \A i \in 1 .. n : r[i] = q[n + 1 - i]
  BY LenProperties, ReversedFacts
<1> HIDE DEF n, r
<1> DEFINE v == [i \in 0 .. n |-> w[n - i]]
<1>3. DOMAIN v = 0 .. n /\ v[0] = t /\ v[n] = s
  BY <1>1, <1>2
<1>4. ASSUME NEW i \in 1 .. n PROVE Move(v[i - 1], r[i], v[i], TRUE)
  <2> DEFINE j == n + 1 - i
  <2>1. /\ j \in 1 .. n /\ i - 1 \in 0 .. n /\ i \in 0 .. n
        /\ n - (i - 1) = j /\ n - i = j - 1
    BY <1>2
  <2>2. v[i - 1] = w[j] /\ v[i] = w[j - 1] /\ r[i] = q[j]
    BY <1>2, <2>1
  <2>3. Move(w[j - 1], q[j], w[j], FALSE)
    BY <1>1, <2>1
  <2> QED
    BY <2>2, <2>3 DEF Move
<1> HIDE DEF v
<1> QED
  BY <1>2, <1>3, <1>4 DEF Leads, r

----------------------------------------------------------------------------
(***************************************************************************)
(* What an action leaves behind.                                           *)
(***************************************************************************)
LEMMA PropertyFacts ==
    /\ Invalid \in Property /\ Children \subseteq Property
    /\ Invalid \notin Children
BY ContainersAssumption DEF Property

LEMMA AssignedType ==
    ASSUME NEW s, SlotsOK(s), kind \in {"Mapping", "Struct"},
           NEW k \in Keys, NEW v \in Property
    PROVE  SlotsOK(Assigned(s, k, v))
<1>1. SlotNames = Keys
  BY DEF SlotNames
<1>2. DOMAIN s \subseteq Keys
  BY <1>1 DEF SlotsOK
<1>3. CASE kind = "Mapping" /\ k \in DOMAIN s /\ v = Invalid
  BY <1>1, <1>2, <1>3 DEF Assigned, Without, SlotsOK
<1>4. CASE ~(kind = "Mapping" /\ k \in DOMAIN s /\ v = Invalid)
  BY <1>1, <1>2, <1>4 DEF Assigned, Put, SlotsOK
<1> QED
  BY <1>3, <1>4

LEMMA PutType ==
    ASSUME NEW s, SlotsOK(s), kind = "Sheet", NEW k \in Nat, NEW n \in Children
    PROVE  SlotsOK(Put(s, k, n))
BY PropertyFacts DEF SlotsOK, Put, SlotNames

LEMMA WithoutType ==
    ASSUME NEW s, SlotsOK(s), kind = "Sheet", NEW k PROVE SlotsOK(Without(s, k))
BY DEF SlotsOK, Without, SlotNames

LEMMA LinkedType ==
    ASSUME NEW c \in [Children -> ChildFields], NEW old, NEW new
    PROVE  Linked(c, old, new) \in [Children -> ChildFields]
BY DEF Linked, ChildFields

LEMMA NewSlotsType ==
    ASSUME NEW s, SlotsOK(s), kind \in {"Sheet", "Mapping", "Struct"},
           NEW a \in KindAction, NEW undo \in BOOLEAN
    PROVE  SlotsOK(NewSlots(s, a, undo))
<1>1. CASE kind = "Sheet"
  <2>1. a.type # "Assign" /\ a.slot \in Nat /\ a.child \in Children
    BY <1>1 DEF KindAction, SheetAction
  <2> QED
    BY <1>1, <2>1, PutType, WithoutType DEF NewSlots
<1>2. CASE kind # "Sheet"
  <2>1. /\ a.type = "Assign" /\ a.slot \in Keys
        /\ a.value \in Property /\ a.oldValue \in Property
    BY <1>2 DEF KindAction, PropertyAction
  <2> QED
    BY <1>2, <2>1, AssignedType DEF NewSlots, NewValue
<1> QED
  BY <1>1, <1>2

LEMMA NewChildType ==
    ASSUME NEW s, NEW c \in [Children -> ChildFields], NEW a, NEW undo
    PROVE  NewChild(s, c, a, undo) \in [Children -> ChildFields]
BY LinkedType DEF NewChild

LEMMA ActionKinds ==
    /\ KindAction \subseteq Action
    /\ kind = "Sheet" => KindAction = SheetAction
    /\ \A q \in Seq(KindAction) : q \in Seq(Action)
    /\ \A r \in Seq(Seq(KindAction)) : r \in Seq(Seq(Action))
<1>1. KindAction \subseteq Action /\ (kind = "Sheet" => KindAction = SheetAction)
  BY DEF KindAction, Action
<1>2. \A q \in Seq(KindAction) : q \in Seq(Action)
  BY <1>1, SeqWidens
<1>3. \A r \in Seq(Seq(KindAction)) : r \in Seq(Seq(Action))
  BY <1>2, SeqWidens
<1> QED
  BY <1>1, <1>2, <1>3

----------------------------------------------------------------------------
(***************************************************************************)
(* Init and the edits.                                                     *)
(***************************************************************************)
LEMMA InvInit == Init => IInv
<1> SUFFICES ASSUME Init PROVE IInv
  OBVIOUS
<1>1. /\ kind \in {"Sheet", "Mapping", "Struct"} /\ selfId \in Nat
      /\ txActions = <<>> /\ todo = <<>> /\ stack = <<>>
      /\ mstate = "Idle" /\ min = 0 /\ current = 0 /\ fault = "none"
      /\ given = {} /\ strayed = FALSE /\ sheetMax = 0
      /\ hist = [k \in {0} |-> slots]
  BY ContainersAssumption DEF Init
<1>2. SlotsOK(slots) /\ IsSheet(slots)
  BY PropertyFacts DEF Init, SlotsOK, SlotNames, IsSheet
<1>3. child \in [Children -> ChildFields]
  BY DEF Init, ChildFields
<1>4. StateOK
  <2>1. /\ <<>> \in Seq(KindAction) /\ <<>> \in Seq(Seq(KindAction))
        /\ <<>> \in Seq(Action) /\ <<>> \in Seq(Seq(Action))
        /\ Len(<<>>) = 0 /\ DOMAIN <<>> = {}
    OBVIOUS
  <2>2. TypeOK
    BY <1>1, <1>2, <1>3, <2>1 DEF TypeOK, SlotsOK, Transaction
  <2> QED
    BY <1>1, <1>2, <2>1, <2>2 DEF StateOK
<1>5. ASSUME kind = "Sheet" PROVE RecordOK /\ PathOK
  <2>1. DOMAIN slots = {}
    BY <1>5 DEF Init
  <2>2. Recorded = {}
    BY <1>1 DEF Recorded
  <2>3. RecordOK
    BY <1>1, <2>1, <2>2 DEF RecordOK
  <2>4. /\ DOMAIN hist = min .. min + Len(stack)
        /\ 1 .. Len(stack) = {} /\ min + current = 0 /\ hist[0] = slots
    BY <1>1
  <2>5. PathOK
    BY <1>1, <1>2, <2>4 DEF PathOK
  <2> QED
    BY <2>3, <2>5
<1> QED
  BY <1>4, <1>5 DEF IInv

\* What every edit does to the types.
LEMMA PushStep ==
    ASSUME StateOK, Editable, NEW a \in KindAction, Push(a),
           SlotsOK(slots'), child' \in [Children -> ChildFields],
           sheetMax' \in Nat, given' \subseteq Children, strayed' \in BOOLEAN
    PROVE  StateOK'
<1>1. /\ txActions' = Append(txActions, a)
      /\ UNCHANGED <<selfVars, mstate, todo, engineVars, fault>>
  BY DEF Push
<1>2. txActions' \in Seq(KindAction) /\ txActions' \in Seq(Action)
  <2>1. Append(txActions, a) \in Seq(KindAction)
    BY AppendProperties DEF StateOK
  <2> QED
    BY <1>1, <2>1, ActionKinds
<1>3. SlotNames' = SlotNames /\ KindAction' = KindAction /\ SlotsOK(slots)'
  BY <1>1 DEF selfVars, SlotNames, KindAction, SlotsOK
<1>4. TypeOK'
  BY <1>1, <1>2, <1>3
     DEF StateOK, TypeOK, SlotsOK, selfVars, engineVars, Transaction, Editable
<1> QED
  BY <1>1, <1>2, <1>3, <1>4
     DEF StateOK, selfVars, engineVars, Editable

\* What an edit of a sheet does to the records.
LEMMA RecordedAppend ==
    ASSUME StateOK, NEW a \in KindAction, Push(a)
    PROVE  \A b \in Recorded' : b \in Recorded \/ b = a
<1>1. txActions' = Append(txActions, a) /\ stack' = stack
  BY DEF Push, engineVars
<1>2. /\ txActions \in Seq(KindAction)
      /\ Len(txActions) \in Nat /\ DOMAIN txActions = 1 .. Len(txActions)
  BY LenProperties DEF StateOK
<1>3. /\ DOMAIN txActions' = 1 .. Len(txActions) + 1
      /\ \A i \in 1 .. Len(txActions) : txActions'[i] = txActions[i]
      /\ txActions'[Len(txActions) + 1] = a
  BY <1>1, <1>2, AppendProperties, LenProperties
<1>4. ASSUME NEW i \in DOMAIN txActions' PROVE txActions'[i] \in Recorded \cup {a}
  BY <1>2, <1>3 DEF Recorded
<1> QED
  BY <1>1, <1>4 DEF Recorded

LEMMA RecordedKind == ASSUME StateOK PROVE Recorded \subseteq KindAction
<1>1. \A i \in DOMAIN txActions : txActions[i] \in KindAction
  BY ElementOfSeq, LenProperties DEF StateOK
<1>2. ASSUME NEW i \in DOMAIN stack, NEW j \in DOMAIN stack[i]
      PROVE  stack[i][j] \in KindAction
  <2>1. stack[i] \in Seq(KindAction)
    BY ElementOfSeq, LenProperties DEF StateOK
  <2> QED
    BY <2>1, ElementOfSeq, LenProperties
<1> QED
  BY <1>1, <1>2 DEF Recorded

\* An edit that is recorded leads on from the current step.
LEMMA PushPath ==
    ASSUME StateOK, PathOK, kind = "Sheet", Editable, NEW a \in KindAction,
           Push(a), Change(slots, a, slots')
    PROVE  PathOK'
<1>1. /\ txActions' = Append(txActions, a)
      /\ mstate' = mstate /\ todo' = todo /\ hist' = hist /\ stack' = stack
      /\ min' = min /\ current' = current /\ fault' = fault
      /\ mstate = "Transaction" /\ todo = <<>>
  BY DEF Push, engineVars, Editable
<1>2. Leads(hist[min + current], txActions, slots, FALSE)
  BY <1>1 DEF PathOK
<1>3. Leads(hist[min + current], txActions', slots', FALSE)
  <2>1. txActions \in Seq(KindAction)
    BY DEF StateOK
  <2> QED
    BY ONLY <1>1, <1>2, <2>1, a \in KindAction, Change(slots, a, slots'), LeadsOn
<1>4. IsSheet(slots')
  BY DEF Change
<1> QED
  BY <1>1, <1>3, <1>4 DEF PathOK, IsSheet

LEMMA SheetInsertStep ==
    ASSUME IInv, NEW n \in Children, SheetInsert(n) PROVE IInv'
<1> DEFINE a == [type |-> "SheetInsert", slot |-> sheetMax + 1, child |-> n]
<1>1. /\ Editable /\ kind = "Sheet" /\ Push(a)
      /\ sheetMax' = sheetMax + 1
      /\ slots' = NewSlots(slots, a, FALSE)
      /\ child' = NewChild(slots, child, a, FALSE)
      /\ Passed(n)
  BY DEF SheetInsert
<1>2. /\ StateOK /\ sheetMax \in Nat /\ SlotsOK(slots)
      /\ child \in [Children -> ChildFields]
      /\ given \subseteq Children /\ strayed \in BOOLEAN
  BY DEF IInv, StateOK, TypeOK
<1>3. a \in SheetAction /\ a \in KindAction
  <2>1. sheetMax + 1 \in Nat
    BY <1>2
  <2>2. a \in SheetAction
    BY ONLY <2>1, n \in Children DEF SheetAction
  <2> QED
    BY <1>1, <2>2, ActionKinds
<1>4. SlotsOK(slots') /\ child' \in [Children -> ChildFields]
  BY <1>1, <1>2, <1>3, NewSlotsType, NewChildType
<1>5. given' \subseteq Children /\ strayed' = strayed
  BY <1>1, <1>2 DEF Passed
<1> HIDE DEF a
<1>6. StateOK'
  <2>1. sheetMax' \in Nat
    BY <1>1, <1>2
  <2> QED
    BY <1>1, <1>2, <1>3, <1>4, <1>5, <2>1, PushStep
<1>7. kind' = kind
  BY <1>1 DEF Push, selfVars
<1>8. ASSUME ~strayed PROVE RecordOK' /\ PathOK'
  <2>1. RecordOK /\ PathOK
    BY <1>1, <1>8 DEF IInv
  <2>2. a.type = "SheetInsert" /\ a.slot = sheetMax + 1 /\ a.child = n
    BY DEF a
  <2>3. /\ \A k \in DOMAIN slots : k \in Nat /\ k <= sheetMax
        /\ a.slot \notin DOMAIN slots
    BY <1>1, <1>2, <2>1, <2>2 DEF RecordOK, SlotsOK, SlotNames
  <2>4. slots' = Put(slots, a.slot, n)
    BY <1>1, <2>2, <2>3 DEF NewSlots, Erases
  <2>5. /\ DOMAIN slots' = DOMAIN slots \cup {a.slot}
        /\ \A k \in DOMAIN slots : slots'[k] = slots[k]
        /\ slots'[a.slot] = n
    BY <2>3, <2>4 DEF Put
  <2>6. Change(slots, a, slots')
    <3>1. IsSheet(slots) /\ IsSheet(slots')
      BY <2>1, <2>4 DEF PathOK, IsSheet, Put
    <3> QED
      BY <2>2, <2>3, <2>4, <3>1 DEF Change
  <2>7. PathOK'
    BY <1>1, <1>2, <1>3, <2>1, <2>6, PushPath
  <2>8. \A b \in Recorded' : b \in Recorded \/ b = a
    BY <1>1, <1>2, <1>3, RecordedAppend
  <2>9. \A b \in Recorded : b.slot # a.slot /\ b.slot <= sheetMax
    <3>1. \A b \in Recorded : b \in SheetAction
      <4>1. KindAction = SheetAction
        BY <1>1, ActionKinds
      <4> QED
        BY <1>2, <4>1, RecordedKind
    <3>2. \A b \in Recorded : b.slot \in Nat /\ b.slot <= sheetMax
      BY <2>1, <3>1 DEF RecordOK, SheetAction
    <3> QED
      BY <1>2, <2>2, <3>2
  <2>10. RecordOK'
    <3>1. ASSUME NEW b \in Recorded', NEW c \in Recorded', b.slot = c.slot
          PROVE  b.child = c.child
      BY <2>1, <2>8, <2>9, <3>1 DEF RecordOK
    <3>2. ASSUME NEW b \in Recorded', b.slot \in DOMAIN slots'
          PROVE  slots'[b.slot] = b.child
      BY <2>1, <2>2, <2>5, <2>8, <2>9, <3>2 DEF RecordOK
    <3>3. ASSUME NEW b \in Recorded' PROVE b.slot <= sheetMax'
      <4>1. CASE b = a
        BY <1>1, <1>2, <2>2, <4>1
      <4>2. CASE b \in Recorded
        <5>1. b.slot \in Nat /\ b.slot <= sheetMax
          <6>1. b \in SheetAction
            BY <1>1, <1>2, <4>2, ActionKinds, RecordedKind
          <6> QED
            BY <2>9, <4>2, <6>1 DEF SheetAction
        <5> QED
          BY <1>1, <1>2, <5>1
      <4> QED
        BY <2>8, <4>1, <4>2
    <3>4. ASSUME NEW k \in DOMAIN slots' PROVE k <= sheetMax'
      <4>1. k \in Nat /\ (k <= sheetMax \/ k = sheetMax + 1)
        BY <1>2, <2>2, <2>3, <2>5
      <4> QED
        BY ONLY <1>1, <1>2, <4>1
    <3>5. DOMAIN todo' = {}
      BY <1>1 DEF Push, Editable
    <3> QED
      BY <3>1, <3>2, <3>3, <3>4, <3>5 DEF RecordOK
  <2> QED
    BY <2>7, <2>10
<1> QED
  BY <1>1, <1>5, <1>6, <1>7, <1>8 DEF IInv

LEMMA SheetRemoveStep ==
    ASSUME IInv, NEW id \in 1 .. MaxSheet, SheetRemove(id) PROVE IInv'
<1> DEFINE a == [type |-> "SheetRemove", slot |-> id, child |-> slots[selfId]]
<1>1. /\ Editable /\ kind = "Sheet" /\ Push(a)
      /\ selfId \in DOMAIN slots
      /\ slots' = Without(slots, selfId)
      /\ child' = Linked(child, slots[selfId], Invalid)
      /\ strayed' = (strayed \/ id # selfId)
      /\ UNCHANGED <<sheetMax, given>>
  BY DEF SheetRemove
<1>2. /\ StateOK /\ sheetMax \in Nat /\ SlotsOK(slots) /\ selfId \in Nat
      /\ child \in [Children -> ChildFields]
      /\ given \subseteq Children /\ strayed \in BOOLEAN
  BY DEF IInv, StateOK, TypeOK
<1>3. a \in SheetAction /\ a \in KindAction
  <2>1. slots[selfId] \in Children /\ id \in Nat
    BY <1>1, <1>2 DEF SlotsOK
  <2> QED
    BY <1>1, <2>1, ActionKinds DEF SheetAction
<1>4. SlotsOK(slots') /\ child' \in [Children -> ChildFields]
  BY <1>1, <1>2, WithoutType, LinkedType
<1>5. given' \subseteq Children /\ sheetMax' \in Nat /\ strayed' \in BOOLEAN
  BY <1>1, <1>2
<1> HIDE DEF a
<1>6. StateOK'
  BY <1>1, <1>2, <1>3, <1>4, <1>5, PushStep
<1>7. kind' = kind
  BY <1>1 DEF Push, selfVars
<1>8. ASSUME ~strayed' PROVE RecordOK' /\ PathOK'
  <2>1. RecordOK /\ PathOK /\ id = selfId
    BY <1>1, <1>8 DEF IInv
  <2>2. /\ a.type = "SheetRemove" /\ a.slot = selfId
        /\ a.child = slots[selfId]
    BY <2>1 DEF a
  <2>3. /\ DOMAIN slots' = DOMAIN slots \ {selfId}
        /\ \A k \in DOMAIN slots' : slots'[k] = slots[k]
    BY <1>1 DEF Without
  <2>4. Change(slots, a, slots')
    <3>1. IsSheet(slots) /\ IsSheet(slots')
      BY <1>1, <2>1 DEF PathOK, IsSheet, Without
    <3> QED
      BY <1>1, <2>2, <3>1 DEF Change
  <2>5. PathOK'
    BY <1>1, <1>2, <1>3, <2>1, <2>4, PushPath
  <2>6. \A b \in Recorded' : b \in Recorded \/ b = a
    BY <1>1, <1>2, <1>3, RecordedAppend
  <2>7. RecordOK'
    <3>1. ASSUME NEW b \in Recorded', NEW c \in Recorded', b.slot = c.slot
          PROVE  b.child = c.child
      BY <1>1, <2>1, <2>2, <2>6, <3>1 DEF RecordOK
    <3>2. ASSUME NEW b \in Recorded', b.slot \in DOMAIN slots'
          PROVE  slots'[b.slot] = b.child
      BY <2>1, <2>2, <2>3, <2>6, <3>2 DEF RecordOK
    <3>3. ASSUME NEW b \in Recorded' PROVE b.slot <= sheetMax'
      BY <1>1, <2>1, <2>2, <2>6 DEF RecordOK
    <3>4. ASSUME NEW k \in DOMAIN slots' PROVE k <= sheetMax'
      BY <1>1, <2>1, <2>3 DEF RecordOK
    <3>5. DOMAIN todo' = {}
      BY <1>1 DEF Push, Editable
    <3> QED
      BY <3>1, <3>2, <3>3, <3>4, <3>5 DEF RecordOK
  <2> QED
    BY <2>5, <2>7
<1> QED
  BY <1>1, <1>6, <1>7, <1>8 DEF IInv

LEMMA SetPropertyStep ==
    ASSUME IInv, NEW k \in Keys, NEW v \in Property, SetProperty(k, v)
    PROVE  IInv'
<1> DEFINE a == NewPropertyAction(k, SlotValue(slots, k), v)
<1>1. /\ Editable /\ kind = "Mapping" /\ Push(a)
      /\ slots' = Assigned(slots, k, v)
      /\ child' = Linked(child, SlotValue(slots, k), v)
      /\ sheetMax' = sheetMax /\ Passed(v)
  BY DEF SetProperty
<1>2. /\ StateOK /\ sheetMax \in Nat /\ SlotsOK(slots)
      /\ child \in [Children -> ChildFields]
      /\ given \subseteq Children /\ strayed \in BOOLEAN
  BY DEF IInv, StateOK, TypeOK
<1>3. a \in KindAction
  <2>1. SlotValue(slots, k) \in Property
    BY <1>2, PropertyFacts DEF SlotValue, SlotsOK
  <2> QED
    BY <1>1, <2>1 DEF KindAction, PropertyAction, NewPropertyAction
<1>4. SlotsOK(slots') /\ child' \in [Children -> ChildFields]
  BY <1>1, <1>2, AssignedType, LinkedType
<1>5. given' \subseteq Children /\ strayed' \in BOOLEAN
  BY <1>1, <1>2 DEF Passed
<1> HIDE DEF a
<1>6. StateOK' /\ kind' # "Sheet"
  BY <1>1, <1>2, <1>3, <1>4, <1>5, PushStep DEF Push, selfVars
<1> QED
  BY <1>6 DEF IInv

LEMMA SetAtStep ==
    ASSUME IInv, NEW k \in Keys, NEW v \in Property, SetAt(k, v) PROVE IInv'
<1> DEFINE a == NewPropertyAction(k, slots[k], v)
<1>1. /\ Editable /\ kind = "Struct" /\ Push(a)
      /\ slots' = NewSlots(slots, a, FALSE)
      /\ child' = NewChild(slots, child, a, FALSE)
      /\ sheetMax' = sheetMax /\ Passed(v)
  BY DEF SetAt
<1>2. /\ StateOK /\ sheetMax \in Nat /\ SlotsOK(slots)
      /\ child \in [Children -> ChildFields]
      /\ given \subseteq Children /\ strayed \in BOOLEAN
  BY DEF IInv, StateOK, TypeOK
<1>3. a \in KindAction
  <2>1. slots[k] \in Property
    BY <1>1, <1>2 DEF SlotsOK
  <2> QED
    BY <1>1, <2>1 DEF KindAction, PropertyAction, NewPropertyAction
<1> HIDE DEF a
<1>4. SlotsOK(slots') /\ child' \in [Children -> ChildFields]
  BY <1>1, <1>2, <1>3, NewSlotsType, NewChildType
<1>5. given' \subseteq Children /\ strayed' \in BOOLEAN
  BY <1>1, <1>2 DEF Passed
<1>6. StateOK' /\ kind' # "Sheet"
  BY <1>1, <1>2, <1>3, <1>4, <1>5, PushStep DEF Push, selfVars
<1> QED
  BY <1>6 DEF IInv
----------------------------------------------------------------------------
(***************************************************************************)
(* The transactions.                                                       *)
(***************************************************************************)

\* What a call of the model that leaves the document alone does to the types
\* and the records.
LEMMA QuietTypes ==
    ASSUME StateOK, UNCHANGED <<selfVars, contentVars, clientVars, fault>>,
           stack' \in Seq(Seq(KindAction)), min' \in Nat, current' \in Nat,
           current' <= Len(stack'), \A i \in DOMAIN stack' : stack'[i] # <<>>,
           txActions' \in Seq(KindAction), todo' \in Seq(KindAction),
           mstate' \in {"Idle", "Transaction", "Undo", "Redo"},
           mstate' = "Idle" => todo' = <<>> /\ txActions' = <<>>,
           mstate' = "Undo" => todo' # <<>> /\ current' # 0,
           mstate' = "Redo" => todo' # <<>> /\ current' # Len(stack')
    PROVE  StateOK'
<1>1. /\ SlotNames' = SlotNames /\ KindAction' = KindAction
      /\ SlotsOK(slots)' /\ Transaction' = Seq(Action)
  BY DEF selfVars, contentVars, SlotNames, KindAction, SlotsOK, StateOK, Transaction
<1>2. /\ stack' \in Seq(Seq(Action)) /\ txActions' \in Seq(Action)
      /\ todo' \in Seq(Action)
  BY ActionKinds
<1>3. TypeOK'
  BY <1>1, <1>2
     DEF StateOK, TypeOK, selfVars, contentVars, clientVars, Transaction
<1> QED
  BY <1>1, <1>3 DEF StateOK, selfVars

LEMMA QuietRecord ==
    ASSUME RecordOK, UNCHANGED <<slots, sheetMax>>, Recorded' \subseteq Recorded,
           \A i \in DOMAIN todo' : todo'[i] \in Recorded'
    PROVE  RecordOK'
BY DEF RecordOK

LEMMA RecordedSame ==
    ASSUME UNCHANGED <<stack, txActions>> PROVE Recorded' = Recorded
BY DEF Recorded

LEMMA BeginTransactionStep == ASSUME IInv, BeginTransaction PROVE IInv'
<1>1. /\ UNCHANGED <<selfVars, contentVars, clientVars, txActions, todo,
                     engineVars, fault>>
      /\ UNCHANGED <<slots, sheetMax, stack, min, current, hist, kind, strayed>>
      /\ mstate = "Idle" /\ mstate' = "Transaction"
  BY DEF BeginTransaction, selfVars, contentVars, clientVars, engineVars
<1>2. StateOK /\ todo = <<>> /\ txActions = <<>> /\ KindAction' = KindAction
  BY <1>1 DEF IInv, StateOK, KindAction
<1>3. StateOK'
  BY <1>1, <1>2, QuietTypes DEF StateOK, TypeOK
<1>4. ASSUME RecordOK, PathOK PROVE RecordOK' /\ PathOK'
  <2>1. Recorded' = Recorded
    BY <1>1, RecordedSame
  <2>2. RecordOK'
    BY <1>1, <1>4, <2>1, QuietRecord DEF RecordOK
  <2>3. Leads(hist[min + current], txActions, slots, FALSE)
    BY <1>1, <1>2, <1>4, LeadsNowhere DEF PathOK
  <2>4. PathOK'
    BY <1>1, <1>2, <1>4, <2>3 DEF PathOK, IsSheet
  <2> QED
    BY <2>2, <2>4
<1> QED
  BY <1>1, <1>3, <1>4 DEF IInv

LEMMA CommitNothingStep == ASSUME IInv, CommitNothing PROVE IInv'
<1>1. /\ UNCHANGED <<selfVars, contentVars, clientVars, txActions, todo,
                     engineVars, fault>>
      /\ UNCHANGED <<slots, sheetMax, stack, min, current, hist, kind, strayed>>
      /\ mstate = "Transaction" /\ todo = <<>> /\ txActions = <<>>
      /\ mstate' = "Idle"
  BY DEF CommitNothing, Ready, selfVars, contentVars, clientVars, engineVars
<1>2. StateOK
  BY DEF IInv
<1>3. StateOK'
  BY <1>1, <1>2, QuietTypes DEF StateOK, TypeOK
<1>4. ASSUME RecordOK, PathOK PROVE RecordOK' /\ PathOK'
  <2>1. Recorded' = Recorded
    BY <1>1, RecordedSame
  <2>2. RecordOK'
    BY <1>1, <1>4, <2>1, QuietRecord DEF RecordOK
  <2>3. slots = hist[min + current]
    BY <1>1, <1>4, LeadsNowhere DEF PathOK
  <2>4. PathOK'
    BY <1>1, <1>4, <2>3 DEF PathOK, IsSheet
  <2> QED
    BY <2>2, <2>4
<1> QED
  BY <1>1, <1>3, <1>4 DEF IInv

\* The transaction of a call that executes backwards.
LEMMA ReversedTodo ==
    ASSUME StateOK, NEW q \in Seq(KindAction), \A i \in DOMAIN q : q[i] \in Recorded
    PROVE  /\ Reversed(q) \in Seq(KindAction)
           /\ Reversed(q) = <<>> <=> q = <<>>
           /\ \A i \in DOMAIN Reversed(q) : Reversed(q)[i] \in Recorded
<1>1. /\ Reversed(q) \in Seq(KindAction) /\ Len(Reversed(q)) = Len(q)
      /\ \A i \in 1 .. Len(q) : Reversed(q)[i] = q[Len(q) + 1 - i]
  BY ReversedFacts
<1>2. Len(q) \in Nat /\ DOMAIN q = 1 .. Len(q) /\ DOMAIN Reversed(q) = 1 .. Len(q)
  BY <1>1, LenProperties
<1>3. \A i \in 1 .. Len(q) : Len(q) + 1 - i \in DOMAIN q
  BY <1>2
<1> QED
  BY <1>1, <1>2, <1>3, ReversedEmpty

LEMMA AbortTransactionStep == ASSUME IInv, AbortTransaction PROVE IInv'
<1>1. /\ UNCHANGED <<selfVars, contentVars, clientVars, txActions, engineVars, fault>>
      /\ UNCHANGED <<slots, sheetMax, stack, min, current, hist, kind, strayed>>
      /\ mstate = "Transaction" /\ todo = <<>>
      /\ todo' = Reversed(txActions)
      /\ mstate' = IF txActions = <<>> THEN "Idle" ELSE mstate
  BY DEF AbortTransaction, Ready, selfVars, contentVars, clientVars, engineVars
<1>2. StateOK
  BY DEF IInv
<1>3. /\ Reversed(txActions) \in Seq(KindAction)
      /\ Reversed(txActions) = <<>> <=> txActions = <<>>
      /\ \A i \in DOMAIN Reversed(txActions) : Reversed(txActions)[i] \in Recorded
  <2>1. txActions \in Seq(KindAction)
    BY <1>2 DEF StateOK
  <2>2. \A i \in DOMAIN txActions : txActions[i] \in Recorded
    BY DEF Recorded
  <2> QED
    BY ONLY <1>2, <2>1, <2>2, ReversedTodo
<1>4. StateOK'
  BY <1>1, <1>2, <1>3, QuietTypes DEF StateOK, TypeOK
<1>5. ASSUME RecordOK, PathOK PROVE RecordOK' /\ PathOK'
  <2>1. Recorded' = Recorded
    BY <1>1, RecordedSame
  <2>2. RecordOK'
    BY <1>1, <1>3, <1>5, <2>1, QuietRecord
  <2>3. Leads(hist[min + current], txActions, slots, FALSE)
    BY <1>1, <1>5 DEF PathOK
  <2>4. Leads(slots, Reversed(txActions), hist[min + current], TRUE)
    BY <1>2, <2>3, LeadsBack DEF StateOK
  <2>5. ASSUME txActions = <<>> PROVE slots = hist[min + current]
    BY ONLY <2>3, <2>5, LeadsNowhere
  <2>6. PathOK'
    BY <1>1, <1>3, <1>5, <2>4, <2>5 DEF PathOK, IsSheet
  <2> QED
    BY <2>2, <2>6
<1> QED
  BY <1>1, <1>4, <1>5 DEF IInv

\* A transaction of the stack, and the steps it lies between.
LEMMA StackFacts ==
    ASSUME StateOK, NEW k \in 1 .. Len(stack)
    PROVE  /\ stack[k] \in Seq(KindAction) /\ stack[k] # <<>>
           /\ \A i \in DOMAIN stack[k] : stack[k][i] \in Recorded
<1>1. DOMAIN stack = 1 .. Len(stack)
  BY LenProperties DEF StateOK
<1>2. stack[k] \in Seq(KindAction)
  BY ElementOfSeq DEF StateOK
<1>3. stack[k] # <<>>
  BY <1>1 DEF StateOK
<1>4. ASSUME NEW i \in DOMAIN stack[k] PROVE stack[k][i] \in Recorded
  <2>1. /\ stack[k][i] \in {stack[k][j] : j \in DOMAIN stack[k]}
        /\ k \in DOMAIN stack
    BY <1>1
  <2> QED
    BY <2>1, Zenon DEF Recorded
<1> QED
  BY <1>2, <1>3, <1>4

LEMMA UndoStep == ASSUME IInv, Undo PROVE IInv'
<1>1. /\ UNCHANGED <<selfVars, contentVars, clientVars, txActions, engineVars, fault>>
      /\ UNCHANGED <<slots, sheetMax, stack, min, current, hist, kind, strayed>>
      /\ mstate = "Idle" /\ current # 0
      /\ todo' = Reversed(stack[current]) /\ mstate' = "Undo"
  BY DEF Undo, selfVars, contentVars, clientVars, engineVars
<1>2. StateOK /\ min \in Nat /\ current \in 1 .. Len(stack)
  <2>1. /\ StateOK /\ min \in Nat /\ current \in Nat /\ current <= Len(stack)
        /\ stack \in Seq(Seq(KindAction))
    BY DEF IInv, StateOK, TypeOK
  <2>2. Len(stack) \in Nat
    BY ONLY <2>1, LenProperties
  <2> QED
    BY ONLY <1>1, <2>1, <2>2
<1>3. stack[current] \in Seq(KindAction)
  BY <1>2, StackFacts
<1>4. /\ Reversed(stack[current]) \in Seq(KindAction)
      /\ Reversed(stack[current]) # <<>>
      /\ \A i \in DOMAIN Reversed(stack[current]) :
            Reversed(stack[current])[i] \in Recorded
  BY <1>2, <1>3, StackFacts, ReversedTodo
<1>5. StateOK'
  BY <1>1, <1>2, <1>4, QuietTypes DEF StateOK, TypeOK
<1>6. ASSUME RecordOK, PathOK PROVE RecordOK' /\ PathOK'
  <2>1. Recorded' = Recorded
    BY <1>1, RecordedSame
  <2>2. RecordOK'
    BY <1>1, <1>4, <1>6, <2>1, QuietRecord
  <2>3. Leads(hist[min + current - 1], stack[current], hist[min + current], FALSE)
    BY <1>2, <1>6 DEF PathOK
  <2>4. Leads(slots, Reversed(stack[current]), hist[min + current - 1], TRUE)
    BY <1>1, <1>3, <1>6, <2>3, LeadsBack DEF PathOK
  <2>5. PathOK'
    BY <1>1, <1>6, <2>4 DEF PathOK, IsSheet
  <2> QED
    BY <2>2, <2>5
<1> QED
  BY <1>1, <1>5, <1>6 DEF IInv

LEMMA RedoStep == ASSUME IInv, Redo PROVE IInv'
<1>1. /\ UNCHANGED <<selfVars, contentVars, clientVars, txActions, engineVars, fault>>
      /\ UNCHANGED <<slots, sheetMax, stack, min, current, hist, kind, strayed>>
      /\ mstate = "Idle" /\ current # Len(stack)
      /\ todo' = stack[current + 1] /\ mstate' = "Redo"
  BY DEF Redo, selfVars, contentVars, clientVars, engineVars
<1>2. StateOK /\ min \in Nat /\ current \in Nat /\ current + 1 \in 1 .. Len(stack)
  <2>1. /\ StateOK /\ min \in Nat /\ current \in Nat /\ current <= Len(stack)
        /\ stack \in Seq(Seq(KindAction))
    BY DEF IInv, StateOK, TypeOK
  <2>2. Len(stack) \in Nat
    BY ONLY <2>1, LenProperties
  <2> QED
    BY ONLY <1>1, <2>1, <2>2
<1>3. /\ stack[current + 1] \in Seq(KindAction) /\ stack[current + 1] # <<>>
      /\ \A i \in DOMAIN stack[current + 1] : stack[current + 1][i] \in Recorded
  BY <1>2, StackFacts
<1>4. StateOK'
  BY <1>1, <1>2, <1>3, QuietTypes DEF StateOK, TypeOK
<1>5. ASSUME RecordOK, PathOK PROVE RecordOK' /\ PathOK'
  <2>1. Recorded' = Recorded
    BY <1>1, RecordedSame
  <2>2. RecordOK'
    BY <1>1, <1>3, <1>5, <2>1, QuietRecord
  <2>3. Leads(slots, stack[current + 1], hist[min + current + 1], FALSE)
    <3>1. Leads(hist[min + (current + 1) - 1], stack[current + 1],
                hist[min + (current + 1)], FALSE)
      BY <1>2, <1>5 DEF PathOK
    <3>2. /\ min + (current + 1) - 1 = min + current
          /\ min + (current + 1) = min + current + 1
      BY <1>2
    <3> QED
      BY <1>1, <1>5, <3>1, <3>2 DEF PathOK
  <2>4. PathOK'
    BY <1>1, <1>5, <2>3 DEF PathOK, IsSheet
  <2> QED
    BY <2>2, <2>4
<1> QED
  BY <1>1, <1>4, <1>5 DEF IInv

----------------------------------------------------------------------------
(***************************************************************************)
(* Commit.                                                                 *)
(***************************************************************************)

\* The stack that commit leaves, with and without the trim at the front.
LEMMA CommitFacts ==
    ASSUME StateOK, Engine!CommitWindow(txActions)
    PROVE  \E d \in 0 .. current :
              /\ stack' \in Seq(Seq(KindAction))
              /\ Len(stack') = current + 1 - d
              /\ min' = min + d
              /\ current' = current + 1 - d
              /\ \A i \in 1 .. current - d : stack'[i] = stack[i + d]
              /\ stack'[current + 1 - d] = txActions
<1> DEFINE T == Seq(KindAction)
           kept == SubSeq(stack, 1, current)
           pushed == Append(kept, txActions)
<1>0. pushed = Engine!Pushed(txActions)
  BY DEF Engine!Pushed, Engine!Truncated
<1>1. /\ stack \in Seq(T) /\ current \in Nat /\ min \in Nat
      /\ current <= Len(stack) /\ txActions \in T
      /\ MaxSteps \in Nat /\ MaxSteps >= 4
  BY ContainersAssumption DEF StateOK, TypeOK
<1> HIDE DEF T
<1>2. Len(stack) \in Nat /\ \A i \in 1 .. Len(stack) : stack[i] \in T
  BY ONLY <1>1, LenProperties, ElementOfSeq
<1>3. /\ kept \in Seq(T) /\ Len(kept) = current
      /\ \A i \in 1 .. current : kept[i] = stack[i]
  <2>1. \A i \in 1 .. current : stack[i] \in T
    BY <1>1, <1>2
  <2> QED
    BY ONLY <1>1, <2>1, SubSeqProperties
<1>4. /\ pushed \in Seq(T) /\ Len(pushed) = current + 1
      /\ \A i \in 1 .. current : pushed[i] = stack[i]
      /\ pushed[current + 1] = txActions
  BY ONLY <1>1, <1>3, AppendProperties
<1> HIDE DEF kept, pushed
<1>5. CASE current + 1 > 2 * MaxSteps
  <2> DEFINE cut == SubSeq(pushed, MaxSteps + 1, current + 1)
  <2>1. /\ stack' = cut
        /\ min' = min + MaxSteps /\ current' = current + 1 - MaxSteps
    BY <1>0, <1>5 DEF Engine!CommitWindow
  <2>2. /\ cut \in Seq(T) /\ Len(cut) = current + 1 - MaxSteps
        /\ \A i \in 1 .. current + 1 - MaxSteps : cut[i] = pushed[MaxSteps + i]
    <3>1. \A i \in 1 .. Len(pushed) : pushed[i] \in T
      BY ONLY <1>4, ElementOfSeq
    <3>2. /\ MaxSteps + 1 \in Int /\ current + 1 \in Int
          /\ \A i \in MaxSteps + 1 .. current + 1 : pushed[i] \in T
      BY ONLY <1>1, <1>4, <3>1
    <3>3. /\ cut \in Seq(T)
          /\ Len(cut) = IF MaxSteps + 1 <= current + 1
                        THEN (current + 1) - (MaxSteps + 1) + 1 ELSE 0
          /\ \A i \in 1 .. (current + 1) - (MaxSteps + 1) + 1 :
                cut[i] = pushed[(MaxSteps + 1) + i - 1]
      BY ONLY <3>2, SubSeqProperties
    <3>4. /\ (current + 1) - (MaxSteps + 1) + 1 = current + 1 - MaxSteps
          /\ MaxSteps + 1 <= current + 1
          /\ \A i \in 1 .. current + 1 - MaxSteps :
                (MaxSteps + 1) + i - 1 = MaxSteps + i
      BY ONLY <1>1, <1>5
    <3> HIDE DEF cut
    <3> QED
      BY ONLY <3>3, <3>4
  <2> HIDE DEF cut
  <2>3. ASSUME NEW i \in 1 .. current - MaxSteps
        PROVE  cut[i] = stack[i + MaxSteps]
    <3>1. /\ i \in 1 .. current + 1 - MaxSteps
          /\ MaxSteps + i \in 1 .. current /\ MaxSteps + i = i + MaxSteps
      BY ONLY <1>1, <1>5, i \in 1 .. current - MaxSteps
    <3> QED
      BY ONLY <1>4, <2>2, <3>1
  <2>4. cut[current + 1 - MaxSteps] = txActions
    <3>1. /\ current + 1 - MaxSteps \in 1 .. current + 1 - MaxSteps
          /\ MaxSteps + (current + 1 - MaxSteps) = current + 1
      BY ONLY <1>1, <1>5
    <3> QED
      BY ONLY <1>4, <2>2, <3>1
  <2> MaxSteps \in 0 .. current
    BY ONLY <1>1, <1>5
  <2> WITNESS MaxSteps \in 0 .. current
  <2> QED
    BY ONLY <2>1, <2>2, <2>3, <2>4 DEF T
<1>6. CASE ~(current + 1 > 2 * MaxSteps)
  <2>1. stack' = pushed /\ min' = min /\ current' = current + 1
    BY <1>0, <1>6 DEF Engine!CommitWindow
  <2>2. 0 \in 0 .. current /\ current + 1 - 0 = current + 1
        /\ min + 0 = min /\ current - 0 = current
        /\ \A i \in 1 .. current : i + 0 = i
    BY ONLY <1>1
  <2> 0 \in 0 .. current
    BY ONLY <2>2
  <2> WITNESS 0 \in 0 .. current
  <2> QED
    BY ONLY <1>4, <2>1, <2>2 DEF T
<1> QED
  BY <1>5, <1>6

LEMMA CommitStep == ASSUME IInv, Commit PROVE IInv'
<1>1. /\ UNCHANGED <<selfVars, slots, clientVars, todo, fault>>
      /\ UNCHANGED <<sheetMax, kind, strayed>>
      /\ mstate = "Transaction" /\ todo = <<>> /\ txActions # <<>>
      /\ mstate' = "Idle" /\ txActions' = <<>>
      /\ child' = [n \in Children |->
            [child[n] EXCEPT !.managed = @ \/ n \in
               UNION {QueryInserted(txActions[i]) : i \in DOMAIN txActions}]]
      /\ Engine!CommitWindow(txActions)
      /\ hist' = [k \in min' .. min' + current' |->
                     IF k <= min + current THEN hist[k] ELSE slots]
  BY DEF Commit, Ready, selfVars, clientVars, Engine!currentStep
<1>2. /\ StateOK /\ min \in Nat /\ current \in Nat /\ current <= Len(stack)
      /\ Len(stack) \in Nat /\ DOMAIN stack = 1 .. Len(stack)
      /\ txActions \in Seq(KindAction)
  <2>1. /\ StateOK /\ min \in Nat /\ current \in Nat /\ current <= Len(stack)
        /\ stack \in Seq(Seq(KindAction)) /\ txActions \in Seq(KindAction)
    BY DEF IInv, StateOK, TypeOK
  <2> QED
    BY ONLY <2>1, LenProperties
<1>3. PICK d \in 0 .. current :
         /\ stack' \in Seq(Seq(KindAction))
         /\ Len(stack') = current + 1 - d
         /\ min' = min + d
         /\ current' = current + 1 - d
         /\ \A i \in 1 .. current - d : stack'[i] = stack[i + d]
         /\ stack'[current + 1 - d] = txActions
  BY <1>1, <1>2, CommitFacts
<1>9. /\ Len(stack') = current + 1 - d /\ min' = min + d
      /\ current' = current + 1 - d
  BY ONLY <1>3
<1>4. /\ DOMAIN stack' = 1 .. current + 1 - d
      /\ min' \in Nat /\ current' \in Nat /\ current' <= Len(stack')
      /\ min' + current' = min + current + 1
  <2>1. DOMAIN stack' = 1 .. Len(stack')
    BY ONLY <1>3, LenProperties
  <2>2. /\ min + d \in Nat /\ current + 1 - d \in Nat
        /\ (min + d) + (current + 1 - d) = min + current + 1
    BY ONLY <1>2, d \in 0 .. current
  <2>4. current + 1 - d <= current + 1 - d
    BY ONLY <2>2
  <2>5. DOMAIN stack' = 1 .. current + 1 - d
    BY ONLY <1>9, <2>1
  <2>6. /\ min' \in Nat /\ current' \in Nat /\ current' <= Len(stack')
        /\ min' + current' = min + current + 1
    BY ONLY <1>9, <2>2, <2>4
  <2> QED
    BY ONLY <2>5, <2>6
<1>10. ASSUME NEW i \in 1 .. current + 1 - d
       PROVE  \/ i = current + 1 - d
              \/ i \in 1 .. current - d /\ i + d \in 1 .. Len(stack)
  BY ONLY <1>2, d \in 0 .. current, i \in 1 .. current + 1 - d
<1>5. \A i \in DOMAIN stack' : stack'[i] # <<>>
  <2>1. \A i \in 1 .. Len(stack) : stack[i] # <<>>
    BY <1>2 DEF StateOK
  <2> QED
    BY ONLY <1>1, <1>3, <1>4, <1>10, <2>1
<1>6. child' \in [Children -> ChildFields]
  <2>1. ASSUME NEW f \in ChildFields, NEW b \in BOOLEAN
        PROVE  [f EXCEPT !.managed = @ \/ b] \in ChildFields
    BY <2>1 DEF ChildFields
  <2>2. child \in [Children -> ChildFields]
    BY <1>2 DEF StateOK, TypeOK
  <2> QED
    BY ONLY <1>1, <2>1, <2>2
<1>7. StateOK'
  <2>1. /\ SlotNames' = SlotNames /\ KindAction' = KindAction /\ SlotsOK(slots)'
        /\ Transaction' = Seq(Action)
    BY <1>1, <1>2 DEF SlotNames, KindAction, SlotsOK, StateOK, Transaction
  <2>2. stack' \in Seq(Seq(Action))
    BY <1>3, ActionKinds
  <2>3. txActions' \in Seq(Action) /\ txActions' \in Seq(KindAction)
    BY <1>1
  <2>4. TypeOK'
    BY <1>1, <1>2, <1>4, <1>6, <2>1, <2>2, <2>3
       DEF StateOK, TypeOK, selfVars, clientVars, Transaction
  <2> QED
    BY <1>1, <1>2, <1>3, <1>4, <1>5, <2>1, <2>3, <2>4 DEF StateOK
<1>8. ASSUME RecordOK, PathOK PROVE RecordOK' /\ PathOK'
  <2>1. Recorded' \subseteq Recorded
    <3>1. ASSUME NEW i \in DOMAIN stack', NEW j \in DOMAIN stack'[i]
          PROVE  stack'[i][j] \in Recorded
      <4>1. CASE i = current + 1 - d
        BY <1>3, <4>1 DEF Recorded
      <4>2. CASE i \in 1 .. current - d /\ i + d \in 1 .. Len(stack)
        BY <1>2, <1>3, <4>2, StackFacts
      <4> QED
        BY <1>4, <1>10, <4>1, <4>2
    <3>2. DOMAIN txActions' = {}
      BY <1>1
    <3> QED
      BY <3>1, <3>2 DEF Recorded
  <2>2. RecordOK'
    <3>1. DOMAIN todo' = {}
      BY <1>1
    <3> QED
      BY <1>1, <1>8, <2>1, <3>1, QuietRecord
  <2>3. /\ DOMAIN hist' = min' .. min' + Len(stack')
        /\ hist'[min + current + 1] = slots
        /\ \A k \in min + d .. min + current : hist'[k] = hist[k]
    <3>1. DOMAIN hist' = min' .. min' + Len(stack')
      <4>1. Len(stack') = current'
        BY ONLY <1>3
      <4> QED
        BY ONLY <1>1, <4>1
    <3>2. /\ min + current + 1 \in min + d .. (min + d) + (current + 1 - d)
          /\ ~(min + current + 1 <= min + current)
      BY ONLY <1>2, d \in 0 .. current
    <3>3. ASSUME NEW k \in min + d .. min + current
          PROVE  k \in min + d .. (min + d) + (current + 1 - d) /\ k <= min + current
      BY ONLY <1>2, d \in 0 .. current, k \in min + d .. min + current
    <3> QED
      BY ONLY <1>1, <1>9, <3>1, <3>2, <3>3
  <2>4. ASSUME NEW k \in 1 .. Len(stack')
        PROVE  Leads(hist'[min' + k - 1], stack'[k], hist'[min' + k], FALSE)
    <3>1. CASE k = current + 1 - d
      <4>1. Leads(hist[min + current], txActions, slots, FALSE)
        BY <1>1, <1>8 DEF PathOK
      <4>2. /\ min' + k - 1 = min + current /\ min' + k = min + current + 1
            /\ min + current \in min + d .. min + current
        BY ONLY <1>2, <1>9, <3>1, d \in 0 .. current
      <4> QED
        BY ONLY <1>3, <2>3, <3>1, <4>1, <4>2
    <3>2. CASE k \in 1 .. current - d /\ k + d \in 1 .. Len(stack)
      <4>1. Leads(hist[min + (k + d) - 1], stack[k + d], hist[min + (k + d)], FALSE)
        BY <1>8, <3>2 DEF PathOK
      <4>2. /\ min' + k - 1 = min + (k + d) - 1 /\ min' + k = min + (k + d)
            /\ min + (k + d) - 1 \in min + d .. min + current
            /\ min + (k + d) \in min + d .. min + current
        BY ONLY <1>2, <1>9, <3>2, d \in 0 .. current
      <4> QED
        BY ONLY <1>3, <2>3, <3>2, <4>1, <4>2
    <3> QED
      BY <1>9, <1>10, <3>1, <3>2
  <2>5. slots' = hist'[min' + current']
    BY ONLY <1>1, <1>4, <2>3
  <2>6. fault' = "none" /\ IsSheet(slots')
    BY <1>1, <1>8 DEF PathOK
  <2>7. PathOK'
    BY <1>1, <2>3, <2>4, <2>5, <2>6 DEF PathOK, IsSheet
  <2> QED
    BY <2>2, <2>7
<1> QED
  BY <1>1, <1>7, <1>8 DEF IInv

----------------------------------------------------------------------------
(***************************************************************************)
(* Abort, undo and redo execute.                                           *)
(***************************************************************************)

\* The step where the running call ends.
Target ==
    hist[IF mstate = "Transaction" THEN min + current
         ELSE IF mstate = "Undo" THEN min + current - 1 ELSE min + current + 1]

\* Every action that is executed fits the sheet it is executed on.
LEMMA ExecuteFits ==
    ASSUME IInv, kind = "Sheet", ~strayed, todo # <<>>
    PROVE  LET a == Head(todo)
               undo == mstate # "Redo"
           IN  /\ Executable(slots, a, undo)
               /\ IsSheet(NewSlots(slots, a, undo))
               /\ Leads(NewSlots(slots, a, undo), Tail(todo), Target, undo)
<1> DEFINE a == Head(todo)
           undo == mstate # "Redo"
<1>1. StateOK /\ PathOK /\ todo \in Seq(SheetAction) /\ undo \in BOOLEAN
  BY ActionKinds DEF IInv, StateOK
<1>2. a \in SheetAction
  BY <1>1, HeadFacts
<1>3. mstate \in {"Transaction", "Undo", "Redo"}
  BY <1>1 DEF StateOK, TypeOK
<1>4. Leads(slots, todo, Target, undo)
  BY <1>1, <1>3 DEF PathOK, Target
<1> HIDE DEF a, undo
<1>5. PICK u : Move(slots, a, u, undo) /\ Leads(u, Tail(todo), Target, undo)
  BY <1>1, <1>4, LeadsHead DEF a
<1>6. Executable(slots, a, undo) /\ NewSlots(slots, a, undo) = u
  BY <1>1, <1>2, <1>5, MoveExecutes
<1>7. IsSheet(u)
  BY <1>5 DEF Move, Change
<1> QED
  BY <1>5, <1>6, <1>7 DEF a, undo

\* The calls go on while there is something left to execute, and return then.
LEMMA ExecuteControl ==
    ASSUME StateOK, ExecuteAction
    PROVE  /\ stack' = stack /\ min' = min /\ hist' = hist
           /\ todo' = Tail(todo) /\ todo' \in Seq(KindAction)
           /\ mstate \in {"Transaction", "Undo", "Redo"}
           /\ \/ /\ todo' # <<>> /\ mstate' = mstate
                 /\ txActions' = txActions /\ current' = current
              \/ /\ todo' = <<>> /\ mstate' = "Idle" /\ txActions' = <<>>
                 /\ mstate = "Transaction" => current' = current
                 /\ mstate = "Undo" => current' = current - 1
                 /\ mstate = "Redo" => current' = current + 1
<1>1. /\ todo # <<>> /\ todo' = Tail(todo)
      /\ mstate' = (IF Len(todo) = 1 THEN "Idle" ELSE mstate)
      /\ txActions' = (IF Len(todo) = 1 THEN <<>> ELSE txActions)
      /\ hist' = hist
  BY DEF ExecuteAction
<1>2. /\ todo \in Seq(KindAction) /\ mstate \in {"Transaction", "Undo", "Redo"}
  BY <1>1 DEF StateOK, TypeOK
<1>3. /\ Tail(todo) \in Seq(KindAction)
      /\ Tail(todo) = <<>> <=> Len(todo) = 1
  <2>1. /\ Len(todo) \in Nat \ {0} /\ Tail(todo) \in Seq(KindAction)
        /\ Len(Tail(todo)) = Len(todo) - 1
    BY ONLY <1>1, <1>2, HeadFacts
  <2>2. Tail(todo) = <<>> <=> Len(Tail(todo)) = 0
    BY ONLY <2>1, EmptySeq
  <2> QED
    BY ONLY <2>1, <2>2
<1>4. CASE Len(todo) = 1
  <2>1. /\ mstate = "Undo" => Engine!StepBack
        /\ mstate = "Redo" => Engine!StepForward
        /\ mstate = "Transaction" => UNCHANGED <<stack, min, current>>
    BY <1>4 DEF ExecuteAction
  <2> QED
    BY <1>1, <1>2, <1>3, <1>4, <2>1 DEF Engine!StepBack, Engine!StepForward
<1>5. CASE Len(todo) # 1
  <2>1. UNCHANGED <<stack, min, current>>
    BY <1>5 DEF ExecuteAction
  <2> QED
    BY <1>1, <1>2, <1>3, <1>5, <2>1
<1> QED
  BY <1>4, <1>5

\* An action enters one entry at most.
LEMMA NewEntries ==
    ASSUME NEW s, NEW a, a.type # "Assign", NEW undo
    PROVE  \A k \in DOMAIN NewSlots(s, a, undo) :
              \/ k \in DOMAIN s /\ NewSlots(s, a, undo)[k] = s[k]
              \/ k = a.slot /\ NewSlots(s, a, undo)[k] = a.child
<1> DEFINE t == NewSlots(s, a, undo)
<1>1. \/ t = Without(s, a.slot)
      \/ t = s
      \/ t = Put(s, a.slot, a.child)
  BY DEF NewSlots
<1> HIDE DEF t
<1>2. ASSUME t = Without(s, a.slot), NEW k \in DOMAIN t
      PROVE  (k \in DOMAIN s /\ t[k] = s[k]) \/ (k = a.slot /\ t[k] = a.child)
  BY <1>2 DEF Without
<1>3. ASSUME t = Put(s, a.slot, a.child), NEW k \in DOMAIN t
      PROVE  (k \in DOMAIN s /\ t[k] = s[k]) \/ (k = a.slot /\ t[k] = a.child)
  BY <1>3 DEF Put
<1>4. ASSUME t = s, NEW k \in DOMAIN t
      PROVE  (k \in DOMAIN s /\ t[k] = s[k]) \/ (k = a.slot /\ t[k] = a.child)
  BY <1>4
<1>5. \A k \in DOMAIN t :
         (k \in DOMAIN s /\ t[k] = s[k]) \/ (k = a.slot /\ t[k] = a.child)
  BY <1>1, <1>2, <1>3, <1>4
<1> QED
  BY <1>5 DEF t

LEMMA ExecuteActionStep == ASSUME IInv, ExecuteAction PROVE IInv'
<1> DEFINE a == Head(todo)
           undo == mstate # "Redo"
<1>1. /\ todo # <<>> /\ fault = "none"
      /\ slots' = NewSlots(slots, a, undo)
      /\ child' = NewChild(slots, child, a, undo)
      /\ kind' = kind /\ selfId' = selfId /\ sheetMax' = sheetMax
      /\ given' = given /\ strayed' = strayed /\ fault' = fault
  BY DEF ExecuteAction, selfVars, clientVars
<1>2. /\ StateOK /\ SlotsOK(slots) /\ child \in [Children -> ChildFields]
      /\ kind \in {"Sheet", "Mapping", "Struct"} /\ todo \in Seq(KindAction)
      /\ undo \in BOOLEAN
  BY DEF IInv, StateOK, TypeOK
<1>3. a \in KindAction
  BY <1>1, <1>2, HeadFacts
<1>4. SlotsOK(slots') /\ child' \in [Children -> ChildFields]
  BY <1>1, <1>2, <1>3, NewSlotsType, NewChildType
<1>5. /\ stack' = stack /\ min' = min /\ hist' = hist
      /\ todo' = Tail(todo) /\ todo' \in Seq(KindAction)
      /\ mstate \in {"Transaction", "Undo", "Redo"}
      /\ \/ /\ todo' # <<>> /\ mstate' = mstate
            /\ txActions' = txActions /\ current' = current
         \/ /\ todo' = <<>> /\ mstate' = "Idle" /\ txActions' = <<>>
            /\ mstate = "Transaction" => current' = current
            /\ mstate = "Undo" => current' = current - 1
            /\ mstate = "Redo" => current' = current + 1
  BY <1>2, ExecuteControl
<1>6. current' \in Nat /\ current' <= Len(stack')
  <2>1. /\ current \in Nat /\ current <= Len(stack) /\ Len(stack) \in Nat
        /\ mstate = "Undo" => current # 0
        /\ mstate = "Redo" => current # Len(stack)
    <3>1. stack \in Seq(Seq(KindAction))
      BY <1>2 DEF StateOK
    <3>2. Len(stack) \in Nat
      BY ONLY <3>1, LenProperties
    <3> QED
      BY <1>2, <3>2 DEF StateOK, TypeOK
  <2> QED
    BY ONLY <1>5, <2>1
<1> HIDE DEF a, undo
<1>7. StateOK'
  <2>1. /\ SlotNames' = SlotNames /\ KindAction' = KindAction /\ SlotsOK(slots)'
        /\ Transaction' = Seq(Action)
    BY <1>1, <1>4 DEF SlotNames, KindAction, SlotsOK, Transaction
  <2>2. /\ txActions' \in Seq(KindAction) /\ txActions' \in Seq(Action)
        /\ todo' \in Seq(Action)
    <3>1. txActions \in Seq(KindAction)
      BY <1>2 DEF StateOK
    <3>2. txActions' \in Seq(KindAction)
      BY ONLY <1>5, <3>1
    <3> QED
      BY <1>5, <3>2, ActionKinds
  <2>3. TypeOK'
    BY <1>1, <1>2, <1>4, <1>5, <1>6, <2>1, <2>2 DEF StateOK, TypeOK, SlotsOK, Transaction
  <2> QED
    BY <1>1, <1>2, <1>5, <1>6, <2>1, <2>2, <2>3 DEF StateOK
<1>8. ASSUME kind = "Sheet", ~strayed PROVE RecordOK' /\ PathOK'
  <2>1. RecordOK /\ PathOK /\ KindAction = SheetAction
    BY <1>8, ActionKinds DEF IInv
  <2>2. /\ Executable(slots, a, undo) /\ IsSheet(slots')
        /\ Leads(slots', todo', Target, undo)
    BY <1>1, <1>5, <1>8, ExecuteFits DEF a, undo
  <2>3. Recorded' \subseteq Recorded
    BY <1>5 DEF Recorded
  <2>4. /\ a \in Recorded
        /\ \A i \in DOMAIN todo' : todo'[i] \in Recorded
    <3>1. /\ Len(todo) \in Nat \ {0} /\ a = todo[1]
          /\ DOMAIN todo = 1 .. Len(todo) /\ DOMAIN todo' = 1 .. Len(todo) - 1
          /\ \A i \in 1 .. Len(todo) - 1 : todo'[i] = todo[i + 1]
      <4>1. /\ Len(todo) \in Nat \ {0} /\ Head(todo) = todo[1]
            /\ Len(Tail(todo)) = Len(todo) - 1
            /\ \A i \in 1 .. Len(todo) - 1 : Tail(todo)[i] = todo[i + 1]
        BY ONLY <1>1, <1>2, HeadFacts
      <4>2. DOMAIN todo = 1 .. Len(todo) /\ DOMAIN todo' = 1 .. Len(todo')
        BY ONLY <1>2, <1>5, LenProperties
      <4> QED
        BY ONLY <1>5, <4>1, <4>2 DEF a
    <3>2. \A i \in DOMAIN todo : todo[i] \in Recorded
      BY <2>1 DEF RecordOK
    <3>3. 1 \in 1 .. Len(todo) /\ \A i \in 1 .. Len(todo) - 1 : i + 1 \in 1 .. Len(todo)
      BY ONLY <3>1
    <3> QED
      BY ONLY <3>1, <3>2, <3>3
  <2>5. \A i \in DOMAIN todo' : todo'[i] \in Recorded'
    <3>1. CASE todo' = <<>>
      BY <3>1
    <3>2. CASE todo' # <<>>
      <4>1. txActions' = txActions /\ stack' = stack
        BY <1>5, <3>2
      <4> QED
        BY <2>4, <4>1, RecordedSame
    <3> QED
      BY <3>1, <3>2
  <2>6. \A k \in DOMAIN slots' :
           \/ k \in DOMAIN slots /\ slots'[k] = slots[k]
           \/ k = a.slot /\ slots'[k] = a.child
    <3>1. a.type # "Assign"
      BY <1>3, <2>1 DEF SheetAction
    <3> QED
      BY ONLY <1>1, <3>1, NewEntries
  <2>7. RecordOK'
    <3>1. ASSUME NEW b \in Recorded', b.slot \in DOMAIN slots'
          PROVE  slots'[b.slot] = b.child
      BY <2>1, <2>3, <2>4, <2>6, <3>1 DEF RecordOK
    <3>2. ASSUME NEW k \in DOMAIN slots' PROVE k <= sheetMax'
      BY <1>1, <2>1, <2>4, <2>6 DEF RecordOK
    <3>3. /\ \A b, c \in Recorded' : b.slot = c.slot => b.child = c.child
          /\ \A b \in Recorded' : b.slot <= sheetMax'
      BY <1>1, <2>1, <2>3 DEF RecordOK
    <3> QED
      BY <2>5, <3>1, <3>2, <3>3 DEF RecordOK
  <2>8. PathOK'
    <3>1. /\ fault' = "none" /\ IsSheet(slots')
          /\ DOMAIN hist' = min' .. min' + Len(stack')
          /\ \A k \in 1 .. Len(stack') :
                Leads(hist'[min' + k - 1], stack'[k], hist'[min' + k], FALSE)
      BY <1>1, <1>5, <2>1, <2>2 DEF PathOK
    <3>2. CASE todo' # <<>>
      BY <1>5, <2>2, <3>1, <3>2 DEF PathOK, Target, undo, IsSheet
    <3>3. CASE todo' = <<>>
      <4>1. slots' = Target
        BY ONLY <2>2, <3>3, LeadsNowhere
      <4>2. Target = hist'[min' + current']
        <5>1. min \in Nat /\ current \in Nat
          BY <1>2 DEF StateOK, TypeOK
        <5>2. CASE mstate = "Transaction"
          BY <1>5, <3>3, <5>2 DEF Target
        <5>3. CASE mstate = "Undo"
          <6>1. min + current - 1 = min + (current - 1)
            BY ONLY <5>1
          <6> QED
            BY <1>5, <3>3, <5>3, <6>1 DEF Target
        <5>4. CASE mstate = "Redo"
          <6>1. min + current + 1 = min + (current + 1)
            BY ONLY <5>1
          <6> QED
            BY <1>5, <3>3, <5>4, <6>1 DEF Target
        <5> QED
          BY ONLY <1>5, <5>2, <5>3, <5>4
      <4>3. mstate' = "Idle"
        BY <1>5, <3>3
      <4> QED
        BY <3>1, <4>1, <4>2, <4>3 DEF PathOK, IsSheet
    <3> QED
      BY <3>2, <3>3
  <2> QED
    BY <2>7, <2>8
<1> QED
  BY <1>1, <1>7, <1>8 DEF IInv

LEMMA ExecuteMissingStep == ASSUME IInv, ExecuteMissing PROVE IInv'
<1>1. /\ todo # <<>> /\ ~Executable(slots, Head(todo), mstate # "Redo")
      /\ fault' = "missing entry"
      /\ UNCHANGED <<selfVars, contentVars, clientVars, mstate, txActions, todo,
                     engineVars>>
  BY DEF ExecuteMissing
<1>2. ~(kind = "Sheet" /\ ~strayed)
  BY <1>1, ExecuteFits
<1>3. SlotNames' = SlotNames /\ KindAction' = KindAction /\ SlotsOK(slots)'
  BY <1>1 DEF selfVars, contentVars, SlotNames, KindAction, SlotsOK, IInv, StateOK
<1>4. StateOK'
  <2>1. StateOK
    BY DEF IInv
  <2>2. TypeOK'
    BY <1>1, <1>3, <2>1
       DEF StateOK, TypeOK, selfVars, contentVars, clientVars, engineVars, Transaction
  <2>3. kind = "Sheet"
    <3>1. Head(todo) \in KindAction
      BY <1>1, <2>1, HeadFacts DEF StateOK
    <3>2. Head(todo).type # "Assign"
      BY <1>1 DEF Executable
    <3> QED
      BY <3>1, <3>2 DEF KindAction, PropertyAction
  <2> QED
    BY <1>1, <1>3, <2>1, <2>2, <2>3 DEF StateOK, engineVars, selfVars
<1> QED
  BY <1>1, <1>2, <1>4 DEF IInv, selfVars, clientVars

----------------------------------------------------------------------------
(***************************************************************************)
(* The links.                                                              *)
(***************************************************************************)

\* The children an action names, and the actions that can still be executed.
NodesOf(a) ==
    (IF a.type = "Assign" THEN {a.value, a.oldValue} ELSE {a.child}) \cap Children
Known == Recorded \cup {todo[i] : i \in DOMAIN todo}

\* The slots in which a child stands or could come to stand.
Place(n, k) ==
    \/ k \in DOMAIN slots /\ slots[k] = n
    \/ \E a \in Known : a.slot = k /\ n \in NodesOf(a)

\* A child that the client has passed has one place for good.
PlacesOK ==
    /\ \A n \in Children : \A j, k : Place(n, j) /\ Place(n, k) => j = k
    /\ \A n \in Children : \A k : Place(n, k) => n \in given

\* The links c are those of the slots s.
StandsIn(n, s) == \E k \in DOMAIN s : s[k] = n
LinksOK(s, c) ==
    \A n \in Children : /\ StandsIn(n, s) <=> c[n].linked
                        /\ StandsIn(n, s) <=> c[n].state = "Active"

LinkInv == ~strayed => LinksOK(slots, child) /\ PlacesOK

\* The slot k changes to v, and the links with it.
LEMMA Relinked ==
    ASSUME NEW s, NEW t, NEW c \in [Children -> ChildFields], NEW k, NEW v,
           LinksOK(s, c),
           \A j \in DOMAIN s : s[j] \in Children /\ s[j] = SlotValue(s, k) => j = k,
           \A j : j # k => /\ j \in DOMAIN s <=> j \in DOMAIN t
                           /\ j \in DOMAIN s => t[j] = s[j],
           v \in Children => k \in DOMAIN t /\ t[k] = v,
           v \notin Children /\ k \in DOMAIN t => t[k] \notin Children
    PROVE  LinksOK(t, Linked(c, SlotValue(s, k), v))
<1> DEFINE old == SlotValue(s, k)
           d == Linked(c, old, v)
<1> SUFFICES ASSUME NEW n \in Children
             PROVE  /\ StandsIn(n, t) <=> d[n].linked
                    /\ StandsIn(n, t) <=> d[n].state = "Active"
  BY DEF LinksOK
<1>1. /\ c[n] \in ChildFields
      /\ StandsIn(n, s) <=> c[n].linked
      /\ StandsIn(n, s) <=> c[n].state = "Active"
  BY DEF LinksOK
<1>2. CASE n = v
  <2>1. StandsIn(n, t)
    BY <1>2 DEF StandsIn
  <2>2. d[n].linked /\ d[n].state = "Active"
    BY <1>1, <1>2 DEF Linked, ChildFields
  <2> QED
    BY <2>1, <2>2
<1>3. CASE n # v /\ n = old
  <2>1. ~StandsIn(n, t)
    BY <1>3 DEF StandsIn
  <2>2. ~d[n].linked /\ d[n].state # "Active"
    BY <1>1, <1>3 DEF Linked, ChildFields
  <2> QED
    BY <2>1, <2>2
<1>4. CASE n # v /\ n # old
  <2>1. k \in DOMAIN s => s[k] # n
    BY <1>4 DEF SlotValue
  <2>2. StandsIn(n, t) <=> StandsIn(n, s)
    BY <1>4, <2>1 DEF StandsIn
  <2>3. d[n] = c[n]
    BY <1>4 DEF Linked
  <2> QED
    BY <1>1, <2>2, <2>3
<1> QED
  BY <1>2, <1>3, <1>4

\* The assignment of a property.
LEMMA AssignedLinks ==
    ASSUME NEW c \in [Children -> ChildFields], LinksOK(slots, c), PlacesOK,
           NEW k, NEW v
    PROVE  LinksOK(Assigned(slots, k, v), Linked(c, SlotValue(slots, k), v))
<1> DEFINE t == Assigned(slots, k, v)
<1>1. \A j : j # k => /\ j \in DOMAIN slots <=> j \in DOMAIN t
                      /\ j \in DOMAIN slots => t[j] = slots[j]
  BY DEF Assigned, Put, Without
<1>2. /\ v \in Children => k \in DOMAIN t /\ t[k] = v
      /\ v \notin Children /\ k \in DOMAIN t => t[k] \notin Children
  BY PropertyFacts DEF Assigned, Put, Without
<1>3. ASSUME NEW j \in DOMAIN slots, slots[j] \in Children,
             slots[j] = SlotValue(slots, k)
      PROVE  j = k
  <2>1. k \in DOMAIN slots /\ slots[k] = slots[j]
    BY <1>3, PropertyFacts DEF SlotValue
  <2>2. Place(slots[j], j) /\ Place(slots[j], k)
    BY <2>1 DEF Place
  <2> QED
    BY <1>3, <2>2 DEF PlacesOK
<1> HIDE DEF t
<1>4. LinksOK(t, Linked(c, SlotValue(slots, k), v))
  BY <1>1, <1>2, <1>3, Relinked
<1> QED
  BY <1>4 DEF t

\* The execution of an action of a sheet that meets no entry of another child.
LEMMA SheetLinks ==
    ASSUME NEW c \in [Children -> ChildFields], LinksOK(slots, c), PlacesOK,
           NEW a \in SheetAction, NEW undo, Executable(slots, a, undo),
           a.slot \in DOMAIN slots => slots[a.slot] = a.child
    PROVE  LinksOK(NewSlots(slots, a, undo), NewChild(slots, c, a, undo))
<1> DEFINE t == NewSlots(slots, a, undo)
           k == a.slot
<1>1. a.type # "Assign" /\ a.child \in Children
  BY DEF SheetAction
<1>2. ASSUME NEW j \in DOMAIN slots, slots[j] \in Children,
             slots[j] = SlotValue(slots, k)
      PROVE  j = k
  <2>1. k \in DOMAIN slots /\ slots[k] = slots[j]
    BY <1>2, PropertyFacts DEF SlotValue
  <2>2. Place(slots[j], j) /\ Place(slots[j], k)
    BY <2>1 DEF Place
  <2> QED
    BY <1>2, <2>2 DEF PlacesOK
<1>3. CASE Erases(a, undo)
  <2>1. k \in DOMAIN slots /\ t = Without(slots, k) /\ SlotValue(slots, k) = slots[k]
    BY <1>1, <1>3 DEF Executable, NewSlots, SlotValue
  <2>2. NewChild(slots, c, a, undo) = Linked(c, SlotValue(slots, k), Invalid)
    BY <1>1, <1>3, <2>1 DEF NewChild
  <2>3. /\ \A j : j # k => /\ j \in DOMAIN slots <=> j \in DOMAIN t
                           /\ j \in DOMAIN slots => t[j] = slots[j]
        /\ k \notin DOMAIN t
    BY <2>1 DEF Without
  <2> HIDE DEF t, k
  <2>4. LinksOK(t, Linked(c, SlotValue(slots, k), Invalid))
    BY <1>2, <2>3, PropertyFacts, Relinked
  <2> QED
    BY <2>2, <2>4 DEF t
<1>4. CASE ~Erases(a, undo)
  <2>1. NewChild(slots, c, a, undo) = Linked(c, SlotValue(slots, k), a.child)
    BY <1>1, <1>4, PropertyFacts DEF NewChild, SlotValue, Linked
  <2>2. /\ \A j : j # k => /\ j \in DOMAIN slots <=> j \in DOMAIN t
                           /\ j \in DOMAIN slots => t[j] = slots[j]
        /\ k \in DOMAIN t /\ t[k] = a.child
    BY <1>1, <1>4 DEF NewSlots, Put
  <2> HIDE DEF t, k
  <2>3. LinksOK(t, Linked(c, SlotValue(slots, k), a.child))
    BY <1>1, <1>2, <2>2, Relinked
  <2> QED
    BY <2>1, <2>3 DEF t
<1> QED
  BY <1>3, <1>4

\* Places stay as they are, but for that of a child that is new.
LEMMA PlacesKept ==
    ASSUME PlacesOK, given \subseteq given', NEW v, NEW h,
           \A n \in Children : \A k : Place(n, k)' => Place(n, k) \/ (n = v /\ k = h),
           v \in Children => v \notin given /\ v \in given'
    PROVE  PlacesOK'
BY DEF PlacesOK

LEMMA PlacesStay ==
    ASSUME PlacesOK, given \subseteq given',
           \A n \in Children : \A k : Place(n, k)' => Place(n, k)
    PROVE  PlacesOK'
BY DEF PlacesOK

LEMMA EditPlaces ==
    ASSUME StateOK, PlacesOK, NEW a \in KindAction, Push(a), NEW v, NEW h,
           given \subseteq given', v \in Children => v \notin given /\ v \in given',
           \A k \in DOMAIN slots' : slots'[k] \in Children =>
              \/ k \in DOMAIN slots /\ slots'[k] = slots[k]
              \/ k = h /\ slots'[k] = v,
           \A n \in NodesOf(a) : Place(n, a.slot) \/ (n = v /\ a.slot = h)
    PROVE  PlacesOK'
<1>1. \A b \in Recorded' : b \in Recorded \/ b = a
  BY RecordedAppend
<1>2. todo' = todo
  BY DEF Push
<1>3. \A b \in Known' : b \in Known \/ b = a
  BY <1>1, <1>2 DEF Known
<1>4. ASSUME NEW n \in Children, NEW k, Place(n, k)'
      PROVE  Place(n, k) \/ (n = v /\ k = h)
  <2>1. CASE k \in DOMAIN slots' /\ slots'[k] = n
    BY <2>1 DEF Place
  <2>2. CASE \E b \in Known' : b.slot = k /\ n \in NodesOf(b)
    <3>1. PICK b \in Known' : b.slot = k /\ n \in NodesOf(b)
      BY <2>2
    <3> QED
      BY <1>3, <3>1 DEF Place
  <2>3. NodesOf(a)' = NodesOf(a) /\ \A b : NodesOf(b)' = NodesOf(b)
    BY DEF NodesOf
  <2> QED
    BY <1>4, <2>1, <2>2, <2>3 DEF Place, NodesOf
<1> QED
  BY <1>4, PlacesKept

LEMMA SheetInsertLinks ==
    ASSUME IInv, LinkInv, NEW n \in Children, SheetInsert(n) PROVE LinkInv'
<1> DEFINE a == [type |-> "SheetInsert", slot |-> sheetMax + 1, child |-> n]
<1>1. /\ Editable /\ kind = "Sheet" /\ Push(a) /\ n \notin given
      /\ sheetMax' = sheetMax + 1
      /\ slots' = NewSlots(slots, a, FALSE)
      /\ child' = NewChild(slots, child, a, FALSE)
      /\ given' = given \cup {n} /\ strayed' = strayed
  BY DEF SheetInsert, Passed, Fresh
<1>2. /\ StateOK /\ sheetMax \in Nat /\ SlotsOK(slots)
      /\ child \in [Children -> ChildFields]
  BY DEF IInv, StateOK, TypeOK
<1>3. a \in SheetAction /\ a \in KindAction
  <2>1. a \in SheetAction
    BY <1>2 DEF SheetAction
  <2> QED
    BY <1>1, <2>1, ActionKinds
<1> SUFFICES ASSUME ~strayed PROVE LinksOK(slots', child') /\ PlacesOK'
  BY <1>1 DEF LinkInv, LinksOK, StandsIn
<1>4. RecordOK /\ LinksOK(slots, child) /\ PlacesOK
  BY <1>1 DEF IInv, LinkInv
<1>5. a.type = "SheetInsert" /\ a.slot = sheetMax + 1 /\ a.child = n
  OBVIOUS
<1> HIDE DEF a
<1>6. a.slot \notin DOMAIN slots /\ Executable(slots, a, FALSE)
  <2>1. \A k \in DOMAIN slots : k \in Nat /\ k <= sheetMax
    BY <1>1, <1>2, <1>4 DEF RecordOK, SlotsOK, SlotNames
  <2>2. a.slot \notin DOMAIN slots
    BY ONLY <1>2, <1>5, <2>1
  <2>3. ~Erases(a, FALSE)
    BY ONLY <1>5 DEF Erases
  <2> QED
    BY ONLY <2>2, <2>3 DEF Executable
<1>7. LinksOK(slots', child')
  BY <1>1, <1>2, <1>3, <1>4, <1>6, SheetLinks
<1>8. slots' = Put(slots, a.slot, n)
  BY <1>1, <1>5, <1>6 DEF NewSlots, Erases
<1>9. \A k \in DOMAIN slots' : \/ k \in DOMAIN slots /\ slots'[k] = slots[k]
                               \/ k = a.slot /\ slots'[k] = n
  BY <1>8 DEF Put
<1>10. \A m \in NodesOf(a) : m = n
  BY <1>5 DEF NodesOf
<1>11. PlacesOK'
  BY <1>1, <1>2, <1>3, <1>4, <1>9, <1>10, EditPlaces
<1> QED
  BY <1>7, <1>11

LEMMA SheetRemoveLinks ==
    ASSUME IInv, LinkInv, NEW id \in 1 .. MaxSheet, SheetRemove(id)
    PROVE  LinkInv'
<1> DEFINE a == [type |-> "SheetRemove", slot |-> id, child |-> slots[selfId]]
<1>1. /\ Editable /\ kind = "Sheet" /\ Push(a)
      /\ selfId \in DOMAIN slots
      /\ slots' = Without(slots, selfId)
      /\ child' = Linked(child, slots[selfId], Invalid)
      /\ strayed' = (strayed \/ id # selfId)
      /\ given' = given
  BY DEF SheetRemove
<1>2. /\ StateOK /\ SlotsOK(slots) /\ child \in [Children -> ChildFields]
      /\ slots[selfId] \in Children
  BY <1>1 DEF IInv, StateOK, TypeOK, SlotsOK
<1>3. a \in SheetAction /\ a \in KindAction
  <2>1. id \in Nat
    OBVIOUS
  <2>2. a \in SheetAction
    BY ONLY <1>2, <2>1 DEF SheetAction
  <2> QED
    BY <1>1, <2>2, ActionKinds
<1> SUFFICES ASSUME ~strayed, id = selfId PROVE LinksOK(slots', child') /\ PlacesOK'
  BY <1>1 DEF LinkInv, LinksOK, StandsIn
<1>4. LinksOK(slots, child) /\ PlacesOK
  BY DEF LinkInv
<1>5. a.type = "SheetRemove" /\ a.slot = selfId /\ a.child = slots[selfId]
  OBVIOUS
<1> HIDE DEF a
<1>6. /\ Executable(slots, a, FALSE)
      /\ slots' = NewSlots(slots, a, FALSE)
      /\ child' = NewChild(slots, child, a, FALSE)
  BY <1>1, <1>5 DEF Executable, NewSlots, NewChild, Erases
<1>7. LinksOK(slots', child')
  BY <1>2, <1>3, <1>4, <1>5, <1>6, SheetLinks
<1>8. \A k \in DOMAIN slots' : k \in DOMAIN slots /\ slots'[k] = slots[k]
  BY <1>1 DEF Without
<1>9. \A m \in NodesOf(a) : Place(m, a.slot)
  BY <1>1, <1>5 DEF NodesOf, Place
<1>10. PlacesOK'
  BY <1>1, <1>2, <1>3, <1>4, <1>8, <1>9, PropertyFacts, EditPlaces
<1> QED
  BY <1>7, <1>10

LEMMA SetPropertyLinks ==
    ASSUME IInv, LinkInv, NEW k \in Keys, NEW v \in Property, SetProperty(k, v)
    PROVE  LinkInv'
<1> DEFINE old == SlotValue(slots, k)
           a == NewPropertyAction(k, old, v)
<1>1. /\ Editable /\ kind = "Mapping" /\ Push(a)
      /\ v \in Children => v \notin given
      /\ slots' = Assigned(slots, k, v)
      /\ child' = Linked(child, old, v)
      /\ given' = given \cup ({v} \cap Children) /\ strayed' = strayed
  BY DEF SetProperty, Passed, Fresh
<1>2. /\ StateOK /\ SlotsOK(slots) /\ child \in [Children -> ChildFields]
  BY DEF IInv, StateOK, TypeOK
<1>3. a \in KindAction
  <2>1. old \in Property
    BY <1>2, PropertyFacts DEF SlotValue, SlotsOK
  <2> QED
    BY <1>1, <2>1 DEF KindAction, PropertyAction, NewPropertyAction
<1> SUFFICES ASSUME ~strayed PROVE LinksOK(slots', child') /\ PlacesOK'
  BY <1>1 DEF LinkInv, LinksOK, StandsIn
<1>4. LinksOK(slots, child) /\ PlacesOK
  BY DEF LinkInv
<1>5. LinksOK(slots', child')
  BY <1>1, <1>2, <1>4, AssignedLinks
<1>6. \A j \in DOMAIN slots' : \/ j \in DOMAIN slots /\ slots'[j] = slots[j]
                               \/ j = k /\ slots'[j] = v
  BY <1>1 DEF Assigned, Put, Without
<1>7. a.slot = k /\ \A n \in NodesOf(a) : n = v \/ Place(n, k)
  BY PropertyFacts DEF NewPropertyAction, NodesOf, Place, SlotValue
<1> HIDE DEF a
<1>8. PlacesOK'
  BY <1>1, <1>2, <1>3, <1>4, <1>6, <1>7, EditPlaces
<1> QED
  BY <1>5, <1>8

\* setAt executes the assignment it has mixed up: the slot keeps its value.
LEMMA SetAtLinks ==
    ASSUME IInv, LinkInv, NEW k \in Keys, NEW v \in Property, SetAt(k, v)
    PROVE  LinkInv'
<1> DEFINE a == NewPropertyAction(k, slots[k], v)
<1>1. /\ Editable /\ kind = "Struct" /\ Push(a)
      /\ v \in Children => v \notin given
      /\ slots' = NewSlots(slots, a, FALSE)
      /\ child' = NewChild(slots, child, a, FALSE)
      /\ given' = given \cup ({v} \cap Children) /\ strayed' = strayed
  BY DEF SetAt, Passed, Fresh
<1>2. /\ StateOK /\ SlotsOK(slots) /\ child \in [Children -> ChildFields]
      /\ k \in DOMAIN slots
  BY <1>1 DEF IInv, StateOK, TypeOK, SlotsOK
<1>3. a \in KindAction
  <2>1. slots[k] \in Property
    BY <1>2 DEF SlotsOK
  <2> QED
    BY <1>1, <2>1 DEF KindAction, PropertyAction, NewPropertyAction
<1> SUFFICES ASSUME ~strayed PROVE LinksOK(slots', child') /\ PlacesOK'
  BY <1>1 DEF LinkInv, LinksOK, StandsIn
<1>4. LinksOK(slots, child) /\ PlacesOK
  BY DEF LinkInv
<1>5. /\ slots' = Assigned(slots, k, slots[k])
      /\ child' = Linked(child, SlotValue(slots, k), slots[k])
  BY <1>1 DEF NewSlots, NewChild, NewValue, NewPropertyAction
<1>6. LinksOK(slots', child')
  BY <1>2, <1>4, <1>5, AssignedLinks
<1>7. \A j \in DOMAIN slots' : j \in DOMAIN slots /\ slots'[j] = slots[j]
  BY <1>2, <1>5 DEF Assigned, Put, Without
<1>8. a.slot = k /\ \A n \in NodesOf(a) : n = v \/ Place(n, k)
  BY <1>2 DEF NewPropertyAction, NodesOf, Place
<1> HIDE DEF a
<1>9. PlacesOK'
  BY <1>1, <1>2, <1>3, <1>4, <1>7, <1>8, EditPlaces
<1> QED
  BY <1>6, <1>9

\* The calls that leave the slots alone.
LEMMA QuietLinks ==
    ASSUME LinkInv, UNCHANGED <<slots, child, given, strayed>>,
           Known' \subseteq Known
    PROVE  LinkInv'
<1>1. ASSUME NEW n \in Children, NEW k, Place(n, k)' PROVE Place(n, k)
  BY <1>1 DEF Place, NodesOf
<1>2. PlacesOK => PlacesOK'
  BY <1>1, PlacesStay
<1> QED
  BY <1>2 DEF LinkInv, LinksOK, StandsIn

LEMMA ExecuteLinks ==
    ASSUME IInv, LinkInv, ExecuteAction PROVE LinkInv'
<1> DEFINE a == Head(todo)
           undo == mstate # "Redo"
<1>1. /\ todo # <<>> /\ Executable(slots, a, undo)
      /\ slots' = NewSlots(slots, a, undo)
      /\ child' = NewChild(slots, child, a, undo)
      /\ given' = given /\ strayed' = strayed
  BY DEF ExecuteAction, clientVars
<1>2. /\ StateOK /\ child \in [Children -> ChildFields]
      /\ todo \in Seq(KindAction)
  BY DEF IInv, StateOK, TypeOK
<1>3. /\ a \in KindAction /\ 1 \in DOMAIN todo /\ a = todo[1]
      /\ todo' = Tail(todo)
      /\ \A i \in DOMAIN todo' : i + 1 \in DOMAIN todo /\ todo'[i] = todo[i + 1]
  <2>1. /\ Len(todo) \in Nat \ {0} /\ a \in KindAction /\ a = todo[1]
        /\ Tail(todo) \in Seq(KindAction) /\ Len(Tail(todo)) = Len(todo) - 1
        /\ \A i \in 1 .. Len(todo) - 1 : Tail(todo)[i] = todo[i + 1]
    BY ONLY <1>1, <1>2, HeadFacts
  <2>2. /\ DOMAIN todo = 1 .. Len(todo)
        /\ DOMAIN Tail(todo) = 1 .. Len(todo) - 1
    BY ONLY <1>2, <2>1, LenProperties
  <2>3. todo' = Tail(todo)
    BY DEF ExecuteAction
  <2> QED
    BY ONLY <2>1, <2>2, <2>3
<1>4. a \in Known
  BY <1>3 DEF Known
<1>5. Known' \subseteq Known
  <2>1. stack' = stack /\ (txActions' = txActions \/ txActions' = <<>>)
    BY <1>2, ExecuteControl
  <2>2. Recorded' \subseteq Recorded
    BY <2>1 DEF Recorded
  <2> QED
    BY <1>3, <2>2 DEF Known
<1> SUFFICES ASSUME ~strayed PROVE LinksOK(slots', child') /\ PlacesOK'
  BY <1>1 DEF LinkInv, LinksOK, StandsIn
<1>6. LinksOK(slots, child) /\ PlacesOK
  BY DEF LinkInv
<1> HIDE DEF a, undo
<1>7. CASE kind = "Sheet"
  <2>1. a \in SheetAction
    BY <1>3, <1>7, ActionKinds
  <2>2. a.slot \in DOMAIN slots => slots[a.slot] = a.child
    BY <1>3, <1>7 DEF IInv, RecordOK
  <2>3. LinksOK(slots', child')
    BY <1>1, <1>2, <1>6, <2>1, <2>2, SheetLinks
  <2>4. a.type # "Assign" /\ a.child \in NodesOf(a)
    BY <2>1 DEF SheetAction, NodesOf
  <2>5. \A k \in DOMAIN slots' :
           \/ k \in DOMAIN slots /\ slots'[k] = slots[k]
           \/ k = a.slot /\ slots'[k] = a.child
    BY ONLY <1>1, <2>4, NewEntries
  <2>6. ASSUME NEW n \in Children, NEW k, Place(n, k)' PROVE Place(n, k)
    BY <1>4, <1>5, <2>4, <2>5, <2>6 DEF Place, NodesOf
  <2>7. PlacesOK'
    BY <1>1, <1>6, <2>6, PlacesStay
  <2> QED
    BY <2>3, <2>7
<1>8. CASE kind # "Sheet"
  <2>1. a \in PropertyAction /\ a.type = "Assign"
    BY <1>3, <1>8 DEF KindAction, PropertyAction
  <2> DEFINE v == NewValue(a, undo)
  <2>2. /\ slots' = Assigned(slots, a.slot, v)
        /\ child' = Linked(child, SlotValue(slots, a.slot), v)
    BY <1>1, <2>1 DEF NewSlots, NewChild
  <2>3. \A n \in Children : n = v => n \in NodesOf(a)
    BY <2>1 DEF NodesOf, NewValue
  <2> HIDE DEF v
  <2>4. LinksOK(slots', child')
    BY <1>2, <1>6, <2>2, AssignedLinks
  <2>5. \A k \in DOMAIN slots' :
           \/ k \in DOMAIN slots /\ slots'[k] = slots[k]
           \/ k = a.slot /\ slots'[k] = v
    BY <2>2 DEF Assigned, Put, Without
  <2>6. ASSUME NEW n \in Children, NEW k, Place(n, k)' PROVE Place(n, k)
    BY <1>4, <1>5, <2>3, <2>5, <2>6 DEF Place, NodesOf
  <2>7. PlacesOK'
    BY <1>1, <1>6, <2>6, PlacesStay
  <2> QED
    BY <2>4, <2>7
<1> QED
  BY <1>7, <1>8

\* What commit keeps was recorded before.
LEMMA CommitRecorded == ASSUME StateOK, Commit PROVE Recorded' \subseteq Recorded
<1>1. Engine!CommitWindow(txActions) /\ txActions' = <<>>
  BY DEF Commit
<1>2. PICK d \in 0 .. current :
         /\ stack' \in Seq(Seq(KindAction))
         /\ Len(stack') = current + 1 - d
         /\ \A i \in 1 .. current - d : stack'[i] = stack[i + d]
         /\ stack'[current + 1 - d] = txActions
  BY <1>1, CommitFacts
<1>3. /\ current \in Nat /\ current <= Len(stack) /\ Len(stack) \in Nat
      /\ DOMAIN stack' = 1 .. current + 1 - d
  <2>1. /\ current \in Nat /\ current <= Len(stack)
        /\ stack \in Seq(Seq(KindAction))
    BY DEF StateOK, TypeOK
  <2> QED
    BY ONLY <1>2, <2>1, LenProperties
<1>4. ASSUME NEW i \in DOMAIN stack', NEW j \in DOMAIN stack'[i]
      PROVE  stack'[i][j] \in Recorded
  <2>1. \/ i = current + 1 - d
        \/ i \in 1 .. current - d /\ i + d \in 1 .. Len(stack)
    BY ONLY <1>3, d \in 0 .. current, i \in DOMAIN stack'
  <2>2. CASE i = current + 1 - d
    BY <1>2, <2>2 DEF Recorded
  <2>3. CASE i \in 1 .. current - d /\ i + d \in 1 .. Len(stack)
    BY <1>2, <2>3, StackFacts
  <2> QED
    BY <2>1, <2>2, <2>3
<1> QED
  BY <1>1, <1>4 DEF Recorded

LEMMA CommitLinks == ASSUME IInv, LinkInv, Commit PROVE LinkInv'
<1>1. /\ slots' = slots /\ given' = given /\ strayed' = strayed /\ todo' = todo
      /\ child' = [n \in Children |->
            [child[n] EXCEPT !.managed = @ \/ n \in
               UNION {QueryInserted(txActions[i]) : i \in DOMAIN txActions}]]
  BY DEF Commit, clientVars
<1>2. StateOK /\ child \in [Children -> ChildFields]
  BY DEF IInv, StateOK, TypeOK
<1>3. \A n \in Children : /\ child'[n].linked = child[n].linked
                          /\ child'[n].state = child[n].state
  BY <1>1, <1>2 DEF ChildFields
<1>4. LinksOK(slots, child) => LinksOK(slots', child')
  BY <1>1, <1>3 DEF LinksOK, StandsIn
<1>5. Known' \subseteq Known
  BY <1>1, <1>2, CommitRecorded DEF Known
<1>6. ASSUME NEW n \in Children, NEW k, Place(n, k)' PROVE Place(n, k)
  BY <1>1, <1>5, <1>6 DEF Place, NodesOf
<1>7. PlacesOK => PlacesOK'
  BY <1>1, <1>6, PlacesStay
<1> QED
  BY <1>1, <1>4, <1>7 DEF LinkInv, LinksOK, StandsIn

\* The calls that only begin or end something.
LEMMA ControlLinks ==
    ASSUME IInv, LinkInv,
           BeginTransaction \/ CommitNothing \/ AbortTransaction \/ Undo \/ Redo
               \/ ExecuteMissing
    PROVE  LinkInv'
<1>1. /\ UNCHANGED <<slots, child, given, strayed, txActions, stack>>
      /\ \/ todo' = todo
         \/ todo' = Reversed(txActions)
         \/ current # 0 /\ todo' = Reversed(stack[current])
         \/ current # Len(stack) /\ todo' = stack[current + 1]
  BY DEF BeginTransaction, CommitNothing, AbortTransaction, Undo, Redo,
         ExecuteMissing, contentVars, clientVars, engineVars
<1>2. /\ StateOK /\ current \in Nat /\ current <= Len(stack)
      /\ stack \in Seq(Seq(KindAction)) /\ txActions \in Seq(KindAction)
  BY DEF IInv, StateOK, TypeOK
<1>3. Len(stack) \in Nat
  BY ONLY <1>2, LenProperties
<1>4. Recorded' = Recorded
  BY <1>1, RecordedSame
<1>5. todo' = todo \/ \A i \in DOMAIN todo' : todo'[i] \in Recorded
  <2>1. \A i \in DOMAIN Reversed(txActions) : Reversed(txActions)[i] \in Recorded
    <3>1. \A i \in DOMAIN txActions : txActions[i] \in Recorded
      BY DEF Recorded
    <3> QED
      BY ONLY <1>2, <3>1, ReversedTodo
  <2>2. ASSUME NEW k \in 1 .. Len(stack)
        PROVE  /\ \A i \in DOMAIN stack[k] : stack[k][i] \in Recorded
               /\ \A i \in DOMAIN Reversed(stack[k]) : Reversed(stack[k])[i] \in Recorded
    <3>1. /\ stack[k] \in Seq(KindAction)
          /\ \A i \in DOMAIN stack[k] : stack[k][i] \in Recorded
      BY <1>2, StackFacts
    <3> QED
      BY ONLY <1>2, <3>1, ReversedTodo
  <2>3. /\ current # 0 => current \in 1 .. Len(stack)
        /\ current # Len(stack) => current + 1 \in 1 .. Len(stack)
    BY ONLY <1>2, <1>3
  <2> QED
    BY <1>1, <2>1, <2>2, <2>3
<1>6. Known' \subseteq Known
  BY <1>4, <1>5 DEF Known
<1> QED
  BY <1>1, <1>6, QuietLinks

LEMMA LinkInit == Init => LinkInv
<1> SUFFICES ASSUME Init PROVE LinkInv
  OBVIOUS
<1>1. /\ txActions = <<>> /\ todo = <<>> /\ stack = <<>>
      /\ \A k \in DOMAIN slots : slots[k] = Invalid
      /\ \A n \in Children : ~child[n].linked /\ child[n].state = "Created"
  BY DEF Init
<1>2. Known = {}
  BY <1>1 DEF Known, Recorded
<1>3. LinksOK(slots, child)
  BY <1>1, PropertyFacts DEF LinksOK, StandsIn
<1>4. PlacesOK
  BY <1>1, <1>2, PropertyFacts DEF PlacesOK, Place
<1> QED
  BY <1>3, <1>4 DEF LinkInv

LEMMA LinkStep == IInv /\ LinkInv /\ [Next]_vars => LinkInv'
<1> SUFFICES ASSUME IInv, LinkInv, [Next]_vars PROVE LinkInv'
  OBVIOUS
<1>1. ASSUME NEW n \in Children, SheetInsert(n) PROVE LinkInv'
  BY <1>1, SheetInsertLinks
<1>2. ASSUME NEW id \in 1 .. MaxSheet, SheetRemove(id) PROVE LinkInv'
  BY <1>2, SheetRemoveLinks
<1>3. ASSUME NEW k \in Keys, NEW v \in Property, SetProperty(k, v) PROVE LinkInv'
  BY <1>3, SetPropertyLinks
<1>4. ASSUME NEW k \in Keys, NEW v \in Property, SetAt(k, v) PROVE LinkInv'
  BY <1>4, SetAtLinks
<1>5. CASE \/ BeginTransaction \/ CommitNothing \/ AbortTransaction
           \/ Undo \/ Redo \/ ExecuteMissing
  BY <1>5, ControlLinks
<1>6. CASE Commit
  BY <1>6, CommitLinks
<1>7. CASE ExecuteAction
  BY <1>7, ExecuteLinks
<1>8. CASE UNCHANGED vars
  <2>1. UNCHANGED <<slots, child, given, strayed, todo, txActions, stack>>
    BY <1>8 DEF vars, contentVars, clientVars, engineVars
  <2>2. Known' = Known
    BY <2>1 DEF Known, Recorded
  <2> QED
    BY <2>1, <2>2, QuietLinks
<1> QED
  BY <1>1, <1>2, <1>3, <1>4, <1>5, <1>6, <1>7, <1>8 DEF Next

LEMMA LinksMatch == LinkInv => LinksMatchSlots
<1> SUFFICES ASSUME LinkInv, ~strayed PROVE LinksMatchSlots
  BY DEF LinksMatchSlots
<1>1. LinksOK(slots, child) /\ PlacesOK
  BY DEF LinkInv
<1>2. \A n \in Children : n \in InSlots <=> StandsIn(n, slots)
  BY DEF InSlots, StandsIn
<1>3. ASSUME NEW j \in DOMAIN slots, NEW k \in DOMAIN slots,
             slots[j] \in Children, slots[j] = slots[k]
      PROVE  j = k
  BY <1>1, <1>3 DEF PlacesOK, Place
<1> QED
  BY <1>1, <1>2, <1>3 DEF LinksOK, LinksMatchSlots

----------------------------------------------------------------------------
(***************************************************************************)
(* The models of the children of a sheet.                                  *)
(***************************************************************************)
Enters(a, n) == a.type = "SheetInsert" /\ a.child = n
OnlyInserts(r, i) == \A l \in 1 .. i - 1 : r[l].type = "SheetInsert"

\* What is to be undone, last action first, should the transaction be aborted.
ToUndo == IF todo = <<>> THEN Reversed(txActions) ELSE todo

\* The actions r are still to be undone on the sheet s.  A child without a
\* model has come with one of them; it stands where that action has put it, or
\* the undo of a removal has put it elsewhere, and the action will find nothing
\* to erase.  A removal of such a child is the only one since it was inserted:
\* the sheet finds the entry with its own id only, and that one does not return
\* before the abort comes to it.
Backlog(s, r, c, max, editing) ==
    /\ \A i \in DOMAIN r : r[i].type = "SheetInsert" => r[i].slot <= max
    /\ \A k \in DOMAIN s :
          \/ c[s[k]].managed
          \/ \E i \in DOMAIN r :
                /\ Enters(r[i], s[k])
                /\ \/ k = r[i].slot
                   \/ ~editing /\ r[i].slot \notin DOMAIN s /\ OnlyInserts(r, i)
    /\ \A j \in DOMAIN r : r[j].type = "SheetRemove" =>
          \/ c[r[j].child].managed
          \/ \E i \in DOMAIN r :
                /\ Enters(r[i], r[j].child) /\ r[i].slot = selfId
                /\ selfId \notin DOMAIN s /\ j < i
                /\ \A l \in 1 .. i - 1 : l = j \/ r[l].type = "SheetInsert"
    /\ editing => \A i \in DOMAIN r :
          r[i].type = "SheetInsert" /\ r[i].slot = selfId /\ selfId \in DOMAIN s
              => OnlyInserts(r, i)

ManagedInv == kind = "Sheet" =>
    /\ \A i \in DOMAIN stack : \A j \in DOMAIN stack[i] :
          child[stack[i][j].child].managed
    /\ mstate # "Transaction" =>
          /\ \A k \in DOMAIN slots : child[slots[k]].managed
          /\ \A i \in DOMAIN todo : child[todo[i].child].managed
    /\ mstate = "Transaction" =>
          Backlog(slots, ToUndo, child, sheetMax, todo = <<>>)

\* The actions q are r with a before them.
Before(a, r, q) ==
    /\ Len(q) = Len(r) + 1 /\ q[1] = a
    /\ \A i \in 1 .. Len(r) : q[i + 1] = r[i]

LEMMA BacklogInsert ==
    ASSUME NEW s, SlotsOK(s), kind = "Sheet", NEW t, NEW c, NEW d, NEW max \in Nat,
           NEW r \in Seq(SheetAction), NEW q \in Seq(SheetAction),
           NEW a \in SheetAction, Before(a, r, q),
           a.type = "SheetInsert", a.slot = max + 1,
           t = NewSlots(s, a, FALSE), \A n \in Children : d[n].managed = c[n].managed,
           Backlog(s, r, c, max, TRUE)
    PROVE  Backlog(t, q, d, max + 1, TRUE)
<1>1. /\ Len(r) \in Nat /\ DOMAIN r = 1 .. Len(r) /\ DOMAIN q = 1 .. Len(r) + 1
      /\ \A i \in DOMAIN r : r[i] \in SheetAction
  <2>1. Len(q) = Len(r) + 1
    BY DEF Before
  <2> QED
    BY ONLY <2>1, r \in Seq(SheetAction), q \in Seq(SheetAction), LenProperties, ElementOfSeq
<1>2. /\ q[1] = a /\ 1 \in DOMAIN q
      /\ \A i \in DOMAIN r : i + 1 \in DOMAIN q /\ q[i + 1] = r[i]
      /\ \A j \in DOMAIN q : j = 1 \/ (j - 1 \in DOMAIN r /\ q[j] = r[j - 1])
  <2>1. q[1] = a /\ \A i \in 1 .. Len(r) : q[i + 1] = r[i]
    BY DEF Before
  <2>2. ASSUME NEW j \in 1 .. Len(r) + 1, j # 1
        PROVE  j - 1 \in 1 .. Len(r) /\ (j - 1) + 1 = j
    BY ONLY <1>1, <2>2
  <2> QED
    BY ONLY <1>1, <2>1, <2>2
<1>3. \A i \in DOMAIN r : OnlyInserts(r, i) => OnlyInserts(q, i + 1)
  <2>1. ASSUME NEW i \in DOMAIN r, OnlyInserts(r, i), NEW l \in 1 .. (i + 1) - 1
        PROVE  q[l].type = "SheetInsert"
    <3>1. l = 1 \/ (l - 1 \in 1 .. i - 1 /\ l \in DOMAIN q)
      BY ONLY <1>1, <2>1
    <3> QED
      BY ONLY <1>2, <2>1, <3>1, a.type = "SheetInsert" DEF OnlyInserts
  <2> QED
    BY ONLY <2>1 DEF OnlyInserts
<1>4. /\ DOMAIN s \subseteq DOMAIN t /\ DOMAIN t \subseteq DOMAIN s \cup {max + 1}
      /\ \A k \in DOMAIN t : \/ k \in DOMAIN s /\ t[k] = s[k]
                             \/ k = max + 1 /\ t[k] = a.child
  BY DEF NewSlots, Erases, Put
<1>5. \A k \in DOMAIN s : s[k] \in Children
  BY DEF SlotsOK
<1>6. /\ \A i \in DOMAIN r : r[i].type = "SheetInsert" => r[i].slot <= max
      /\ \A i \in DOMAIN r : r[i].slot \in Nat /\ r[i].child \in Children
  <2>1. \A i \in DOMAIN r : r[i].type = "SheetInsert" => r[i].slot <= max
    BY ONLY Backlog(s, r, c, max, TRUE) DEF Backlog
  <2> QED
    BY ONLY <1>1, <2>1 DEF SheetAction
<1>11. ASSUME NEW i \in DOMAIN r, r[i].type = "SheetInsert"
       PROVE  r[i].slot # max + 1
  <2>1. r[i].slot \in Nat /\ r[i].slot <= max
    BY <1>6, <1>11
  <2> QED
    BY ONLY <2>1, max \in Nat
<1>7. ASSUME NEW i \in DOMAIN q, q[i].type = "SheetInsert"
      PROVE  q[i].slot <= max + 1
  BY <1>1, <1>2, <1>6, <1>7
<1>8. ASSUME NEW k \in DOMAIN t
      PROVE  \/ d[t[k]].managed
             \/ \E i \in DOMAIN q : Enters(q[i], t[k]) /\ k = q[i].slot
  <2>1. CASE k \in DOMAIN s /\ t[k] = s[k]
    <3>1. \/ c[s[k]].managed
          \/ \E i \in DOMAIN r : Enters(r[i], s[k]) /\ k = r[i].slot
      BY <2>1 DEF Backlog
    <3> QED
      BY <1>2, <1>5, <2>1, <3>1
  <2>2. CASE k = max + 1 /\ t[k] = a.child
    BY <1>2, <2>2 DEF Enters
  <2> QED
    BY <1>4, <2>1, <2>2
<1>9. ASSUME NEW j \in DOMAIN q, q[j].type = "SheetRemove"
      PROVE  \/ d[q[j].child].managed
             \/ \E i \in DOMAIN q :
                   /\ Enters(q[i], q[j].child) /\ q[i].slot = selfId
                   /\ selfId \notin DOMAIN t /\ j < i
                   /\ \A l \in 1 .. i - 1 : l = j \/ q[l].type = "SheetInsert"
  <2>1. j # 1 /\ j - 1 \in DOMAIN r /\ q[j] = r[j - 1]
    BY <1>2, <1>9
  <2>2. CASE c[r[j - 1].child].managed
    BY <1>6, <2>1, <2>2
  <2>3. CASE ~c[r[j - 1].child].managed
    <3>1. PICK i \in DOMAIN r :
             /\ Enters(r[i], r[j - 1].child) /\ r[i].slot = selfId
             /\ selfId \notin DOMAIN s /\ j - 1 < i
             /\ \A l \in 1 .. i - 1 : l = j - 1 \/ r[l].type = "SheetInsert"
      BY <1>9, <2>1, <2>3 DEF Backlog
    <3>2. selfId \notin DOMAIN t
      <4>1. selfId # max + 1
        BY <1>11, <3>1 DEF Enters
      <4> QED
        BY ONLY <1>4, <3>1, <4>1
    <3>3. j < i + 1 /\ i + 1 \in DOMAIN q /\ q[i + 1] = r[i]
      BY <1>1, <1>2, <3>1
    <3>4. ASSUME NEW l \in 1 .. (i + 1) - 1 PROVE l = j \/ q[l].type = "SheetInsert"
      <4>1. l = 1 \/ (l - 1 \in 1 .. i - 1 /\ l \in DOMAIN q)
        BY ONLY <1>1, i \in DOMAIN r, l \in 1 .. (i + 1) - 1
      <4>2. l - 1 = j - 1 => l = j
        BY ONLY <1>1, j \in DOMAIN q, <4>1
      <4> QED
        BY <1>2, <3>1, <4>1, <4>2
    <3> QED
      BY <2>1, <3>1, <3>2, <3>3, <3>4
  <2> QED
    BY <2>2, <2>3
<1>10. ASSUME NEW i \in DOMAIN q, q[i].type = "SheetInsert", q[i].slot = selfId,
              selfId \in DOMAIN t
       PROVE  OnlyInserts(q, i)
  <2>1. CASE i = 1
    BY <2>1 DEF OnlyInserts
  <2>2. CASE i # 1
    <3>1. i - 1 \in DOMAIN r /\ q[i] = r[i - 1] /\ (i - 1) + 1 = i
      BY <1>1, <1>2, <2>2
    <3>2. selfId \in DOMAIN s
      <4>1. selfId # max + 1
        BY <1>10, <1>11, <3>1
      <4> QED
        BY ONLY <1>4, <1>10, <4>1
    <3>3. OnlyInserts(r, i - 1)
      BY <1>10, <3>1, <3>2 DEF Backlog
    <3> QED
      BY <1>3, <3>1, <3>3
  <2> QED
    BY <2>1, <2>2
<1> QED
  BY ONLY <1>7, <1>8, <1>9, <1>10 DEF Backlog

\* A sequence and the one with an element before it.
LEMMA BeforeFacts ==
    ASSUME NEW r \in Seq(SheetAction), NEW q \in Seq(SheetAction), NEW a,
           Before(a, r, q)
    PROVE  /\ DOMAIN r = 1 .. Len(r) /\ Len(r) \in Nat
           /\ q[1] = a /\ 1 \in DOMAIN q
           /\ \A i \in DOMAIN r : i + 1 \in DOMAIN q /\ q[i + 1] = r[i]
           /\ \A j \in DOMAIN q : j \in Nat /\ (j = 1 \/ (j - 1 \in DOMAIN r /\ q[j] = r[j - 1]))
           /\ \A i \in DOMAIN r : \A l \in 1 .. (i + 1) - 1 :
                 l \in DOMAIN q /\ (l = 1 \/ (l - 1 \in 1 .. i - 1 /\ l - 1 \in DOMAIN r))
           /\ \A j \in DOMAIN q : \A l \in 1 .. (j - 1) - 1 :
                 l \in DOMAIN r /\ l + 1 \in 1 .. j - 1
<1>1. /\ Len(r) \in Nat /\ DOMAIN r = 1 .. Len(r) /\ DOMAIN q = 1 .. Len(r) + 1
  <2>1. Len(q) = Len(r) + 1
    BY DEF Before
  <2> QED
    BY ONLY <2>1, r \in Seq(SheetAction), q \in Seq(SheetAction), LenProperties
<1>2. /\ \A i \in DOMAIN r : i + 1 \in DOMAIN q
      /\ \A j \in DOMAIN q : j \in Nat /\ (j = 1 \/ (j - 1 \in DOMAIN r /\ (j - 1) + 1 = j))
      /\ \A i \in DOMAIN r : \A l \in 1 .. (i + 1) - 1 :
            l \in DOMAIN q /\ (l = 1 \/ (l - 1 \in 1 .. i - 1 /\ l - 1 \in DOMAIN r))
      /\ \A j \in DOMAIN q : \A l \in 1 .. (j - 1) - 1 :
            l \in DOMAIN r /\ l + 1 \in 1 .. j - 1
  BY ONLY <1>1
<1>3. q[1] = a /\ \A i \in 1 .. Len(r) : q[i + 1] = r[i]
  BY DEF Before
<1> QED
  BY ONLY <1>1, <1>2, <1>3

LEMMA BacklogRemove ==
    ASSUME NEW s, SlotsOK(s), kind = "Sheet", NEW t, NEW c, NEW d, NEW max \in Nat,
           NEW r \in Seq(SheetAction), NEW q \in Seq(SheetAction),
           NEW a \in SheetAction, Before(a, r, q),
           a.type = "SheetRemove", selfId \in DOMAIN s, a.child = s[selfId],
           t = Without(s, selfId), \A n \in Children : d[n].managed = c[n].managed,
           Backlog(s, r, c, max, TRUE)
    PROVE  Backlog(t, q, d, max, TRUE)
<1>1. /\ DOMAIN r = 1 .. Len(r) /\ Len(r) \in Nat
      /\ q[1] = a /\ 1 \in DOMAIN q
      /\ \A i \in DOMAIN r : i + 1 \in DOMAIN q /\ q[i + 1] = r[i]
      /\ \A j \in DOMAIN q : j \in Nat /\ (j = 1 \/ (j - 1 \in DOMAIN r /\ q[j] = r[j - 1]))
      /\ \A i \in DOMAIN r : \A l \in 1 .. (i + 1) - 1 :
            l \in DOMAIN q /\ (l = 1 \/ (l - 1 \in 1 .. i - 1 /\ l - 1 \in DOMAIN r))
  BY BeforeFacts
<1>2. /\ DOMAIN t = DOMAIN s \ {selfId} /\ \A k \in DOMAIN t : t[k] = s[k]
      /\ \A k \in DOMAIN s : s[k] \in Children
      /\ \A i \in DOMAIN r : r[i].child \in Children
  <2>1. \A i \in DOMAIN r : r[i] \in SheetAction
    BY ONLY <1>1, r \in Seq(SheetAction), ElementOfSeq
  <2> QED
    BY <2>1 DEF Without, SlotsOK, SheetAction
<1>3. /\ \A i \in DOMAIN r : r[i].type = "SheetInsert" => r[i].slot <= max
      /\ \A k \in DOMAIN s :
            \/ c[s[k]].managed
            \/ \E i \in DOMAIN r : Enters(r[i], s[k]) /\ k = r[i].slot
      /\ \A i \in DOMAIN r : r[i].type = "SheetInsert" /\ r[i].slot = selfId
                                 => OnlyInserts(r, i)
  BY DEF Backlog
\* A removal that is recorded has taken the entry that is there.
<1>4. \A j \in DOMAIN r : r[j].type = "SheetRemove" => c[r[j].child].managed
  BY DEF Backlog
<1>5. ASSUME NEW i \in DOMAIN q, q[i].type = "SheetInsert" PROVE q[i].slot <= max
  BY <1>1, <1>3, <1>5
<1>6. ASSUME NEW k \in DOMAIN t
      PROVE  \/ d[t[k]].managed
             \/ \E i \in DOMAIN q : Enters(q[i], t[k]) /\ k = q[i].slot
  <2>1. k \in DOMAIN s /\ t[k] = s[k] /\ s[k] \in Children
    BY ONLY <1>2, k \in DOMAIN t
  <2>2. CASE c[s[k]].managed
    BY <2>1, <2>2
  <2>3. CASE \E i \in DOMAIN r : Enters(r[i], s[k]) /\ k = r[i].slot
    BY ONLY <1>1, <2>1, <2>3
  <2> QED
    BY ONLY <1>3, <2>1, <2>2, <2>3
<1>7. ASSUME NEW j \in DOMAIN q, q[j].type = "SheetRemove"
      PROVE  \/ d[q[j].child].managed
             \/ \E i \in DOMAIN q :
                   /\ Enters(q[i], q[j].child) /\ q[i].slot = selfId
                   /\ selfId \notin DOMAIN t /\ j < i
                   /\ \A l \in 1 .. i - 1 : l = j \/ q[l].type = "SheetInsert"
  <2>1. CASE j # 1
    <3>1. j - 1 \in DOMAIN r /\ q[j] = r[j - 1]
      BY ONLY <1>1, <2>1, j \in DOMAIN q
    <3>2. c[q[j].child].managed /\ q[j].child \in Children
      BY ONLY <1>2, <1>4, <1>7, <3>1
    <3> QED
      BY <3>2
  <2>2. CASE j = 1 /\ c[s[selfId]].managed
    BY <1>1, <1>2, <2>2
  <2>3. CASE j = 1 /\ ~c[s[selfId]].managed
    <3>1. PICK i \in DOMAIN r : Enters(r[i], s[selfId]) /\ selfId = r[i].slot
      BY <1>3, <2>3
    <3>2. OnlyInserts(r, i)
      BY <1>3, <3>1 DEF Enters
    <3>3. j < i + 1 /\ i + 1 \in DOMAIN q /\ q[i + 1] = r[i]
      BY <1>1, <2>3
    <3>4. ASSUME NEW l \in 1 .. (i + 1) - 1 PROVE l = j \/ q[l].type = "SheetInsert"
      <4>1. l \in DOMAIN q /\ (l = 1 \/ (l - 1 \in 1 .. i - 1 /\ l - 1 \in DOMAIN r))
        BY ONLY <1>1, i \in DOMAIN r, l \in 1 .. (i + 1) - 1
      <4> QED
        BY ONLY <1>1, <2>3, <3>2, <4>1 DEF OnlyInserts
    <3> QED
      BY ONLY <1>1, <1>2, <2>3, <3>1, <3>3, <3>4, a.child = s[selfId]
  <2> QED
    BY <2>1, <2>2, <2>3
<1> QED
  BY ONLY <1>2, <1>5, <1>6, <1>7 DEF Backlog

LEMMA BacklogExecute ==
    ASSUME NEW s, SlotsOK(s), kind = "Sheet", NEW t, NEW c, NEW d, NEW max \in Nat,
           NEW q \in Seq(SheetAction), NEW r \in Seq(SheetAction),
           NEW a \in SheetAction, Before(a, r, q), NEW editing \in BOOLEAN,
           Executable(s, a, TRUE), t = NewSlots(s, a, TRUE),
           \A n \in Children : d[n].managed = c[n].managed,
           Backlog(s, q, c, max, editing)
    PROVE  Backlog(t, r, d, max, FALSE)
<1>1. /\ DOMAIN r = 1 .. Len(r) /\ Len(r) \in Nat
      /\ q[1] = a /\ 1 \in DOMAIN q
      /\ \A i \in DOMAIN r : i + 1 \in DOMAIN q /\ q[i + 1] = r[i]
      /\ \A j \in DOMAIN q : j \in Nat /\ (j = 1 \/ (j - 1 \in DOMAIN r /\ q[j] = r[j - 1]))
      /\ \A j \in DOMAIN q : \A l \in 1 .. (j - 1) - 1 :
            l \in DOMAIN r /\ l + 1 \in 1 .. j - 1
  BY BeforeFacts
<1>2. /\ \A k \in DOMAIN s : s[k] \in Children
      /\ \A i \in DOMAIN q : q[i].child \in Children
      /\ a.type = "SheetInsert" \/ a.type = "SheetRemove"
  <2>1. \A i \in DOMAIN q : q[i] \in SheetAction
    BY ONLY q \in Seq(SheetAction), ElementOfSeq, LenProperties
  <2> QED
    BY <2>1 DEF SlotsOK, SheetAction
<1>3. \A j \in DOMAIN q : j # 1 /\ OnlyInserts(q, j) => OnlyInserts(r, j - 1)
  <2>1. ASSUME NEW j \in DOMAIN q, j # 1, OnlyInserts(q, j), NEW l \in 1 .. (j - 1) - 1
        PROVE  r[l].type = "SheetInsert"
    <3>1. l \in DOMAIN r /\ l + 1 \in 1 .. j - 1
      BY ONLY <1>1, j \in DOMAIN q, l \in 1 .. (j - 1) - 1
    <3> QED
      BY ONLY <1>1, <2>1, <3>1 DEF OnlyInserts
  <2> QED
    BY ONLY <2>1 DEF OnlyInserts
<1>4. ASSUME NEW i \in DOMAIN r, r[i].type = "SheetInsert" PROVE r[i].slot <= max
  BY ONLY <1>1, <1>4, Backlog(s, q, c, max, editing) DEF Backlog
\* The entries that stay.
<1>5. ASSUME NEW k \in DOMAIN t, k \in DOMAIN s, t[k] = s[k]
      PROVE  \/ d[t[k]].managed
             \/ \E i \in DOMAIN r :
                   /\ Enters(r[i], t[k])
                   /\ \/ k = r[i].slot
                      \/ r[i].slot \notin DOMAIN t /\ OnlyInserts(r, i)
  <2>1. CASE c[s[k]].managed
    BY <1>2, <1>5, <2>1
  <2>2. CASE ~c[s[k]].managed
    <3>1. PICK i \in DOMAIN q :
             /\ Enters(q[i], s[k])
             /\ \/ k = q[i].slot
                \/ q[i].slot \notin DOMAIN s /\ OnlyInserts(q, i)
      BY <1>5, <2>2 DEF Backlog
    <3>2. i # 1
      <4>1. CASE i = 1
        <5>1. a.type = "SheetInsert" /\ a.slot \in DOMAIN s /\ t = Without(s, a.slot)
          BY <1>1, <3>1, <4>1 DEF Enters, Executable, NewSlots, Erases
        <5> QED
          BY <1>1, <1>5, <3>1, <4>1, <5>1 DEF Without
      <4> QED
        BY <4>1
    <3>3. i - 1 \in DOMAIN r /\ r[i - 1] = q[i]
      BY <1>1, <3>2
    <3>4. CASE k = q[i].slot
      BY <1>5, <3>1, <3>3, <3>4
    <3>5. CASE q[i].slot \notin DOMAIN s /\ OnlyInserts(q, i)
      <4>1. a.type = "SheetInsert"
        <5>1. 1 \in 1 .. i - 1
          BY <1>1, <3>2
        <5> QED
          BY <1>1, <3>5, <5>1 DEF OnlyInserts
      <4>2. DOMAIN t \subseteq DOMAIN s
        BY <4>1 DEF NewSlots, Erases, Without
      <4> QED
        BY <1>3, <1>5, <3>1, <3>2, <3>3, <3>5, <4>2
    <3> QED
      BY <3>1, <3>4, <3>5
  <2> QED
    BY <2>1, <2>2
\* What a removal leaves for the actions after it.
<1>6. ASSUME a.type = "SheetRemove", ~c[a.child].managed
      PROVE  \E i \in DOMAIN r : /\ Enters(r[i], a.child) /\ r[i].slot = selfId
                                 /\ selfId \notin DOMAIN s /\ OnlyInserts(r, i)
  <2>1. PICK i \in DOMAIN q :
           /\ Enters(q[i], a.child) /\ q[i].slot = selfId
           /\ selfId \notin DOMAIN s /\ 1 < i
           /\ \A l \in 1 .. i - 1 : l = 1 \/ q[l].type = "SheetInsert"
    BY <1>1, <1>6 DEF Backlog
  <2>2. i # 1 /\ i - 1 \in DOMAIN r /\ r[i - 1] = q[i]
    BY <1>1, <2>1
  <2>3. ASSUME NEW l \in 1 .. (i - 1) - 1 PROVE r[l].type = "SheetInsert"
    <3>1. l \in DOMAIN r /\ l + 1 \in 1 .. i - 1 /\ l + 1 # 1
      BY ONLY <1>1, i \in DOMAIN q, l \in 1 .. (i - 1) - 1
    <3> QED
      BY <1>1, <2>1, <3>1
  <2> QED
    BY <2>1, <2>2, <2>3 DEF OnlyInserts
<1>7. ASSUME NEW k \in DOMAIN t
      PROVE  \/ d[t[k]].managed
             \/ \E i \in DOMAIN r :
                   /\ Enters(r[i], t[k])
                   /\ \/ k = r[i].slot
                      \/ r[i].slot \notin DOMAIN t /\ OnlyInserts(r, i)
  <2>1. CASE k \in DOMAIN s /\ t[k] = s[k]
    BY <1>5, <2>1
  <2>2. CASE ~(k \in DOMAIN s /\ t[k] = s[k])
    <3>1. /\ a.type = "SheetRemove" /\ k = a.slot /\ t[k] = a.child
          /\ DOMAIN t = DOMAIN s \cup {k}
      BY <1>2, <2>2 DEF NewSlots, Erases, Put, Without
    <3>2. CASE c[a.child].managed
      BY <1>1, <1>2, <3>1, <3>2
    <3>3. CASE ~c[a.child].managed
      BY <1>6, <3>1, <3>3
    <3> QED
      BY <3>2, <3>3
  <2> QED
    BY <2>1, <2>2
<1>8. ASSUME NEW j \in DOMAIN r, r[j].type = "SheetRemove"
      PROVE  \/ d[r[j].child].managed
             \/ \E i \in DOMAIN r :
                   /\ Enters(r[i], r[j].child) /\ r[i].slot = selfId
                   /\ selfId \notin DOMAIN t /\ j < i
                   /\ \A l \in 1 .. i - 1 : l = j \/ r[l].type = "SheetInsert"
  <2>1. j + 1 \in DOMAIN q /\ q[j + 1] = r[j] /\ j + 1 # 1
    BY <1>1
  <2>2. CASE c[r[j].child].managed
    BY <1>2, <2>1, <2>2
  <2>3. CASE ~c[r[j].child].managed
    <3>1. PICK i \in DOMAIN q :
             /\ Enters(q[i], r[j].child) /\ q[i].slot = selfId
             /\ selfId \notin DOMAIN s /\ j + 1 < i
             /\ \A l \in 1 .. i - 1 : l = j + 1 \/ q[l].type = "SheetInsert"
      BY <1>8, <2>1, <2>3 DEF Backlog
    <3>2. i # 1 /\ i - 1 \in DOMAIN r /\ r[i - 1] = q[i] /\ j < i - 1
      BY <1>1, <3>1
    <3>3. a.type = "SheetInsert"
      <4>1. 1 \in 1 .. i - 1 /\ 1 # j + 1
        BY <1>1, <3>1
      <4> QED
        BY <1>1, <3>1, <4>1
    <3>4. selfId \notin DOMAIN t
      BY <3>1, <3>3 DEF NewSlots, Erases, Without
    <3>5. ASSUME NEW l \in 1 .. (i - 1) - 1 PROVE l = j \/ r[l].type = "SheetInsert"
      <4>1. l \in DOMAIN r /\ l + 1 \in 1 .. i - 1 /\ (l + 1 = j + 1 => l = j)
        <5>1. l \in DOMAIN r /\ l + 1 \in 1 .. i - 1
          BY ONLY <1>1, i \in DOMAIN q, l \in 1 .. (i - 1) - 1
        <5>2. l \in Nat /\ j \in Nat
          <6>1. \A x \in 1 .. Len(r) : x \in Nat
            BY ONLY <1>1
          <6>2. \A x \in DOMAIN r : x \in Nat
            BY ONLY <1>1, <6>1
          <6> QED
            BY ONLY <5>1, <6>2, j \in DOMAIN r
        <5> QED
          BY ONLY <5>1, <5>2
      <4> QED
        BY <1>1, <3>1, <4>1
    <3> QED
      BY <3>1, <3>2, <3>4, <3>5
  <2> QED
    BY <2>2, <2>3
<1> QED
  BY ONLY <1>4, <1>7, <1>8 DEF Backlog

\* When nothing is left to undo, or nothing is recorded yet.
LEMMA BacklogDone ==
    ASSUME NEW s, NEW c, NEW max, NEW editing, Backlog(s, <<>>, c, max, editing)
    PROVE  \A k \in DOMAIN s : c[s[k]].managed
BY DEF Backlog

LEMMA BacklogStart ==
    ASSUME NEW s, NEW c, NEW max, NEW editing, \A k \in DOMAIN s : c[s[k]].managed
    PROVE  Backlog(s, <<>>, c, max, editing)
BY DEF Backlog

LEMMA BacklogAbort ==
    ASSUME NEW s, NEW r, NEW c, NEW max, NEW editing \in BOOLEAN,
           Backlog(s, r, c, max, TRUE)
    PROVE  Backlog(s, r, c, max, editing)
BY DEF Backlog

\* Whatever stands in the sheet at a commit, and whatever its actions name, has
\* its model or is reported as inserted.
LEMMA BacklogCommit ==
    ASSUME NEW s, NEW c, NEW max, NEW editing, NEW q \in Seq(SheetAction),
           Backlog(s, Reversed(q), c, max, editing)
    PROVE  LET inserted == UNION {QueryInserted(q[i]) : i \in DOMAIN q}
           IN  /\ \A k \in DOMAIN s : c[s[k]].managed \/ s[k] \in inserted
               /\ \A j \in DOMAIN q : c[q[j].child].managed \/ q[j].child \in inserted
<1> DEFINE r == Reversed(q)
           inserted == UNION {QueryInserted(q[i]) : i \in DOMAIN q}
<1>1. /\ Len(q) \in Nat /\ DOMAIN q = 1 .. Len(q) /\ DOMAIN r = 1 .. Len(q)
      /\ \A i \in 1 .. Len(q) : r[i] = q[Len(q) + 1 - i]
  <2>1. /\ r \in Seq(SheetAction) /\ Len(r) = Len(q)
        /\ \A i \in 1 .. Len(q) : r[i] = q[Len(q) + 1 - i]
    BY ONLY q \in Seq(SheetAction), ReversedFacts
  <2> QED
    BY ONLY <2>1, q \in Seq(SheetAction), LenProperties
<1>2. \A i \in 1 .. Len(q) :
         /\ Len(q) + 1 - i \in 1 .. Len(q)
         /\ Len(q) + 1 - (Len(q) + 1 - i) = i
  BY ONLY <1>1
<1>3. /\ \A i \in DOMAIN r : \E j \in DOMAIN q : r[i] = q[j]
      /\ \A j \in DOMAIN q : \E i \in DOMAIN r : r[i] = q[j]
  BY ONLY <1>1, <1>2
<1>4. \A j \in DOMAIN q : q[j].type = "SheetInsert" \/ q[j].type = "SheetRemove"
  <2>1. \A j \in DOMAIN q : q[j] \in SheetAction
    BY ONLY <1>1, q \in Seq(SheetAction), ElementOfSeq
  <2> QED
    BY ONLY <2>1 DEF SheetAction
<1>5. \A j \in DOMAIN q : q[j].type = "SheetInsert" => q[j].child \in inserted
  BY DEF QueryInserted
<1>6. \A n : (\E i \in DOMAIN r : Enters(r[i], n)) => n \in inserted
  BY ONLY <1>3, <1>5 DEF Enters
<1>7. /\ \A k \in DOMAIN s :
            c[s[k]].managed \/ \E i \in DOMAIN r : Enters(r[i], s[k])
      /\ \A j \in DOMAIN r : r[j].type = "SheetRemove" =>
            c[r[j].child].managed \/ \E i \in DOMAIN r : Enters(r[i], r[j].child)
  BY DEF Backlog
<1> HIDE DEF r, inserted
<1>8. ASSUME NEW j \in DOMAIN q
      PROVE  c[q[j].child].managed \/ q[j].child \in inserted
  BY ONLY <1>3, <1>4, <1>5, <1>6, <1>7, j \in DOMAIN q
<1> QED
  BY ONLY <1>6, <1>7, <1>8 DEF inserted

\* The links of a child change without its model.
LEMMA LinkedManaged ==
    ASSUME NEW c \in [Children -> ChildFields], NEW old, NEW new
    PROVE  \A n \in Children : Linked(c, old, new)[n].managed = c[n].managed
BY DEF Linked, ChildFields

LEMMA ManagedKept ==
    ASSUME NEW c \in [Children -> ChildFields], NEW s, NEW a, NEW undo
    PROVE  \A n \in Children : NewChild(s, c, a, undo)[n].managed = c[n].managed
BY LinkedManaged DEF NewChild

\* What the actions of the stack and of the running undo or redo need.
LEMMA OthersManaged ==
    ASSUME StateOK, ManagedInv, kind = "Sheet",
           \A n \in Children : child'[n].managed = child[n].managed, stack' = stack
    PROVE  \A i \in DOMAIN stack' : \A j \in DOMAIN stack'[i] :
              child'[stack'[i][j].child].managed
<1>1. ASSUME NEW i \in DOMAIN stack, NEW j \in DOMAIN stack[i]
      PROVE  child'[stack[i][j].child].managed
  <2>1. child[stack[i][j].child].managed
    BY DEF ManagedInv
  <2>2. stack[i][j] \in Recorded
    <3>1. stack[i][j] \in {stack[i][l] : l \in DOMAIN stack[i]}
      OBVIOUS
    <3> QED
      BY <3>1, Zenon DEF Recorded
  <2>3. stack[i][j].child \in Children
    <3>1. stack[i][j] \in SheetAction
      BY <2>2, RecordedKind, ActionKinds
    <3> QED
      BY <3>1 DEF SheetAction
  <2> QED
    BY <2>1, <2>3
<1> QED
  BY <1>1

\* An edit puts its action before what is to be undone.
LEMMA PushBefore ==
    ASSUME StateOK, kind = "Sheet", Editable, NEW a \in SheetAction, Push(a)
    PROVE  /\ ToUndo \in Seq(SheetAction) /\ ToUndo' \in Seq(SheetAction)
           /\ Before(a, ToUndo, ToUndo')
           /\ mstate = "Transaction" /\ mstate' = "Transaction"
           /\ todo = <<>> /\ todo' = <<>> /\ kind' = kind /\ selfId' = selfId
           /\ stack' = stack
<1>1. /\ txActions' = Append(txActions, a)
      /\ mstate = "Transaction" /\ mstate' = "Transaction"
      /\ todo = <<>> /\ todo' = <<>> /\ kind' = kind /\ selfId' = selfId
      /\ stack' = stack
  BY DEF Push, Editable, selfVars, engineVars
<1> DEFINE q == Append(txActions, a)
<1>2. txActions \in Seq(SheetAction)
  BY ActionKinds DEF StateOK
<1>3. /\ Len(txActions) \in Nat
      /\ q \in Seq(SheetAction) /\ Len(q) = Len(txActions) + 1
      /\ \A i \in 1 .. Len(txActions) : q[i] = txActions[i]
      /\ q[Len(txActions) + 1] = a
  BY ONLY <1>2, a \in SheetAction, AppendProperties, LenProperties
<1> HIDE DEF q
<1>4. /\ Reversed(txActions) \in Seq(SheetAction) /\ Reversed(q) \in Seq(SheetAction)
      /\ Len(Reversed(txActions)) = Len(txActions) /\ Len(Reversed(q)) = Len(q)
      /\ \A i \in 1 .. Len(txActions) :
            Reversed(txActions)[i] = txActions[Len(txActions) + 1 - i]
      /\ \A i \in 1 .. Len(q) : Reversed(q)[i] = q[Len(q) + 1 - i]
  BY ONLY <1>2, <1>3, ReversedFacts
<1>5. /\ 1 \in 1 .. Len(q) /\ Len(q) + 1 - 1 = Len(txActions) + 1
      /\ \A i \in 1 .. Len(txActions) :
            /\ i + 1 \in 1 .. Len(q)
            /\ Len(q) + 1 - (i + 1) = Len(txActions) + 1 - i
            /\ Len(txActions) + 1 - i \in 1 .. Len(txActions)
  BY ONLY <1>3
<1>6. Before(a, Reversed(txActions), Reversed(q))
  <2>1. Len(Reversed(q)) = Len(Reversed(txActions)) + 1 /\ Reversed(q)[1] = a
    BY ONLY <1>3, <1>4, <1>5
  <2>2. ASSUME NEW i \in 1 .. Len(txActions)
        PROVE  Reversed(q)[i + 1] = Reversed(txActions)[i]
    <3> DEFINE j == Len(txActions) + 1 - i
    <3>1. i + 1 \in 1 .. Len(q) /\ Len(q) + 1 - (i + 1) = j /\ j \in 1 .. Len(txActions)
      BY ONLY <1>5, i \in 1 .. Len(txActions)
    <3>2. Reversed(q)[i + 1] = q[j] /\ Reversed(txActions)[i] = txActions[j]
      BY ONLY <1>4, <3>1, i \in 1 .. Len(txActions)
    <3> HIDE DEF j
    <3>3. q[j] = txActions[j]
      BY ONLY <1>3, <3>1
    <3> QED
      BY ONLY <3>2, <3>3
  <2> QED
    BY ONLY <1>4, <2>1, <2>2 DEF Before
<1>7. ToUndo = Reversed(txActions) /\ ToUndo' = Reversed(q)
  <2>1. todo' = <<>> /\ txActions' = q
    BY <1>1 DEF q
  <2> QED
    BY <1>1, <2>1 DEF ToUndo, Reversed
<1> QED
  BY ONLY <1>1, <1>4, <1>6, <1>7

LEMMA ReversedElements ==
    ASSUME NEW S, NEW q \in Seq(S)
    PROVE  \A i \in DOMAIN Reversed(q) : \E j \in DOMAIN q : Reversed(q)[i] = q[j]
<1>1. /\ Len(q) \in Nat /\ DOMAIN q = 1 .. Len(q)
      /\ Reversed(q) \in Seq(S) /\ Len(Reversed(q)) = Len(q)
      /\ \A i \in 1 .. Len(q) : Reversed(q)[i] = q[Len(q) + 1 - i]
  BY ReversedFacts, LenProperties
<1>2. DOMAIN Reversed(q) = 1 .. Len(q)
  BY ONLY <1>1, LenProperties
<1>3. \A i \in 1 .. Len(q) : Len(q) + 1 - i \in 1 .. Len(q)
  BY ONLY <1>1
<1> QED
  BY ONLY <1>1, <1>2, <1>3

LEMMA ManagedPrimed ==
    ASSUME kind' = kind, selfId' = selfId,
           kind = "Sheet" =>
              /\ \A i \in DOMAIN stack' : \A j \in DOMAIN stack'[i] :
                    child'[stack'[i][j].child].managed
              /\ mstate' # "Transaction" =>
                    /\ \A k \in DOMAIN slots' : child'[slots'[k]].managed
                    /\ \A i \in DOMAIN todo' : child'[todo'[i].child].managed
              /\ mstate' = "Transaction" =>
                    Backlog(slots', ToUndo', child', sheetMax', todo' = <<>>)
    PROVE  ManagedInv'
<1>1. Backlog(slots', ToUndo', child', sheetMax', todo' = <<>>)
          => Backlog(slots, ToUndo, child, sheetMax, todo = <<>>)'
  BY DEF Backlog, Enters, OnlyInserts
<1> QED
  BY <1>1 DEF ManagedInv

LEMMA SheetInsertManaged ==
    ASSUME IInv, ManagedInv, NEW n \in Children, SheetInsert(n) PROVE ManagedInv'
<1> DEFINE a == [type |-> "SheetInsert", slot |-> sheetMax + 1, child |-> n]
<1>1. /\ Editable /\ kind = "Sheet" /\ Push(a)
      /\ sheetMax' = sheetMax + 1
      /\ slots' = NewSlots(slots, a, FALSE)
      /\ child' = NewChild(slots, child, a, FALSE)
  BY DEF SheetInsert
<1>2. /\ StateOK /\ sheetMax \in Nat /\ SlotsOK(slots)
      /\ child \in [Children -> ChildFields]
  BY DEF IInv, StateOK, TypeOK
<1>3. a \in SheetAction
  BY <1>2 DEF SheetAction
<1>4. a.type = "SheetInsert" /\ a.slot = sheetMax + 1 /\ a.child = n
  OBVIOUS
<1> HIDE DEF a
<1>5. /\ ToUndo \in Seq(SheetAction) /\ ToUndo' \in Seq(SheetAction)
      /\ Before(a, ToUndo, ToUndo')
      /\ mstate = "Transaction" /\ mstate' = "Transaction"
      /\ todo = <<>> /\ todo' = <<>> /\ kind' = kind /\ selfId' = selfId
      /\ stack' = stack
  BY <1>1, <1>2, <1>3, PushBefore
<1>6. \A m \in Children : child'[m].managed = child[m].managed
  <2>1. ~Erases(a, FALSE) /\ a.type # "Assign"
    BY ONLY <1>4 DEF Erases
  <2>2. child' = Linked(child, Invalid, n)
    BY ONLY <1>1, <1>4, <2>1 DEF NewChild
  <2> QED
    BY ONLY <1>2, <2>2, LinkedManaged
<1>7. Backlog(slots, ToUndo, child, sheetMax, TRUE)
  <2>1. todo = <<>> <=> TRUE
    BY <1>5
  <2> QED
    BY <1>1, <1>5, <2>1 DEF ManagedInv
<1>8. Backlog(slots', ToUndo', child', sheetMax + 1, TRUE)
  BY ONLY <1>1, <1>2, <1>3, <1>4, <1>5, <1>6, <1>7, BacklogInsert
<1>9. Backlog(slots', ToUndo', child', sheetMax', todo' = <<>>)
  BY <1>1, <1>5, <1>8
<1>10. \A i \in DOMAIN stack' : \A j \in DOMAIN stack'[i] :
          child'[stack'[i][j].child].managed
  BY <1>1, <1>2, <1>5, <1>6, OthersManaged
<1> QED
  BY <1>5, <1>9, <1>10, ManagedPrimed

LEMMA SheetRemoveManaged ==
    ASSUME IInv, ManagedInv, NEW id \in 1 .. MaxSheet, SheetRemove(id)
    PROVE  ManagedInv'
<1> DEFINE a == [type |-> "SheetRemove", slot |-> id, child |-> slots[selfId]]
<1>1. /\ Editable /\ kind = "Sheet" /\ Push(a)
      /\ selfId \in DOMAIN slots
      /\ slots' = Without(slots, selfId)
      /\ child' = Linked(child, slots[selfId], Invalid)
      /\ sheetMax' = sheetMax
  BY DEF SheetRemove
<1>2. /\ StateOK /\ sheetMax \in Nat /\ SlotsOK(slots)
      /\ child \in [Children -> ChildFields] /\ slots[selfId] \in Children
  BY <1>1 DEF IInv, StateOK, TypeOK, SlotsOK
<1>3. a \in SheetAction
  <2>1. id \in Nat
    OBVIOUS
  <2> QED
    BY ONLY <1>2, <2>1 DEF SheetAction
<1>4. a.type = "SheetRemove" /\ a.child = slots[selfId]
  OBVIOUS
<1> HIDE DEF a
<1>5. /\ ToUndo \in Seq(SheetAction) /\ ToUndo' \in Seq(SheetAction)
      /\ Before(a, ToUndo, ToUndo')
      /\ mstate = "Transaction" /\ mstate' = "Transaction"
      /\ todo = <<>> /\ todo' = <<>> /\ kind' = kind /\ selfId' = selfId
      /\ stack' = stack
  BY <1>1, <1>2, <1>3, PushBefore
<1>6. \A m \in Children : child'[m].managed = child[m].managed
  BY <1>1, <1>2, LinkedManaged
<1>7. Backlog(slots, ToUndo, child, sheetMax, TRUE)
  <2>1. todo = <<>> <=> TRUE
    BY <1>5
  <2> QED
    BY <1>1, <1>5, <2>1 DEF ManagedInv
<1>8. Backlog(slots', ToUndo', child', sheetMax, TRUE)
  BY ONLY <1>1, <1>2, <1>3, <1>4, <1>5, <1>6, <1>7, BacklogRemove
<1>9. Backlog(slots', ToUndo', child', sheetMax', todo' = <<>>)
  BY <1>1, <1>5, <1>8
<1>10. \A i \in DOMAIN stack' : \A j \in DOMAIN stack'[i] :
          child'[stack'[i][j].child].managed
  BY <1>1, <1>2, <1>5, <1>6, OthersManaged
<1> QED
  BY <1>5, <1>9, <1>10, ManagedPrimed

\* The calls that only begin or end something.
LEMMA ControlManaged ==
    ASSUME IInv, ManagedInv,
           BeginTransaction \/ CommitNothing \/ AbortTransaction \/ Undo \/ Redo
               \/ ExecuteMissing
    PROVE  ManagedInv'
<1>1. /\ UNCHANGED <<kind, selfId, slots, child, sheetMax, txActions, stack>>
  BY DEF BeginTransaction, CommitNothing, AbortTransaction, Undo, Redo,
         ExecuteMissing, selfVars, contentVars, clientVars, engineVars
<1>2. /\ StateOK /\ current \in Nat /\ current <= Len(stack)
      /\ stack \in Seq(Seq(KindAction)) /\ txActions \in Seq(KindAction)
      /\ mstate = "Idle" => todo = <<>> /\ txActions = <<>>
  BY DEF IInv, StateOK, TypeOK
<1> SUFFICES ASSUME kind = "Sheet"
             PROVE  /\ mstate' # "Transaction" =>
                          /\ \A k \in DOMAIN slots' : child'[slots'[k]].managed
                          /\ \A i \in DOMAIN todo' : child'[todo'[i].child].managed
                    /\ mstate' = "Transaction" =>
                          Backlog(slots', ToUndo', child', sheetMax', todo' = <<>>)
  <2>1. kind = "Sheet" => \A i \in DOMAIN stack' : \A j \in DOMAIN stack'[i] :
                             child'[stack'[i][j].child].managed
    BY <1>1, <1>2, OthersManaged
  <2> QED
    BY <1>1, <2>1, ManagedPrimed
<1>3. Reversed(<<>>) = <<>>
  BY DEF Reversed
<1>4. /\ mstate # "Transaction" => \A k \in DOMAIN slots : child[slots[k]].managed
      /\ mstate = "Transaction" => Backlog(slots, ToUndo, child, sheetMax, todo = <<>>)
  BY DEF ManagedInv
<1>5. CASE BeginTransaction
  <2>1. /\ mstate = "Idle" /\ mstate' = "Transaction" /\ todo' = <<>> /\ txActions' = <<>>
    BY <1>1, <1>2, <1>5 DEF BeginTransaction
  <2>2. ToUndo' = <<>>
    BY <1>3, <2>1 DEF ToUndo, Reversed
  <2>3. Backlog(slots', <<>>, child', sheetMax', todo' = <<>>)
    BY <1>1, <1>4, <2>1, BacklogStart
  <2> QED
    BY <2>1, <2>2, <2>3
<1>6. CASE (CommitNothing \/ AbortTransaction) /\ txActions = <<>>
  <2>1. mstate = "Transaction" /\ mstate' = "Idle" /\ todo = <<>> /\ todo' = <<>>
    BY <1>3, <1>6 DEF CommitNothing, AbortTransaction, Ready
  <2>2. ToUndo = <<>>
    BY <1>3, <1>6, <2>1 DEF ToUndo
  <2>3. \A k \in DOMAIN slots : child[slots[k]].managed
    BY <1>4, <2>1, <2>2, BacklogDone
  <2> QED
    BY <1>1, <2>1, <2>3
<1>7. CASE AbortTransaction /\ txActions # <<>>
  <2>1. /\ mstate = "Transaction" /\ mstate' = "Transaction" /\ todo = <<>>
        /\ todo' = Reversed(txActions)
    BY <1>7 DEF AbortTransaction, Ready
  <2>2. ToUndo' = ToUndo
    BY <1>1, <2>1 DEF ToUndo, Reversed
  <2>3. Backlog(slots, ToUndo, child, sheetMax, TRUE)
    <3>1. todo = <<>> <=> TRUE
      BY <2>1
    <3> QED
      BY <1>4, <2>1, <3>1
  <2>4. Backlog(slots, ToUndo, child, sheetMax, todo' = <<>>)
    BY <2>3, BacklogAbort
  <2> QED
    BY <1>1, <2>1, <2>2, <2>4
<1>8. CASE Undo \/ Redo
  <2>1. /\ mstate = "Idle" /\ mstate' # "Transaction"
        /\ \/ current # 0 /\ todo' = Reversed(stack[current])
           \/ current # Len(stack) /\ todo' = stack[current + 1]
    BY <1>8 DEF Undo, Redo
  <2>2. Len(stack) \in Nat /\ DOMAIN stack = 1 .. Len(stack)
    BY ONLY <1>2, LenProperties
  <2>3. ASSUME NEW k \in 1 .. Len(stack)
        PROVE  /\ \A i \in DOMAIN stack[k] : child[stack[k][i].child].managed
               /\ \A i \in DOMAIN Reversed(stack[k]) :
                     child[Reversed(stack[k])[i].child].managed
    <3>1. \A i \in DOMAIN stack[k] : child[stack[k][i].child].managed
      BY <2>2 DEF ManagedInv
    <3>2. \A i \in DOMAIN Reversed(stack[k]) :
             \E j \in DOMAIN stack[k] : Reversed(stack[k])[i] = stack[k][j]
      <4>1. stack[k] \in Seq(KindAction)
        BY <1>2, StackFacts
      <4> QED
        BY ONLY <4>1, ReversedElements
    <3> QED
      BY <3>1, <3>2
  <2>4. /\ current # 0 => current \in 1 .. Len(stack)
        /\ current # Len(stack) => current + 1 \in 1 .. Len(stack)
    <3>1. current \in Nat /\ current <= Len(stack)
      BY ONLY <1>2
    <3>2. Len(stack) \in Nat
      BY ONLY <2>2
    <3> QED
      BY ONLY <3>1, <3>2
  <2>5. \A i \in DOMAIN todo' : child[todo'[i].child].managed
    BY ONLY <2>1, <2>3, <2>4
  <2> QED
    BY <1>1, <1>4, <2>1, <2>5
<1>9. CASE ExecuteMissing
  <2>1. mstate' = mstate /\ todo' = todo
    BY <1>9 DEF ExecuteMissing
  <2>2. ToUndo' = ToUndo
    BY <1>1, <2>1 DEF ToUndo, Reversed
  <2>3. mstate # "Transaction" => \A i \in DOMAIN todo : child[todo[i].child].managed
    BY DEF ManagedInv
  <2> QED
    BY <1>1, <1>4, <2>1, <2>2, <2>3
<1> QED
  BY <1>5, <1>6, <1>7, <1>8, <1>9 DEF CommitNothing

LEMMA CommitManaged == ASSUME IInv, ManagedInv, Commit PROVE ManagedInv'
<1> DEFINE inserted == UNION {QueryInserted(txActions[i]) : i \in DOMAIN txActions}
<1>1. /\ kind' = kind /\ selfId' = selfId /\ slots' = slots /\ todo' = todo
      /\ mstate = "Transaction" /\ mstate' = "Idle" /\ todo = <<>>
      /\ child' = [n \in Children |-> [child[n] EXCEPT !.managed = @ \/ n \in inserted]]
      /\ Engine!CommitWindow(txActions)
  BY DEF Commit, Ready, selfVars
<1>2. /\ StateOK /\ SlotsOK(slots) /\ child \in [Children -> ChildFields]
      /\ current \in Nat /\ current <= Len(stack)
      /\ stack \in Seq(Seq(KindAction)) /\ txActions \in Seq(KindAction)
  BY DEF IInv, StateOK, TypeOK
<1> HIDE DEF inserted
<1> SUFFICES ASSUME kind = "Sheet"
             PROVE  /\ \A i \in DOMAIN stack' : \A j \in DOMAIN stack'[i] :
                          child'[stack'[i][j].child].managed
                    /\ \A k \in DOMAIN slots' : child'[slots'[k]].managed
  BY <1>1, ManagedPrimed
<1>3. \A n \in Children : child[n].managed \/ n \in inserted => child'[n].managed
  BY <1>1, <1>2 DEF ChildFields
<1>4. txActions \in Seq(SheetAction)
  BY <1>2, ActionKinds
<1>5. Backlog(slots, Reversed(txActions), child, sheetMax, todo = <<>>)
  <2>1. ToUndo = Reversed(txActions)
    BY <1>1 DEF ToUndo
  <2>2. Backlog(slots, ToUndo, child, sheetMax, todo = <<>>)
    BY <1>1 DEF ManagedInv
  <2> QED
    BY ONLY <2>1, <2>2
<1>6. /\ \A k \in DOMAIN slots : child[slots[k]].managed \/ slots[k] \in inserted
      /\ \A j \in DOMAIN txActions :
            child[txActions[j].child].managed \/ txActions[j].child \in inserted
  BY <1>4, <1>5, BacklogCommit DEF inserted
<1>7. \A k \in DOMAIN slots' : child'[slots'[k]].managed
  BY <1>1, <1>2, <1>3, <1>6 DEF SlotsOK
<1>8. \A j \in DOMAIN txActions : child'[txActions[j].child].managed
  <2>1. \A j \in DOMAIN txActions : txActions[j].child \in Children
    <3>1. \A j \in DOMAIN txActions : txActions[j] \in SheetAction
      BY ONLY <1>4, ElementOfSeq, LenProperties
    <3> QED
      BY ONLY <3>1 DEF SheetAction
  <2> QED
    BY ONLY <1>3, <1>6, <2>1
<1>9. PICK d \in 0 .. current :
         /\ stack' \in Seq(Seq(KindAction))
         /\ Len(stack') = current + 1 - d
         /\ \A i \in 1 .. current - d : stack'[i] = stack[i + d]
         /\ stack'[current + 1 - d] = txActions
  BY <1>1, <1>2, CommitFacts
<1>10. ASSUME NEW i \in DOMAIN stack', NEW j \in DOMAIN stack'[i]
       PROVE  child'[stack'[i][j].child].managed
  <2>1. /\ DOMAIN stack' = 1 .. Len(stack') /\ Len(stack') = current + 1 - d
        /\ Len(stack) \in Nat /\ current \in Nat /\ current <= Len(stack)
    BY ONLY <1>2, <1>9, LenProperties
  <2>2. \/ i = current + 1 - d
        \/ i \in 1 .. current - d /\ i + d \in 1 .. Len(stack)
    BY ONLY <2>1, d \in 0 .. current, i \in DOMAIN stack'
  <2>3. CASE i = current + 1 - d
    BY <1>8, <1>9, <2>3
  <2>4. CASE i \in 1 .. current - d /\ i + d \in 1 .. Len(stack)
    <3>1. stack'[i] = stack[i + d] /\ i + d \in DOMAIN stack
      <4>1. DOMAIN stack = 1 .. Len(stack)
        BY ONLY <1>2, LenProperties
      <4> QED
        BY ONLY <1>9, <2>4, <4>1
    <3>2. child[stack'[i][j].child].managed
      BY <3>1 DEF ManagedInv
    <3>3. stack'[i][j].child \in Children
      <4>1. stack'[i][j] \in Recorded
        BY <1>2, <2>4, <3>1, StackFacts
      <4>2. stack'[i][j] \in SheetAction
        BY <1>2, <4>1, RecordedKind, ActionKinds
      <4> QED
        BY ONLY <4>2 DEF SheetAction
    <3> QED
      BY ONLY <1>3, <3>2, <3>3
  <2> QED
    BY ONLY <2>2, <2>3, <2>4
<1> QED
  BY <1>7, <1>10

LEMMA ExecuteManaged == ASSUME IInv, ManagedInv, ExecuteAction PROVE ManagedInv'
<1> DEFINE a == Head(todo)
           undo == mstate # "Redo"
<1>1. /\ todo # <<>> /\ Executable(slots, a, undo)
      /\ slots' = NewSlots(slots, a, undo)
      /\ child' = NewChild(slots, child, a, undo)
      /\ sheetMax' = sheetMax /\ kind' = kind /\ selfId' = selfId
      /\ todo' = Tail(todo)
  BY DEF ExecuteAction, clientVars, selfVars
<1>2. /\ StateOK /\ SlotsOK(slots) /\ child \in [Children -> ChildFields]
      /\ todo \in Seq(KindAction) /\ sheetMax \in Nat
  BY DEF IInv, StateOK, TypeOK
<1>3. /\ stack' = stack /\ todo' \in Seq(KindAction)
      /\ mstate \in {"Transaction", "Undo", "Redo"}
      /\ (todo' # <<>> /\ mstate' = mstate) \/ (todo' = <<>> /\ mstate' = "Idle")
  BY <1>2, ExecuteControl
<1>4. \A n \in Children : child'[n].managed = child[n].managed
  BY <1>1, <1>2, ManagedKept
<1> SUFFICES ASSUME kind = "Sheet"
             PROVE  /\ mstate' # "Transaction" =>
                          /\ \A k \in DOMAIN slots' : child'[slots'[k]].managed
                          /\ \A i \in DOMAIN todo' : child'[todo'[i].child].managed
                    /\ mstate' = "Transaction" =>
                          Backlog(slots', ToUndo', child', sheetMax', todo' = <<>>)
  <2>1. kind = "Sheet" => \A i \in DOMAIN stack' : \A j \in DOMAIN stack'[i] :
                             child'[stack'[i][j].child].managed
    BY <1>2, <1>3, <1>4, OthersManaged
  <2> QED
    BY <1>1, <2>1, ManagedPrimed
<1>5. /\ todo \in Seq(SheetAction) /\ todo' \in Seq(SheetAction)
      /\ a \in SheetAction /\ Before(a, todo', todo)
      /\ 1 \in DOMAIN todo /\ a = todo[1]
      /\ \A i \in DOMAIN todo' : i + 1 \in DOMAIN todo /\ todo'[i] = todo[i + 1]
  <2>1. todo \in Seq(SheetAction) /\ todo' \in Seq(SheetAction)
    BY <1>2, <1>3, ActionKinds
  <2>2. /\ Len(todo) \in Nat \ {0} /\ a \in SheetAction /\ a = todo[1]
        /\ Len(todo') = Len(todo) - 1
        /\ \A i \in 1 .. Len(todo) - 1 : todo'[i] = todo[i + 1]
    BY ONLY <1>1, <2>1, HeadFacts
  <2>3. DOMAIN todo = 1 .. Len(todo) /\ DOMAIN todo' = 1 .. Len(todo')
    BY ONLY <2>1, LenProperties
  <2>4. Len(todo) = Len(todo') + 1 /\ Len(todo) - 1 = Len(todo')
    BY ONLY <2>2
  <2>5. Before(a, todo', todo)
    BY ONLY <2>2, <2>4 DEF Before
  <2>6. 1 \in DOMAIN todo /\ \A i \in DOMAIN todo' : i + 1 \in DOMAIN todo
    BY ONLY <2>2, <2>3
  <2>7. \A i \in DOMAIN todo' : todo'[i] = todo[i + 1]
    BY ONLY <2>2, <2>3, <2>4
  <2> QED
    BY ONLY <2>1, <2>2, <2>5, <2>6, <2>7
<1> HIDE DEF a, undo
<1>6. CASE mstate = "Transaction"
  <2>1. undo = TRUE
    BY <1>6 DEF undo
  <2>2. ToUndo = todo /\ Backlog(slots, ToUndo, child, sheetMax, todo = <<>>)
    BY <1>1, <1>6 DEF ToUndo, ManagedInv
  <2>3. Backlog(slots, todo, child, sheetMax, FALSE)
    <3>1. todo = <<>> <=> FALSE
      BY <1>1
    <3> QED
      BY <2>2, <3>1
  <2>4. Backlog(slots', todo', child', sheetMax, FALSE)
    BY ONLY <1>1, <1>2, <1>4, <1>5, <2>1, <2>3, kind = "Sheet", BacklogExecute
  <2>5. CASE todo' = <<>>
    <3>1. \A k \in DOMAIN slots' : child'[slots'[k]].managed
      BY ONLY <2>4, <2>5, BacklogDone
    <3> QED
      BY <1>3, <2>5, <3>1
  <2>6. CASE todo' # <<>>
    <3>1. ToUndo' = todo' /\ mstate' = "Transaction"
      BY <1>3, <1>6, <2>6 DEF ToUndo
    <3>2. todo' = <<>> <=> FALSE
      BY <2>6
    <3>3. Backlog(slots', ToUndo', child', sheetMax', todo' = <<>>)
      BY <1>1, <2>4, <3>1, <3>2
    <3> QED
      BY <3>1, <3>3
  <2> QED
    BY <2>5, <2>6
<1>7. CASE mstate # "Transaction"
  <2>1. /\ \A k \in DOMAIN slots : child[slots[k]].managed
        /\ \A i \in DOMAIN todo : child[todo[i].child].managed
    BY <1>7 DEF ManagedInv
  <2>2. a.child \in Children /\ child[a.child].managed /\ a.type # "Assign"
    BY <1>5, <2>1 DEF SheetAction
  <2>3. \A i \in DOMAIN todo' : child'[todo'[i].child].managed
    <3>1. \A i \in DOMAIN todo' : todo'[i] \in SheetAction
      BY ONLY <1>5, ElementOfSeq, LenProperties
    <3>2. \A i \in DOMAIN todo' : todo'[i].child \in Children
      BY ONLY <3>1 DEF SheetAction
    <3>3. \A i \in DOMAIN todo' : child[todo'[i].child].managed
      BY ONLY <1>5, <2>1
    <3> QED
      BY ONLY <1>4, <3>2, <3>3
  <2>4. \A k \in DOMAIN slots' :
           \/ k \in DOMAIN slots /\ slots'[k] = slots[k]
           \/ k = a.slot /\ slots'[k] = a.child
    BY ONLY <1>1, <2>2, NewEntries
  <2>5. \A k \in DOMAIN slots' : child'[slots'[k]].managed
    <3>1. \A k \in DOMAIN slots : slots[k] \in Children
      BY <1>2 DEF SlotsOK
    <3> QED
      BY ONLY <1>4, <2>1, <2>2, <2>4, <3>1
  <2>6. mstate' # "Transaction"
    BY <1>3, <1>7
  <2> QED
    BY <2>3, <2>5, <2>6
<1> QED
  BY <1>6, <1>7

LEMMA ManagedInit == Init => ManagedInv
<1> SUFFICES ASSUME Init, kind = "Sheet" PROVE ManagedInv
  BY DEF ManagedInv
<1>1. /\ todo = <<>> /\ stack = <<>> /\ mstate = "Idle" /\ DOMAIN slots = {}
  BY DEF Init
<1> QED
  BY <1>1 DEF ManagedInv

LEMMA ManagedStep == IInv /\ ManagedInv /\ [Next]_vars => ManagedInv'
<1> SUFFICES ASSUME IInv, ManagedInv, [Next]_vars PROVE ManagedInv'
  OBVIOUS
<1>1. ASSUME NEW n \in Children, SheetInsert(n) PROVE ManagedInv'
  BY <1>1, SheetInsertManaged
<1>2. ASSUME NEW id \in 1 .. MaxSheet, SheetRemove(id) PROVE ManagedInv'
  BY <1>2, SheetRemoveManaged
<1>3. ASSUME NEW k \in Keys, NEW v \in Property, SetProperty(k, v) \/ SetAt(k, v)
      PROVE  ManagedInv'
  <2>1. kind # "Sheet" /\ kind' = kind
    BY <1>3 DEF SetProperty, SetAt, Push, selfVars
  <2> QED
    BY <2>1 DEF ManagedInv
<1>4. CASE \/ BeginTransaction \/ CommitNothing \/ AbortTransaction
           \/ Undo \/ Redo \/ ExecuteMissing
  BY <1>4, ControlManaged
<1>5. CASE Commit
  BY <1>5, CommitManaged
<1>6. CASE ExecuteAction
  BY <1>6, ExecuteManaged
<1>7. CASE UNCHANGED vars
  <2>1. UNCHANGED <<kind, selfId, slots, child, sheetMax, mstate, todo, txActions, stack>>
    BY <1>7 DEF vars, selfVars, contentVars, clientVars, engineVars
  <2>2. ToUndo' = ToUndo
    BY <2>1 DEF ToUndo, Reversed
  <2> QED
    BY <2>1, <2>2, ManagedPrimed DEF ManagedInv
<1> QED
  BY <1>1, <1>2, <1>3, <1>4, <1>5, <1>6, <1>7 DEF Next

----------------------------------------------------------------------------
(***************************************************************************)
(* The theorems.                                                           *)
(***************************************************************************)
LEMMA InvStep == IInv /\ [Next]_vars => IInv'
<1> SUFFICES ASSUME IInv, [Next]_vars PROVE IInv'
  OBVIOUS
<1>1. ASSUME NEW n \in Children, SheetInsert(n) PROVE IInv'
  BY <1>1, SheetInsertStep
<1>2. ASSUME NEW id \in 1 .. MaxSheet, SheetRemove(id) PROVE IInv'
  BY <1>2, SheetRemoveStep
<1>3. ASSUME NEW k \in Keys, NEW v \in Property, SetProperty(k, v) PROVE IInv'
  BY <1>3, SetPropertyStep
<1>4. ASSUME NEW k \in Keys, NEW v \in Property, SetAt(k, v) PROVE IInv'
  BY <1>4, SetAtStep
<1>5. CASE BeginTransaction
  BY <1>5, BeginTransactionStep
<1>6. CASE CommitNothing
  BY <1>6, CommitNothingStep
<1>7. CASE Commit
  BY <1>7, CommitStep
<1>8. CASE AbortTransaction
  BY <1>8, AbortTransactionStep
<1>9. CASE Undo
  BY <1>9, UndoStep
<1>10. CASE Redo
  BY <1>10, RedoStep
<1>11. CASE ExecuteAction
  BY <1>11, ExecuteActionStep
<1>12. CASE ExecuteMissing
  BY <1>12, ExecuteMissingStep
<1>13. CASE UNCHANGED vars
  <2>1. /\ UNCHANGED <<kind, selfId, slots, child, sheetMax, given, strayed>>
        /\ UNCHANGED <<mstate, txActions, todo, stack, min, current, hist, fault>>
    BY <1>13 DEF vars, selfVars, contentVars, clientVars, engineVars
  <2>2. StateOK'
    <3>1. /\ SlotNames' = SlotNames /\ KindAction' = KindAction
          /\ SlotsOK(slots)' = SlotsOK(slots)
      BY ONLY <2>1 DEF SlotNames, KindAction, SlotsOK
    <3> QED
      BY ONLY <2>1, <3>1, IInv DEF IInv, StateOK, TypeOK, Transaction
  <2>3. ASSUME RecordOK PROVE RecordOK'
    BY <2>1, <2>3, RecordedSame DEF RecordOK
  <2>4. ASSUME PathOK PROVE PathOK'
    BY ONLY <2>1, <2>4 DEF PathOK, IsSheet
  <2> QED
    BY <2>1, <2>2, <2>3, <2>4 DEF IInv
<1> QED
  BY <1>1, <1>2, <1>3, <1>4, <1>5, <1>6, <1>7, <1>8, <1>9, <1>10, <1>11, <1>12, <1>13
     DEF Next

LEMMA InvAlways == Spec => []IInv
BY InvInit, InvStep, PTL DEF Spec

\* The slots of all three containers, their children, the recorded actions and
\* the engine keep their types, also when undo has run into a missing entry.
THEOREM ContainersTypeCorrect == Spec => []TypeOK
<1>1. IInv => TypeOK
  BY DEF IInv, StateOK
<1> QED
  BY InvAlways, <1>1, PTL

\* An id of a sheet is never given to a second child while an action that names
\* it can be undone or redone, however often the sheet was aborted or undone.
THEOREM SheetIdsAlwaysUnique == Spec => []SheetIdsUnique
<1>1. IInv => SheetIdsUnique
  BY DEF IInv, RecordOK, SheetIdsUnique
<1> QED
  BY InvAlways, <1>1, PTL

\* SheetAction::execute never erases what find() has not found, as long as
\* remove() is asked for the entry that it does remove.
THEOREM EntryAlwaysFound == Spec => []EntryFound
<1>1. IInv => EntryFound
  BY DEF IInv, StateOK, PathOK, EntryFound
<1> QED
  BY InvAlways, <1>1, PTL

\* A sheet at rest has the entries of its current step, after any number of
\* transactions, aborts, undos and redos, trims of the stack included.
THEOREM SheetAlwaysRestored == Spec => []SheetRestored
<1>1. IInv => SheetRestored
  BY DEF IInv, PathOK, SheetRestored, AtRestRestored, Engine!currentStep
<1> QED
  BY InvAlways, <1>1, PTL

\* In all three containers, whatever is undone, redone and aborted, and however
\* the values of a property action are mixed up: a child stands in one slot at
\* most, and it is linked and active exactly while it stands there, as long as
\* SheetNode::remove took the entry it was asked for.
THEOREM LinksAlwaysMatch == Spec => []LinksMatchSlots
<1>1. Spec => []LinkInv
  BY LinkInit, LinkStep, InvAlways, PTL DEF Spec
<1> QED
  BY LinksMatch, <1>1, PTL

\* A child that stands in a sheet at rest has the model: whatever an undo, a
\* redo or an abort puts there was reported as inserted by a commit before,
\* even where remove() was asked for another entry than the one it took.
THEOREM SheetAlwaysManaged == Spec => []SheetManaged
<1>1. Spec => []ManagedInv
  BY ManagedInit, ManagedStep, InvAlways, PTL DEF Spec
<1>2. ManagedInv => SheetManaged
  BY DEF ManagedInv, SheetManaged, InSlots
<1> QED
  BY <1>1, <1>2, PTL
=============================================================================
