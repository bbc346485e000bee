--------------------------- MODULE DocumentProofs ---------------------------
(***************************************************************************)
(* What TLAPS proves of Document, for every set of nodes and bytes, every  *)
(* limit, any client and whatever the uninitialized pointers hold: the     *)
(* types of its state, that the index never names a node that is gone or   *)
(* has another id, that a node keeps its id while it lives; and, without   *)
(* clones, that a node with an id has its model when it dies.              *)
(***************************************************************************)
EXTENDS Document, NodeTreeProofs, FiniteSetTheorems

\* The index leads to live nodes with the ids it has them under.
IndexOK(h, ix) ==
    /\ DOMAIN ix \subseteq Nat \ {0}
    /\ \A i \in DOMAIN ix : ix[i] \in DOMAIN h /\ h[ix[i]].id = i

\* No node of h has lost the id it has in heap.
SameIds(h) ==
    \A n \in DOMAIN heap \cap DOMAIN h :
        heap[n].id # 0 => h[n].id = heap[n].id

\* The rest of the state.
StateOK ==
    /\ mstate \in {"Idle", "Transaction", "Undo", "Redo", "Destroyed"}
    /\ lockedNode \in Nodes \cup {Null, Wild}
    /\ root \in Nodes \cup {Null}
    /\ txActions \in Seq(Action)
    /\ todo \in Seq(Action)
    /\ maxId \in Nat
    /\ stack \in Seq(Transaction) /\ min \in Nat /\ current \in Nat
    /\ current <= Len(stack)
    /\ fault \in Fault

IInv ==
    /\ HeapOK(heap)
    /\ IndexOK(heap, index)
    /\ held \subseteq DOMAIN heap
    /\ StateOK

\* What a step has to leave of the nodes.
NodesGood ==
    /\ HeapOK(heap')
    /\ IndexOK(heap', index')
    /\ held' \subseteq DOMAIN heap'
    /\ SameIds(heap')

----------------------------------------------------------------------------
\* A step that goes on with the heap h and the index ix.
LEMMA ReleaseFacts ==
    ASSUME NEW h, NEW ix, HeapOK(h), IndexOK(h, ix), Release(h, ix)
    PROVE  /\ HeapOK(heap')
           /\ IndexOK(heap', index')
           /\ DOMAIN heap' \subseteq DOMAIN h
           /\ held' \cap DOMAIN h \subseteq DOMAIN heap'
           /\ \A n \in DOMAIN heap' : heap'[n] = h[n]
           /\ fault' \in {fault, "no engine"}
<1> DEFINE alive == Reach(h, Owners')
           freed == {h[n].id : n \in DOMAIN h \ alive}
<1>1. alive \subseteq DOMAIN h /\ held' \cap DOMAIN h \subseteq alive
  BY DEF Reach, Owners
<1>7. fault' \in {fault, "no engine"}
  BY DEF Release, AfterDeath
<1> HIDE DEF alive
<1>2. /\ heap' = [n \in alive |-> h[n]]
      /\ index' = [i \in DOMAIN ix \ freed |-> ix[i]]
  BY DEF Release, alive
<1>3. /\ DOMAIN heap' = alive
      /\ \A n \in DOMAIN heap' : heap'[n] = h[n]
      /\ DOMAIN index' = DOMAIN ix \ freed
      /\ \A i \in DOMAIN index' : index'[i] = ix[i]
  BY <1>2
<1>4. HeapOK(heap')
  BY <1>1, <1>3 DEF HeapOK
<1>5. ASSUME NEW i \in DOMAIN index'
      PROVE  index'[i] \in DOMAIN heap' /\ heap'[index'[i]].id = i
  <2>1. i \in DOMAIN ix /\ index'[i] = ix[i] /\ i \notin freed
    BY <1>3
  <2>2. ix[i] \in DOMAIN h /\ h[ix[i]].id = i
    BY <2>1 DEF IndexOK
  <2>3. ix[i] \in alive
    BY <2>1, <2>2
  <2> QED
    BY <1>3, <2>1, <2>2, <2>3
<1>6. DOMAIN index' \subseteq Nat \ {0}
  BY <1>3 DEF IndexOK
<1> QED
  BY <1>1, <1>3, <1>4, <1>5, <1>6, <1>7 DEF IndexOK

LEMMA InvTypes == IInv => TypeOK
BY DEF IInv, HeapOK, IndexOK, StateOK, TypeOK, Transaction

\* The heap and the index of a step that ends with Release.
LEMMA ReleaseStep ==
    ASSUME NEW h, NEW ix, HeapOK(h), IndexOK(h, ix), SameIds(h),
           held' \subseteq DOMAIN h, Release(h, ix)
    PROVE  NodesGood /\ fault' \in {fault, "no engine"}
<1>1. /\ HeapOK(heap')
      /\ IndexOK(heap', index')
      /\ DOMAIN heap' \subseteq DOMAIN h
      /\ held' \cap DOMAIN h \subseteq DOMAIN heap'
      /\ \A n \in DOMAIN heap' : heap'[n] = h[n]
      /\ fault' \in {fault, "no engine"}
  BY ReleaseFacts
<1>2. SameIds(heap')
  BY <1>1 DEF SameIds
<1> QED
  BY <1>1, <1>2 DEF NodesGood

\* ... and of one that leaves them alone.
LEMMA UnchangedStep ==
    ASSUME IInv, heap' = heap, index' = index, held' = held
    PROVE  NodesGood
BY DEF IInv, HeapOK, IndexOK, SameIds, NodesGood

\* ... and of one that executes an action.
LEMMA ExecutedStep ==
    ASSUME IInv, NEW a \in Action, NEW undo \in BOOLEAN, held' = held,
           Executable(heap, a, undo), Release(Executed(heap, a, undo), index)
    PROVE  NodesGood /\ fault' \in {fault, "no engine"}
<1> DEFINE h == Executed(heap, a, undo)
<1>1. /\ HeapOK(h)
      /\ DOMAIN h = DOMAIN heap
      /\ \A n \in DOMAIN heap : h[n].id = heap[n].id
  BY ExecutedFacts DEF IInv
<1> HIDE DEF h
<1>2. IndexOK(h, index) /\ SameIds(h)
  BY <1>1 DEF IInv, IndexOK, SameIds
<1>3. Release(h, index) /\ held' \subseteq DOMAIN h
  BY <1>1 DEF h, IInv
<1> QED
  BY <1>1, <1>2, <1>3, ReleaseStep

\* The initial state.
LEMMA InvInit == Init => IInv
<1> SUFFICES ASSUME Init PROVE IInv
  OBVIOUS
<1>1. HeapOK(heap)
  BY DEF Init, HeapOK
<1>2. IndexOK(heap, index)
  BY DEF Init, IndexOK
<1>3. lockedNode \in Nodes \cup {Null, Wild}
  BY DocumentAssumption DEF Init
<1>4. <<>> \in Seq(Action) /\ <<>> \in Seq(Transaction) /\ Len(<<>>) = 0
  OBVIOUS
<1>5. StateOK
  BY <1>3, <1>4 DEF Init, StateOK, Fault
<1>6. held \subseteq DOMAIN heap
  BY DEF Init
<1> QED
  BY <1>1, <1>2, <1>5, <1>6 DEF IInv

----------------------------------------------------------------------------
(***************************************************************************)
(* One step per action.                                                    *)
(***************************************************************************)
Good == NodesGood /\ StateOK'

LEMMA CreateStep == ASSUME IInv, NEW n \in Nodes, Create(n) PROVE Good
<1>1. PICK p \in Uninit :
         heap' = [m \in DOMAIN heap \cup {n} |->
                     IF m \in DOMAIN heap THEN heap[m]
                     ELSE [items |-> <<>>, parent |-> p, state |-> "Created",
                           managed |-> FALSE, id |-> 0]]
  BY DEF Create
<1>2. n \notin DOMAIN heap /\ index' = index /\ held' = held \cup {n}
  BY DEF Create, nodeVars
<1>3. /\ DOMAIN heap' = DOMAIN heap \cup {n}
      /\ \A m \in DOMAIN heap : heap'[m] = heap[m]
      /\ heap'[n] = [items |-> <<>>, parent |-> p, state |-> "Created",
                     managed |-> FALSE, id |-> 0]
  BY <1>1, <1>2
<1>4. heap'[n] \in NodeFields(n)
  BY <1>3, DocumentAssumption DEF NodeFields, NodeState
<1>5. HeapOK(heap')
  BY <1>3, <1>4 DEF HeapOK, IInv
<1>6. IndexOK(heap', index')
  BY <1>2, <1>3 DEF IndexOK, IInv
<1>7. SameIds(heap')
  BY <1>2, <1>3 DEF SameIds
<1>8. StateOK'
  BY <1>2 DEF IInv, StateOK, Create, engineVars
<1>9. held' \subseteq DOMAIN heap'
  BY <1>2, <1>3 DEF IInv
<1> QED
  BY <1>5, <1>6, <1>7, <1>8, <1>9 DEF Good, NodesGood

LEMMA DropStep == ASSUME IInv, NEW n \in Nodes, Drop(n) PROVE Good
<1>1. Release(heap, index) /\ SameIds(heap) /\ held' \subseteq DOMAIN heap
  BY DEF Drop, SameIds, IInv
<1>2. NodesGood /\ fault' \in {fault, "no engine"}
  BY <1>1, ReleaseStep DEF IInv
<1>3. StateOK'
  BY <1>2 DEF IInv, StateOK, Drop, engineVars, Fault
<1> QED
  BY <1>2, <1>3 DEF Good

LEMMA LoadRootStep == ASSUME IInv, NEW n \in Nodes, LoadRoot(n) PROVE Good
<1>1. /\ DOMAIN heap' = DOMAIN heap
      /\ index' = index
      /\ \A m \in DOMAIN heap :
            heap'[m] = IF m \notin Reach(heap, {n}) THEN heap[m]
                       ELSE [heap[m] EXCEPT !.managed = TRUE,
                                !.state = IF m = n THEN "Created" ELSE @]
  BY DEF LoadRoot, engineVars
<1>2. ASSUME NEW m \in DOMAIN heap
      PROVE  heap'[m] \in NodeFields(m) /\ heap'[m].id = heap[m].id
  <2>1. heap[m] \in NodeFields(m)
    BY DEF IInv, HeapOK
  <2>2. CASE m \notin Reach(heap, {n})
    BY <1>1, <2>1, <2>2
  <2>3. CASE m \in Reach(heap, {n})
    <3>1. PICK st \in NodeState :
             heap'[m] = [heap[m] EXCEPT !.managed = TRUE, !.state = st]
      <4>1. heap'[m] = [heap[m] EXCEPT !.managed = TRUE,
                            !.state = IF m = n THEN "Created" ELSE @]
        BY <1>1, <2>3
      <4>2. heap[m].state \in NodeState
        BY <2>1 DEF NodeFields
      <4> QED
        BY <4>1, <4>2 DEF NodeState
    <3> QED
      BY <2>1, <3>1 DEF NodeFields
  <2> QED
    BY <2>2, <2>3
<1>3. held' \subseteq DOMAIN heap'
  BY <1>1 DEF IInv, LoadRoot
<1>5. NodesGood
  BY <1>1, <1>2, <1>3 DEF IInv, HeapOK, IndexOK, SameIds, NodesGood
<1>4. StateOK'
  BY DEF IInv, StateOK, LoadRoot, engineVars
<1> QED
  BY <1>4, <1>5 DEF Good

\* An edit: the action is executed and recorded, or leaves the vector.
LEMMA EditStep ==
    ASSUME IInv, NEW a \in Action, Edit(a) PROVE Good
<1>1. CASE Executable(heap, a, FALSE)
  <2>1. /\ Release(Executed(heap, a, FALSE), index)
        /\ txActions' = Append(txActions, a)
        /\ lockedNode' = Null
        /\ UNCHANGED <<held, mstate, root, todo, maxId, engineVars>>
    BY <1>1 DEF Edit
  <2>2. NodesGood /\ fault' \in {fault, "no engine"}
    BY <1>1, <2>1, ExecutedStep
  <2>3. Append(txActions, a) \in Seq(Action)
    BY AppendProperties DEF IInv, StateOK
  <2>4. StateOK'
    BY <2>1, <2>2, <2>3 DEF IInv, StateOK, engineVars, Fault
  <2> QED
    BY <2>2, <2>4 DEF Good
<1>2. CASE ~Executable(heap, a, FALSE)
  <2>1. /\ fault' = "out of range"
        /\ UNCHANGED <<nodeVars, mstate, lockedNode, root, txActions, todo,
                       maxId, engineVars>>
    BY <1>2 DEF Edit
  <2>2. StateOK'
    BY <2>1 DEF IInv, StateOK, nodeVars, engineVars, Fault
  <2>3. NodesGood
    BY <2>1, UnchangedStep DEF nodeVars
  <2> QED
    BY <2>2, <2>3 DEF Good
<1> QED
  BY <1>1, <1>2

\* The runs and slices that edits are made of are sequences.
LEMMA RunsType == ASSUME NEW S, NEW s \in Runs(S) PROVE s \in Seq(S)
<1>1. PICK k \in 0 .. MaxItems : s \in [1 .. k -> S]
  BY DEF Runs
<1>2. k \in Nat
  BY <1>1, DocumentAssumption
<1> QED
  BY <1>1, <1>2

LEMMA EditableFacts ==
    ASSUME IInv, NEW p \in Editable
    PROVE  /\ p \in DOMAIN heap
           /\ p \in VectorNodes => heap[p].items \in Seq(Nodes)
           /\ p \in BytesNodes => heap[p].items \in Seq(Bytes)
           /\ Len(heap[p].items) \in Nat
<1>1. p \in DOMAIN heap
  BY DEF Editable, OnTree, Reachable, Reach
<1>2. heap[p] \in NodeFields(p) /\ p \in Nodes
  BY <1>1 DEF IInv, HeapOK
<1>3. p \in BytesNodes => p \notin VectorNodes
  BY NodeTreeAssumption
<1>4. /\ p \in VectorNodes => heap[p].items \in Seq(Nodes)
      /\ p \in BytesNodes => heap[p].items \in Seq(Bytes)
  BY <1>2, <1>3 DEF NodeFields
<1> QED
  BY <1>1, <1>2, <1>4, LenProperties DEF Nodes

LEMMA VectorInsertStep ==
    ASSUME IInv, NEW p \in Nodes, VectorInsert(p) PROVE Good
<1> DEFINE free == {n \in held \ {root} :
                       heap[n].state = "Created" /\ p \notin Reach(heap, {n})}
<1>1. PICK nodes \in Runs(free), i \in 0 .. MaxItems :
         Edit([type |-> "VectorInsert", parent |-> p, index |-> i, items |-> nodes])
  BY DEF VectorInsert
<1>2. i \in Nat /\ p \in VectorNodes
  BY DocumentAssumption DEF VectorInsert
<1>4. free \subseteq Nodes
  BY DEF IInv, HeapOK
<1> HIDE DEF free
<1>5. nodes \in Seq(Nodes)
  BY <1>4, RunsType
<1>3. [type |-> "VectorInsert", parent |-> p, index |-> i, items |-> nodes] \in Action
  BY <1>2, <1>5 DEF Action, VectorInsDelAction
<1> QED
  BY <1>1, <1>3, EditStep

\* What a removal or a replacement copies out of the node.
LEMMA SliceType ==
    ASSUME NEW S, NEW s \in Seq(S), NEW i \in 0 .. MaxItems,
           NEW n \in 0 .. MaxItems, i + n <= Len(s)
    PROVE  /\ i \in Nat
           /\ Slice(s, i, n) \in Seq(S)
           /\ Len(Slice(s, i, n)) = n
<1>1. i \in Nat /\ n \in Nat
  BY DocumentAssumption
<1> QED
  BY <1>1, SliceFacts

LEMMA VectorRemoveStep ==
    ASSUME IInv, NEW p \in Nodes, VectorRemove(p) PROVE Good
<1> DEFINE s == heap[p].items
<1>1. PICK i \in 0 .. MaxItems, count \in 0 .. MaxItems :
         /\ ValidRemove(i, count, Len(s))
         /\ Edit([type |-> "VectorRemove", parent |-> p, index |-> i,
                  items |-> Slice(s, i, count)])
  BY DEF VectorRemove
<1>2. p \in VectorNodes /\ s \in Seq(Nodes) /\ Len(s) \in Nat
  BY EditableFacts DEF VectorRemove
<1>3. i + count <= Len(s)
  BY <1>1, <1>2, DocumentAssumption DEF ValidRemove
<1>4. i \in Nat /\ Slice(s, i, count) \in Seq(Nodes)
  BY <1>2, <1>3, SliceType
<1>5. [type |-> "VectorRemove", parent |-> p, index |-> i,
       items |-> Slice(s, i, count)] \in Action
  BY <1>2, <1>4 DEF Action, VectorInsDelAction
<1> QED
  BY <1>1, <1>5, EditStep

LEMMA VectorMoveStep ==
    ASSUME IInv, NEW p \in Nodes, VectorMove(p) PROVE Good
<1>1. PICK i \in 0 .. MaxItems, count \in 0 .. MaxItems, dest \in 0 .. MaxItems :
         /\ ~(dest >= i /\ dest < i + count)
         /\ Edit([type |-> "VectorMove", parent |-> p, index |-> i,
                  count |-> count, dest |-> dest])
  BY DEF VectorMove
<1>2. i \in Nat /\ count \in Nat /\ dest \in Nat /\ p \in VectorNodes
  BY DocumentAssumption DEF VectorMove
<1>3. dest \notin i .. i + count - 1
  BY <1>1, <1>2
<1>4. [type |-> "VectorMove", parent |-> p, index |-> i,
       count |-> count, dest |-> dest] \in Action
  BY <1>2, <1>3 DEF Action, VectorMoveAction
<1> QED
  BY <1>1, <1>4, EditStep

LEMMA BytesInsertStep ==
    ASSUME IInv, NEW p \in Nodes, BytesInsert(p) PROVE Good
<1>1. PICK i \in 0 .. MaxItems, bytes \in Runs(Bytes) :
         Edit([type |-> "BytesInsert", parent |-> p, index |-> i, items |-> bytes])
  BY DEF BytesInsert
<1>2. i \in Nat /\ p \in BytesNodes
  BY DocumentAssumption DEF BytesInsert
<1>3. bytes \in Seq(Bytes)
  BY RunsType
<1>4. [type |-> "BytesInsert", parent |-> p, index |-> i, items |-> bytes] \in Action
  BY <1>2, <1>3 DEF Action, BytesAction
<1> QED
  BY <1>1, <1>4, EditStep

LEMMA BytesRemoveStep ==
    ASSUME IInv, NEW p \in Nodes, BytesRemove(p) PROVE Good
<1> DEFINE s == heap[p].items
<1>1. PICK i \in 0 .. MaxItems, size \in 0 .. MaxItems :
         /\ ValidRemove(i, size, Len(s))
         /\ Edit([type |-> "BytesRemove", parent |-> p, index |-> i,
                  items |-> Slice(s, i, size)])
  BY DEF BytesRemove
<1>2. p \in BytesNodes /\ s \in Seq(Bytes) /\ Len(s) \in Nat
  BY EditableFacts DEF BytesRemove
<1>3. i + size <= Len(s)
  BY <1>1, <1>2, DocumentAssumption DEF ValidRemove
<1>4. i \in Nat /\ Slice(s, i, size) \in Seq(Bytes)
  BY <1>2, <1>3, SliceType
<1>5. [type |-> "BytesRemove", parent |-> p, index |-> i,
       items |-> Slice(s, i, size)] \in Action
  BY <1>2, <1>4 DEF Action, BytesAction
<1> QED
  BY <1>1, <1>5, EditStep

LEMMA BytesReplaceStep ==
    ASSUME IInv, NEW p \in Nodes, BytesReplace(p) PROVE Good
<1> DEFINE s == heap[p].items
<1>1. PICK i \in 0 .. MaxItems, bytes \in Runs(Bytes) :
         /\ i + Len(bytes) <= Len(s)
         /\ Edit([type |-> "BytesReplace", parent |-> p, index |-> i,
                  items |-> bytes, old |-> Slice(s, i, Len(bytes))])
  BY DEF BytesReplace
<1>2. p \in BytesNodes /\ s \in Seq(Bytes)
  BY EditableFacts DEF BytesReplace
<1>3. bytes \in Seq(Bytes) /\ Len(bytes) \in Nat /\ i \in Nat
  BY RunsType, LenProperties, DocumentAssumption
<1>4. /\ Slice(s, i, Len(bytes)) \in Seq(Bytes)
      /\ Len(Slice(s, i, Len(bytes))) = Len(bytes)
  <2>1. i + Len(bytes) <= Len(s)
    BY <1>1
  <2> HIDE DEF s
  <2> QED
    BY ONLY <2>1, <1>2, <1>3, SliceFacts, ZenonT(30)
<1>5. [type |-> "BytesReplace", parent |-> p, index |-> i,
       items |-> bytes, old |-> Slice(s, i, Len(bytes))] \in Action
  BY <1>2, <1>3, <1>4 DEF Action, BytesReplaceAction
<1> QED
  BY <1>1, <1>5, EditStep

\* Two actions at once, with whatever bytes come out of the stale iterators.
LEMMA BytesReplaceBeyondStep ==
    ASSUME IInv, NEW p \in Nodes, BytesReplaceBeyond(p) PROVE Good
<1> DEFINE s == heap[p].items
           Zeros(i, n) == [type |-> "BytesInsert", parent |-> p, index |-> n,
                           items |-> [k \in 1 .. i + n - Len(s) |-> Zero]]
<1>1. PICK i \in 0 .. MaxItems, bytes \in Runs(Bytes) :
         LET off == i + Len(bytes) - Len(s)
             zeros == [type |-> "BytesInsert", parent |-> p,
                       index |-> Len(bytes), items |-> [k \in 1 .. off |-> Zero]]
         IN  /\ off > 0 /\ i + Len(bytes) <= MaxItems
             /\ IF Executable(heap, zeros, FALSE)
                THEN \E old \in [DOMAIN bytes -> Bytes] :
                       LET replace == [type |-> "BytesReplace", parent |-> p,
                                       index |-> i, items |-> bytes, old |-> old]
                           grown == Executed(heap, zeros, FALSE)
                       IN  /\ txActions' = txActions \o <<zeros, replace>>
                           /\ lockedNode' = Null
                           /\ UNCHANGED <<held, mstate, root, todo, maxId, engineVars>>
                           /\ Release(Executed(grown, replace, FALSE), index)
                ELSE /\ fault' = "out of range"
                     /\ UNCHANGED <<nodeVars, mstate, lockedNode, root, txActions,
                                    todo, maxId, engineVars>>
  BY DEF BytesReplaceBeyond
<1>2. /\ p \in BytesNodes /\ p \in DOMAIN heap
      /\ s \in Seq(Bytes) /\ Len(s) \in Nat
  BY EditableFacts DEF BytesReplaceBeyond
<1>3. bytes \in Seq(Bytes) /\ Len(bytes) \in Nat /\ i \in Nat
  BY RunsType, LenProperties, DocumentAssumption
<1> DEFINE off == i + Len(bytes) - Len(s)
           items == [k \in 1 .. off |-> Zero]
           zeros == [type |-> "BytesInsert", parent |-> p,
                     index |-> Len(bytes), items |-> items]
           grown == Executed(heap, zeros, FALSE)
<1>7. off \in Nat
  <2>1. off > 0
    BY <1>1
  <2>2. \A j, k, l \in Nat : j + k - l > 0 => j + k - l \in Nat
    OBVIOUS
  <2> QED
    BY <1>2, <1>3, <2>1, <2>2
<1>4. zeros \in BytesAction /\ zeros \in Action
  <2>1. Zero \in Bytes
    BY <1>2, NodeTreeAssumption
  <2>2. items \in Seq(Bytes)
    BY <1>7, <2>1
  <2> QED
    BY <1>2, <1>3, <2>2 DEF Action, BytesAction
<1>5. CASE Executable(heap, zeros, FALSE)
  <2>1. PICK old \in [DOMAIN bytes -> Bytes] :
           LET replace == [type |-> "BytesReplace", parent |-> p,
                           index |-> i, items |-> bytes, old |-> old]
           IN  /\ txActions' = txActions \o <<zeros, replace>>
               /\ lockedNode' = Null
               /\ UNCHANGED <<held, mstate, root, todo, maxId, engineVars>>
               /\ Release(Executed(grown, replace, FALSE), index)
    BY <1>1, <1>5
  <2> DEFINE replace == [type |-> "BytesReplace", parent |-> p,
                         index |-> i, items |-> bytes, old |-> old]
  <2>2. replace \in Action
    <3>1. DOMAIN bytes = 1 .. Len(bytes)
      BY <1>3, LenProperties
    <3>2. old \in Seq(Bytes) /\ Len(old) = Len(bytes)
      BY <1>3, <3>1
    <3> QED
      BY <1>2, <1>3, <3>2 DEF Action, BytesReplaceAction
  <2>3. /\ HeapOK(grown) /\ DOMAIN grown = DOMAIN heap
        /\ \A n \in DOMAIN heap : grown[n].id = heap[n].id
    BY <1>4, <1>5, ExecutedFacts DEF IInv
  <2>4. Executable(grown, replace, FALSE)
    <3>1. Len(grown[p].items) = Len(s) + Len(items)
      BY <1>2, <1>4, <1>5, BytesInsertGrows DEF IInv
    <3>2. Len(items) = off
      BY <1>4, <1>7
    <3>3. Len(grown[p].items) = Len(s) + off
      BY <3>1, <3>2
    <3>4. \A j, k, l \in Nat : j + k <= l + (j + k - l)
      OBVIOUS
    <3>5. i + Len(bytes) <= Len(grown[p].items)
      BY <1>2, <1>3, <3>3, <3>4
    <3> QED
      BY <3>5 DEF Executable
  <2> DEFINE h == Executed(grown, replace, FALSE)
  <2>5. /\ HeapOK(h) /\ DOMAIN h = DOMAIN heap
        /\ \A n \in DOMAIN heap : h[n].id = heap[n].id
    <3> HIDE DEF replace, grown
    <3>1. /\ HeapOK(h) /\ DOMAIN h = DOMAIN grown
          /\ \A n \in DOMAIN grown : h[n].id = grown[n].id
      BY ONLY <2>2, <2>3, <2>4, ExecutedFacts, ZenonT(30)
    <3> QED
      BY ONLY <2>3, <3>1
  <2>6. Release(h, index) /\ held' = held
    BY <2>1
  <2> HIDE DEF h
  <2>7. IndexOK(h, index) /\ SameIds(h) /\ held' \subseteq DOMAIN h
    BY <2>5, <2>6 DEF IInv, IndexOK, SameIds
  <2>8. NodesGood /\ fault' \in {fault, "no engine"}
    BY <2>5, <2>6, <2>7, ReleaseStep
  <2>9. txActions' \in Seq(Action)
    <3>1. <<zeros, replace>> \in Seq(Action)
      BY <1>4, <2>2
    <3> QED
      BY <2>1, <3>1, ConcatProperties DEF IInv, StateOK
  <2> QED
    BY <2>1, <2>8, <2>9 DEF Good, IInv, StateOK, engineVars, Fault
<1>6. CASE ~Executable(heap, zeros, FALSE)
  <2>1. /\ fault' = "out of range"
        /\ UNCHANGED <<nodeVars, mstate, lockedNode, root, txActions, todo,
                       maxId, engineVars>>
    BY <1>1, <1>6
  <2>2. StateOK'
    BY <2>1 DEF IInv, StateOK, nodeVars, engineVars, Fault
  <2> QED
    BY <2>1, <2>2, UnchangedStep DEF nodeVars, Good
<1> QED
  BY <1>5, <1>6

\* The nodes there were stay as they are, and the copies have good fields.
LEMMA CloneStep == ASSUME IInv, NEW n \in Nodes, Clone(n) PROVE Good
<1> DEFINE tree == Reach(heap, {n})
           Items(copy, m) ==
               IF m \in VectorNodes
               THEN [k \in 1 .. Len(heap[m].items) |-> copy[heap[m].items[k]]]
               ELSE heap[m].items
           Fields(copy, home, p, m) ==
               IF m = n THEN CopyOf(m, Items(copy, m), p, "Created")
               ELSE CopyOf(m, Items(copy, m), copy[home[m]], "Active")
           Original(copy, c) == CHOOSE m \in tree : copy[m] = c
<1>0. PICK copy \in [tree -> Nodes \ DOMAIN heap], home \in [tree \ {n} -> tree],
           p \in Uninit :
         /\ \A m \in tree : m \in VectorNodes <=> copy[m] \in VectorNodes
         /\ \A m \in tree : Children(heap, m) \subseteq tree
         /\ held' = held \cup {copy[n]}
         /\ heap' = Cloned(tree, n, copy, home, p)
  BY DEF Clone
<1>1. heap' = [c \in DOMAIN heap \cup {copy[m] : m \in tree} |->
                  IF c \in DOMAIN heap THEN heap[c]
                  ELSE Fields(copy, home, p, Original(copy, c))]
  BY <1>0 DEF Cloned
<1>2. n \in tree /\ tree \subseteq DOMAIN heap
  BY DEF Clone, OnTree, Reach, IInv
<1> HIDE DEF tree
<1>3. ASSUME NEW m \in tree
      PROVE  Fields(copy, home, p, m) \in NodeFields(copy[m])
  <2>1. heap[m] \in NodeFields(m) /\ copy[m] \in Nodes
    BY <1>2 DEF IInv, HeapOK
  <2>2. Items(copy, m) \in Seq(IF copy[m] \in VectorNodes THEN Nodes ELSE Bytes)
    <3>1. CASE m \in VectorNodes
      <4>1. heap[m].items \in Seq(Nodes)
        BY <2>1, <3>1 DEF NodeFields
      <4>2. Len(heap[m].items) \in Nat /\ DOMAIN heap[m].items = 1 .. Len(heap[m].items)
        BY <4>1, LenProperties
      <4>3. \A k \in 1 .. Len(heap[m].items) : copy[heap[m].items[k]] \in Nodes
        BY <1>0, <3>1, <4>2 DEF Children, Elements
      <4>4. [k \in 1 .. Len(heap[m].items) |-> copy[heap[m].items[k]]] \in Seq(Nodes)
        BY <4>2, <4>3
      <4> QED
        BY <1>0, <3>1, <4>4
    <3>2. CASE m \notin VectorNodes
      BY <1>0, <2>1, <3>2 DEF NodeFields
    <3> QED
      BY <3>1, <3>2
  <2>3. p \in Nodes \cup {Null, Wild}
    BY DocumentAssumption
  <2>4. heap[m].id \in Nat
    BY <2>1 DEF NodeFields
  <2> DEFINE items == Items(copy, m)
  <2> HIDE DEF items
  <2>5. ASSUME NEW parent \in Nodes \cup {Null, Wild}, NEW state \in NodeState
        PROVE  CopyOf(m, items, parent, state) \in NodeFields(copy[m])
    BY <2>2, <2>4, <2>5 DEF CopyOf, NodeFields, items
  <2>6. m # n => copy[home[m]] \in Nodes
    OBVIOUS
  <2> QED
    BY <2>3, <2>5, <2>6 DEF NodeState, items
<1>4. /\ DOMAIN heap' = DOMAIN heap \cup {copy[m] : m \in tree}
      /\ \A m \in DOMAIN heap : heap'[m] = heap[m]
  BY <1>1
<1>5. ASSUME NEW c \in {copy[m] : m \in tree}
      PROVE  c \in Nodes /\ heap'[c] \in NodeFields(c)
  <2> DEFINE m == Original(copy, c)
  <2>1. m \in tree /\ copy[m] = c
    OBVIOUS
  <2>2. c \in Nodes \ DOMAIN heap
    BY <2>1
  <2>3. heap'[c] = Fields(copy, home, p, m)
    BY <1>1, <2>2
  <2> QED
    BY <1>3, <2>1, <2>2, <2>3
<1>6. HeapOK(heap')
  BY <1>4, <1>5 DEF HeapOK, IInv
<1>7. /\ index' = index
      /\ IndexOK(heap', index') /\ SameIds(heap')
  BY <1>4 DEF Clone, IndexOK, SameIds, IInv
<1>8. held' \subseteq DOMAIN heap'
  BY <1>0, <1>2, <1>4 DEF IInv
<1>9. StateOK'
  BY DEF Clone, IInv, StateOK, engineVars
<1> QED
  BY <1>6, <1>7, <1>8, <1>9 DEF Good, NodesGood

\* What is left belongs to the client, and nothing is found any more.
LEMMA DestroyStep == ASSUME IInv, Destroy PROVE Good
<1> DEFINE left == Reach(heap, held)
<1>1. /\ heap' = [n \in left |-> heap[n]] /\ index' = [i \in {} |-> i]
      /\ held' = held
  BY DEF Destroy
<1>2. held \subseteq left /\ left \subseteq DOMAIN heap
  BY DEF IInv, Reach
<1> HIDE DEF left
<1>3. NodesGood
  BY <1>1, <1>2 DEF NodesGood, IInv, HeapOK, IndexOK, SameIds
<1>4. <<>> \in Seq(Transaction) /\ <<>> \in Seq(Action) /\ Len(<<>>) = 0
  OBVIOUS
<1>5. fault' \in Fault
  BY DEF Destroy, AfterDeath, IInv, StateOK, Fault
<1>7. stack' = <<>> /\ min' = 0 /\ current' = 0
  BY DEF Destroy, Engine!ResetWindow
<1>8. /\ mstate' = "Destroyed" /\ root' = Null /\ txActions' = <<>>
      /\ UNCHANGED <<lockedNode, todo, maxId>>
  BY DEF Destroy
<1>6. StateOK'
  BY <1>4, <1>5, <1>7, <1>8 DEF IInv, StateOK
<1> QED
  BY <1>3, <1>6 DEF Good

\* Calls that change neither the nodes nor what is recorded.
LEMMA QuietStep ==
    ASSUME IInv, UNCHANGED <<nodeVars, root, txActions, maxId, engineVars>>,
           lockedNode' \in Nodes \cup {Null, Wild},
           todo' \in Seq(Action), fault' \in Fault,
           mstate' \in {"Idle", "Transaction", "Undo", "Redo", "Destroyed"}
    PROVE  Good
<1>1. NodesGood
  BY UnchangedStep DEF nodeVars
<1>2. StateOK'
  BY DEF IInv, StateOK, engineVars
<1> QED
  BY <1>1, <1>2 DEF Good

LEMMA ReversedType ==
    ASSUME NEW S, NEW s \in Seq(S) PROVE Reversed(s) \in Seq(S)
<1>1. Len(s) \in Nat
  BY LenProperties
<1>2. \A i \in 1 .. Len(s) : s[Len(s) + 1 - i] \in S
  BY <1>1, ElementOfSeq
<1> QED
  BY <1>1, <1>2 DEF Reversed

LEMMA SmallSteps ==
    ASSUME IInv,
           \/ BeginTransaction \/ CommitNothing \/ AbortTransaction
           \/ Undo \/ Redo \/ ExecuteOutOfRange
           \/ \E n \in Nodes : EditUnmanaged(n) \/ AskDangling(n) \/ AskDestroyed(n)
    PROVE  Good
<1> USE DEF IInv, StateOK
<1>1. CASE BeginTransaction \/ CommitNothing
  BY <1>1, QuietStep DEF BeginTransaction, CommitNothing
<1>2. CASE \/ ExecuteOutOfRange
           \/ \E n \in Nodes : EditUnmanaged(n) \/ AskDangling(n) \/ AskDestroyed(n)
  BY <1>2, QuietStep DEF ExecuteOutOfRange, EditUnmanaged, AskDangling, AskDestroyed, Fault
<1>3. CASE AbortTransaction
  <2>1. todo' \in Seq(Action)
    BY <1>3, ReversedType DEF AbortTransaction
  <2> QED
    BY <1>3, <2>1, QuietStep DEF AbortTransaction
<1>4. CASE Undo
  <2>1. stack[current] \in Seq(Action)
    BY <1>4, ElementOfSeq DEF Undo, Transaction
  <2>2. todo' \in Seq(Action)
    BY <1>4, <2>1, ReversedType DEF Undo
  <2> QED
    BY <1>4, <2>2, QuietStep DEF Undo
<1>5. CASE Redo
  <2>1. stack[current + 1] \in Seq(Action)
    BY <1>5, ElementOfSeq, LenProperties DEF Redo, Transaction
  <2> QED
    BY <1>5, <2>1, QuietStep DEF Redo
<1> QED
  BY <1>1, <1>2, <1>3, <1>4, <1>5

LEMMA SetRootStep ==
    ASSUME IInv, NEW n \in Nodes \cup {Null}, SetRoot(n) PROVE Good
<1> DEFINE h == [m \in DOMAIN heap |->
                    [heap[m] EXCEPT !.state = IF m = n THEN "Active"
                                              ELSE IF m = root THEN "Detached"
                                              ELSE @]]
<1>1. /\ Release(h, index) /\ root' = n /\ lockedNode' = Null
      /\ UNCHANGED <<held, mstate, txActions, todo, maxId, engineVars>>
  BY DEF SetRoot
<1>2. ASSUME NEW m \in DOMAIN heap
      PROVE  h[m] \in NodeFields(m) /\ h[m].id = heap[m].id
  <2>1. heap[m] \in NodeFields(m)
    BY DEF IInv, HeapOK
  <2>2. PICK st \in NodeState : h[m] = [heap[m] EXCEPT !.state = st]
    <3>1. heap[m].state \in NodeState
      BY <2>1 DEF NodeFields
    <3> QED
      BY <3>1 DEF NodeState
  <2> QED
    BY <2>1, <2>2 DEF NodeFields
<1>3. DOMAIN h = DOMAIN heap
  OBVIOUS
<1> HIDE DEF h
<1>4. /\ HeapOK(h) /\ IndexOK(h, index) /\ SameIds(h)
      /\ held' \subseteq DOMAIN h
  BY <1>1, <1>2, <1>3 DEF IInv, HeapOK, IndexOK, SameIds
<1>5. NodesGood /\ fault' \in {fault, "no engine"}
  BY <1>1, <1>4, ReleaseStep
<1>6. StateOK'
  BY <1>1, <1>5 DEF IInv, StateOK, engineVars, Fault
<1> QED
  BY <1>5, <1>6 DEF Good

LEMMA ResetStep == ASSUME IInv, Reset PROVE Good
<1> DEFINE none == [i \in {} |-> i]
<1>1. /\ Release(heap, none) /\ held' = held /\ SameIds(heap)
      /\ IndexOK(heap, none)
  BY DEF Reset, SameIds, IndexOK
<1>2. NodesGood /\ fault' \in {fault, "no engine"}
  BY <1>1, ReleaseStep DEF IInv
<1>3. <<>> \in Seq(Transaction) /\ Len(<<>>) = 0
  OBVIOUS
<1>4. stack' = <<>> /\ min' = 0 /\ current' = 0
  BY DEF Reset, Engine!ResetWindow
<1>5. fault' \in Fault
  BY <1>2 DEF IInv, StateOK, Fault
<1>6. StateOK'
  BY <1>3, <1>4, <1>5 DEF IInv, StateOK, Reset
<1> QED
  BY <1>2, <1>6 DEF Good

\* One action of an abort, an undo or a redo.
LEMMA ExecuteNextFacts ==
    ASSUME IInv, ExecuteNext, Len(todo) >= 1
    PROVE  /\ NodesGood
           /\ todo' \in Seq(Action)
           /\ lockedNode' = Null
           /\ UNCHANGED <<held, root, maxId>>
           /\ fault' \in Fault
<1> DEFINE a == Head(todo)
           undo == mstate # "Redo"
<1>1. todo \in Seq(Action) /\ todo # <<>>
  BY DEF IInv, StateOK
<1>2. a \in Action /\ Tail(todo) \in Seq(Action)
  BY <1>1, HeadTailProperties
<1>3. undo \in BOOLEAN
  OBVIOUS
<1>4. /\ Executable(heap, a, undo)
      /\ Release(Executed(heap, a, undo), index)
      /\ held' = held
  BY DEF ExecuteNext
<1> HIDE DEF a, undo
<1>5. NodesGood /\ fault' \in {fault, "no engine"}
  BY <1>2, <1>3, <1>4, ExecutedStep
<1> QED
  BY <1>2, <1>5 DEF ExecuteNext, a, IInv, StateOK, Fault

LEMMA LibrarySteps == ASSUME IInv, LibraryStep PROVE Good
<1> USE DEF IInv, StateOK
<1>1. CASE ExecuteAction
  <2>1. ExecuteNext /\ Len(todo) >= 1
        /\ UNCHANGED <<mstate, txActions, stack, min, current>>
    BY <1>1, LenProperties DEF ExecuteAction, engineVars
  <2> QED
    BY <2>1, ExecuteNextFacts DEF Good
<1>2. CASE AbortReturns
  <2>1. ExecuteNext /\ Len(todo) >= 1 /\ mstate' = "Idle"
        /\ txActions' = <<>> /\ UNCHANGED <<stack, min, current>>
    BY <1>2 DEF AbortReturns, engineVars
  <2>2. <<>> \in Seq(Action)
    OBVIOUS
  <2> QED
    BY <2>1, <2>2, ExecuteNextFacts DEF Good
<1>3. CASE UndoReturns
  <2>1. ExecuteNext /\ Len(todo) >= 1 /\ mstate' = "Idle"
        /\ current # 0 /\ current' = current - 1
        /\ UNCHANGED <<txActions, stack, min>>
    BY <1>3 DEF UndoReturns, Engine!StepBack
  <2>2. current' \in Nat /\ current' <= Len(stack)
    BY <2>1, LenProperties
  <2> QED
    BY <2>1, <2>2, ExecuteNextFacts DEF Good
<1>4. CASE RedoReturns
  <2>1. ExecuteNext /\ Len(todo) >= 1 /\ mstate' = "Idle"
        /\ current # Len(stack) /\ current' = current + 1
        /\ UNCHANGED <<txActions, stack, min>>
    BY <1>4 DEF RedoReturns, Engine!StepForward
  <2>2. current' \in Nat /\ current' <= Len(stack)
    BY <2>1, LenProperties
  <2> QED
    BY <2>1, <2>2, ExecuteNextFacts DEF Good
<1>5. CASE ExecuteOutOfRange
  BY <1>5, SmallSteps
<1> QED
  BY <1>1, <1>2, <1>3, <1>4, <1>5 DEF LibraryStep

\* The ids that commit gives out are new ones, and the others stay.
LEMMA NumberedFacts ==
    ASSUME IInv, NEW v, NEW f \in Numberings(v)
    PROVE  /\ HeapOK(Numbered(f))
           /\ DOMAIN Numbered(f) = DOMAIN heap
           /\ SameIds(Numbered(f))
           /\ \A n \in Associated :
                 f[n] \in Nat \ {0} /\ Numbered(f)[n].id = f[n] /\ n \in DOMAIN heap
<1> DEFINE h == Numbered(f)
<1>1. Associated \subseteq DOMAIN heap
  BY DEF Associated, Reach
<1>2. ASSUME NEW n \in Associated
      PROVE  f[n] \in Nat \ {0} /\ (heap[n].id # 0 => f[n] = heap[n].id)
  <2>1. f[n] \in 1 .. MaxId
    BY DEF Numberings
  <2>2. heap[n].id # 0 => f[n] = heap[n].id
    BY DEF Numberings
  <2> QED
    BY <2>1, <2>2, DocumentAssumption
<1>3. DOMAIN h = DOMAIN heap
  BY DEF Numbered
<1>4. ASSUME NEW n \in DOMAIN heap
      PROVE  /\ h[n] \in NodeFields(n)
             /\ heap[n].id # 0 => h[n].id = heap[n].id
             /\ n \in Associated => h[n].id = f[n]
  <2>1. heap[n] \in NodeFields(n)
    BY DEF IInv, HeapOK
  <2>2. CASE n \notin Associated
    BY <2>1, <2>2 DEF Numbered
  <2>3. CASE n \in Associated
    <3>1. h[n] = [heap[n] EXCEPT !.managed = TRUE, !.id = f[n]]
      BY <2>3 DEF Numbered
    <3>2. f[n] \in Nat /\ (heap[n].id # 0 => f[n] = heap[n].id)
      BY <1>2, <2>3
    <3> QED
      BY <2>1, <3>1, <3>2 DEF NodeFields
  <2> QED
    BY <2>2, <2>3
<1> HIDE DEF h
<1>5. HeapOK(h) /\ SameIds(h)
  BY <1>3, <1>4 DEF IInv, HeapOK, SameIds
<1> QED
  BY <1>1, <1>2, <1>3, <1>4, <1>5 DEF h

\* The new entries of the index lead to a node that has their id.
LEMMA IndexedFacts ==
    ASSUME IInv, NEW v, NEW f \in Numberings(v), NEW ix \in Indexings(v, f)
    PROVE  IndexOK(Numbered(f), ix)
<1> DEFINE h == Numbered(f)
           new == {f[n] : n \in Associated} \ DOMAIN index
           First(i) == {n \in Associated :
                           f[n] = i /\ \A m \in Associated : f[m] = i => v[n] <= v[m]}
<1>1. /\ DOMAIN h = DOMAIN heap /\ SameIds(h)
      /\ \A n \in Associated :
            f[n] \in Nat \ {0} /\ h[n].id = f[n] /\ n \in DOMAIN h
  BY NumberedFacts
<1>2. PICK entry \in {e \in [new -> Associated] : \A i \in new : e[i] \in First(i)} :
         ix = [i \in DOMAIN index \cup new |-> IF i \in new THEN entry[i] ELSE index[i]]
  BY DEF Indexings
<1> HIDE DEF h
<1>3. DOMAIN ix \subseteq Nat \ {0}
  BY <1>1, <1>2 DEF IInv, IndexOK
<1>4. ASSUME NEW i \in DOMAIN ix
      PROVE  ix[i] \in DOMAIN h /\ h[ix[i]].id = i
  <2>1. CASE i \notin new
    <3>1. index[i] \in DOMAIN heap /\ heap[index[i]].id = i /\ i # 0
      BY <1>2, <2>1 DEF IInv, IndexOK
    <3>2. ix[i] = index[i]
      BY <1>2, <2>1
    <3> QED
      BY <1>1, <3>1, <3>2 DEF SameIds
  <2>2. CASE i \in new
    <3>1. ix[i] = entry[i] /\ entry[i] \in First(i)
      BY <1>2, <2>2
    <3> QED
      BY <1>1, <3>1
  <2> QED
    BY <2>1, <2>2
<1> QED
  BY <1>3, <1>4 DEF IndexOK, h

\* What commit leaves in the engine.
LEMMA EngineCommitFacts ==
    ASSUME IInv, Engine!CommitWindow(txActions)
    PROVE  /\ stack' \in Seq(Transaction)
           /\ min' \in Nat /\ current' \in Nat
           /\ current' <= Len(stack')
<1> DEFINE kept == SubSeq(stack, 1, current)
           pushed == Append(kept, txActions)
<1>1. /\ stack \in Seq(Transaction) /\ current \in Nat /\ min \in Nat
      /\ current <= Len(stack) /\ txActions \in Transaction
      /\ MaxSteps \in Nat
  BY DocumentAssumption DEF IInv, StateOK, Transaction
<1>2. kept \in Seq(Transaction) /\ Len(kept) = current
  BY <1>1, SubSeqProperties
<1>3. pushed \in Seq(Transaction) /\ Len(pushed) = current + 1
  BY <1>1, <1>2, AppendProperties
<1>4. pushed = Engine!Pushed(txActions)
  BY DEF Engine!Pushed, Engine!Truncated
<1> HIDE DEF kept, pushed
<1>5. CASE current + 1 > 2 * MaxSteps
  <2>1. /\ stack' = SubSeq(pushed, MaxSteps + 1, current + 1)
        /\ min' = min + MaxSteps /\ current' = current + 1 - MaxSteps
    BY <1>4, <1>5 DEF Engine!CommitWindow
  <2>2. stack' \in Seq(Transaction) /\ Len(stack') = current + 1 - MaxSteps
    BY <1>1, <1>3, <1>5, <2>1, SubSeqProperties
  <2> QED
    BY <1>1, <1>5, <2>1, <2>2
<1>6. CASE ~(current + 1 > 2 * MaxSteps)
  <2>1. stack' = pushed /\ min' = min /\ current' = current + 1
    BY <1>4, <1>6 DEF Engine!CommitWindow
  <2> QED
    BY <1>1, <1>3, <2>1
<1> QED
  BY <1>5, <1>6

\* What commit chooses, and the counter of the ids afterwards.
LEMMA CommitChoice ==
    ASSUME IInv, Commit
    PROVE  \E v \in Visits : \E f \in Numberings(v) : \E ix \in Indexings(v, f) :
              /\ maxId' \in Nat
              /\ maxId <= maxId'
              /\ \A n \in Associated : f[n] <= maxId'
              /\ Release(Numbered(f), ix)
<1>1. PICK v, f :
         /\ v \in Visits /\ f \in Numberings(v)
         /\ maxId' \in Greatest({maxId} \cup {f[n] : n \in Associated})
         /\ \E ix \in Indexings(v, f) : Release(Numbered(f), ix)
  BY DEF Commit
<1>2. \A n \in Associated : f[n] \in Nat
  BY <1>1, NumberedFacts
<1>3. /\ maxId' \in Nat /\ maxId <= maxId'
      /\ \A n \in Associated : f[n] <= maxId'
  BY <1>1, <1>2 DEF Greatest, IInv, StateOK
<1> QED
  BY <1>1, <1>3

LEMMA CommitStep == ASSUME IInv, Commit PROVE Good
<1>1. PICK v, f, ix :
         /\ f \in Numberings(v) /\ ix \in Indexings(v, f)
         /\ maxId' \in Nat /\ Release(Numbered(f), ix)
  BY CommitChoice
<1>2. /\ HeapOK(Numbered(f)) /\ SameIds(Numbered(f))
      /\ IndexOK(Numbered(f), ix)
      /\ DOMAIN Numbered(f) = DOMAIN heap
  BY <1>1, NumberedFacts, IndexedFacts
<1>3. held' \subseteq DOMAIN Numbered(f)
  BY <1>2 DEF Commit, IInv
<1>4. NodesGood /\ fault' \in {fault, "no engine"}
  BY <1>1, <1>2, <1>3, ReleaseStep
<1>5. /\ stack' \in Seq(Transaction) /\ min' \in Nat /\ current' \in Nat
      /\ current' <= Len(stack')
  BY EngineCommitFacts DEF Commit
<1>6. <<>> \in Seq(Action) /\ maxId' \in Nat
  BY <1>1
<1>7. StateOK'
  BY <1>4, <1>5, <1>6 DEF IInv, StateOK, Commit, Fault
<1> QED
  BY <1>4, <1>7 DEF Good

----------------------------------------------------------------------------
\* The invariant is inductive, and no step takes an id from a live node.
LEMMA InvStep ==
    ASSUME IInv, Next PROVE IInv' /\ SameIds(heap')
<1>1. Good => IInv' /\ SameIds(heap')
  BY DEF Good, NodesGood, IInv
<1>2. CASE NewDocument
  BY <1>1, <1>2, LoadRootStep, ResetStep, DestroyStep DEF NewDocument
<1>3. CASE Commit
  BY <1>1, <1>3, CommitStep
<1>4. CASE ClientStep
  BY <1>1, <1>4, CreateStep, DropStep, VectorInsertStep, VectorRemoveStep,
     VectorMoveStep, BytesInsertStep, BytesRemoveStep, BytesReplaceStep,
     BytesReplaceBeyondStep, CloneStep, SetRootStep, SmallSteps DEF ClientStep
<1>5. CASE LibraryStep
  BY <1>1, <1>5, LibrarySteps
<1> QED
  BY <1>2, <1>3, <1>4, <1>5 DEF Next

LEMMA InvStutter == IInv /\ UNCHANGED vars => IInv'
BY DEF IInv, StateOK, HeapOK, IndexOK, vars, engineVars

LEMMA InvAlways == Spec => []IInv
<1>1. IInv /\ [Next]_vars => IInv'
  BY InvStep, InvStutter
<1> QED
  BY InvInit, <1>1, PTL DEF Spec

\* Whatever the client calls, and whatever the uninitialized pointers of the
\* model and of its nodes hold, the state of Model, Node and the engine
\* keeps its types; the cursor of the engine counts neither below zero nor
\* beyond the stack.
THEOREM DocumentTypeCorrect == Spec => []TypeOK
BY InvAlways, InvTypes, PTL

\* The raw pointers in _idMap never dangle, and never lead to a node with
\* another id, through any interleaving of edits, aborts, undos, redos,
\* commits that drop transactions, resets and released references.
THEOREM IndexAlwaysSound == Spec => []IndexSound
<1>1. IInv => IndexSound
  BY DEF IInv, IndexOK, IndexSound
<1> QED
  BY InvAlways, <1>1, PTL

\* No step of the model changes an id that was given out while its node
\* lives: commit numbers what has no id, execute and reset number nothing.
THEOREM IdsAreForLife == Spec => NeverRenumbered
<1> DEFINE Kept == \A n \in DOMAIN heap \cap DOMAIN heap' :
                      heap[n].id # 0 => heap'[n].id = heap[n].id
<1>1. IInv /\ [Next]_vars => [Kept]_vars
  BY InvStep DEF SameIds
<1>2. Spec => [][Next]_vars
  BY DEF Spec
<1> QED
  BY InvAlways, <1>1, <1>2, PTL DEF NeverRenumbered

----------------------------------------------------------------------------
(***************************************************************************)
(* The death of a node: the engine that gave it the id forgets it, through *)
(* the model that the node got in the same commit.                         *)
(***************************************************************************)

\* Whoever has an id has a model.  (A copy has an id and none: Clone.)
Named(h) == \A n \in DOMAIN h : h[n].id # 0 => h[n].managed

NamedInv == IInv /\ Named(heap) /\ DeathHasModel

\* What a step has to leave for that.
NamedStep == Named(heap') /\ DeathHasModel'

LEMMA ExecutedNamed ==
    ASSUME NEW h, HeapOK(h), NEW a, NEW undo, Named(h)
    PROVE  Named(Executed(h, a, undo))
<1> DEFINE e == Executed(h, a, undo)
<1>1. ASSUME NEW n \in DOMAIN h
      PROVE  e[n].id = h[n].id /\ e[n].managed = h[n].managed
  <2>1. h[n] \in NodeFields(n)
    BY DEF HeapOK
  <2>2. \/ e[n] = Removed(h[n], h[a.parent].managed)
        \/ e[n] = Added(h[n], a.parent)
        \/ e[n] = [h[n] EXCEPT !.items = NewItems(h[a.parent].items, a, undo)]
        \/ e[n] = h[n]
    BY DEF Executed
  <2> QED
    BY <2>1, <2>2 DEF Removed, Added, NodeFields
<1>2. DOMAIN e = DOMAIN h
  BY DEF Executed
<1> QED
  BY <1>1, <1>2 DEF Named

LEMMA ReleaseNamed ==
    ASSUME NEW h, NEW ix, Release(h, ix), Named(h), fault # "no engine",
           mstate # "Destroyed" \/ mstate' = mstate
    PROVE  NamedStep
<1> DEFINE alive == Reach(h, Owners')
<1>1. alive \subseteq DOMAIN h
  BY ReachFacts
<1>2. /\ heap' = [n \in alive |-> h[n]]
      /\ fault' = AfterDeath(h, DOMAIN h \ alive, mstate # "Destroyed")
  BY DEF Release
<1> HIDE DEF alive
<1>3. Named(heap')
  BY <1>1, <1>2 DEF Named
<1>4. fault' = "no engine" => mstate = "Destroyed"
  BY <1>2 DEF AfterDeath, Named
<1> QED
  BY <1>3, <1>4 DEF NamedStep, DeathHasModel

LEMMA EditNamed ==
    ASSUME NamedInv, fault # "no engine", NEW a, Edit(a) PROVE NamedStep
<1>1. CASE Executable(heap, a, FALSE)
  <2>1. Release(Executed(heap, a, FALSE), index) /\ mstate' = mstate
    BY <1>1 DEF Edit
  <2>2. Named(Executed(heap, a, FALSE))
    BY ExecutedNamed DEF NamedInv, IInv
  <2> QED
    BY ONLY <2>1, <2>2, fault # "no engine", ReleaseNamed
<1>2. CASE ~Executable(heap, a, FALSE)
  BY <1>2 DEF Edit, nodeVars, NamedInv, NamedStep, DeathHasModel
<1> QED
  BY <1>1, <1>2

LEMMA EditsNamed ==
    ASSUME NamedInv, fault # "no engine", NEW p \in Nodes,
           \/ VectorInsert(p) \/ VectorRemove(p) \/ VectorMove(p)
           \/ BytesInsert(p) \/ BytesRemove(p) \/ BytesReplace(p)
    PROVE  NamedStep
<1>1. \E a : Edit(a)
  BY DEF VectorInsert, VectorRemove, VectorMove, BytesInsert, BytesRemove,
         BytesReplace
<1> QED
  BY <1>1, EditNamed

LEMMA ReplaceBeyondNamed ==
    ASSUME NamedInv, fault # "no engine", NEW p \in Nodes, BytesReplaceBeyond(p)
    PROVE  NamedStep
<1>1. \/ heap' = heap /\ fault' = "out of range"
      \/ \E replace : \E zeros \in BytesAction :
            /\ Executable(heap, zeros, FALSE)
            /\ Release(Executed(Executed(heap, zeros, FALSE), replace, FALSE), index)
  <2> DEFINE Zeros(i, bytes) ==
                 [type |-> "BytesInsert", parent |-> p, index |-> Len(bytes),
                  items |-> [k \in 1 .. i + Len(bytes) - Len(heap[p].items) |-> Zero]]
  <2>1. PICK i \in 0 .. MaxItems, bytes \in Runs(Bytes) :
           /\ i + Len(bytes) - Len(heap[p].items) > 0
           /\ IF Executable(heap, Zeros(i, bytes), FALSE)
              THEN \E replace :
                      Release(Executed(Executed(heap, Zeros(i, bytes), FALSE),
                                       replace, FALSE), index)
              ELSE heap' = heap /\ fault' = "out of range"
    BY DEF BytesReplaceBeyond, nodeVars
  <2> DEFINE s == heap[p].items
             off == i + Len(bytes) - Len(s)
             items == [k \in 1 .. off |-> Zero]
  <2>2. IInv /\ p \in BytesNodes /\ p \in Editable
    BY DEF BytesReplaceBeyond, NamedInv
  <2>3. Len(s) \in Nat
    BY <2>2, EditableFacts
  <2>7. bytes \in Seq(Bytes) /\ Len(bytes) \in Nat /\ i \in Nat
    <3>1. i \in 0 .. MaxItems /\ bytes \in Runs(Bytes) /\ MaxItems \in Nat
      BY DocumentAssumption
    <3> QED
      BY ONLY <3>1, RunsType, LenProperties
  <2>4. off \in Nat /\ Zero \in Bytes
    <3>1. off > 0
      BY <2>1
    <3>2. \A j, k, l \in Nat : j + k - l > 0 => j + k - l \in Nat
      BY ONLY TRUE
    <3>3. Zero \in Bytes
      BY <2>2, NodeTreeAssumption
    <3> QED
      BY <2>3, <2>7, <3>1, <3>2, <3>3
  <2>5. items \in Seq(Bytes)
    <3> HIDE DEF off
    <3> QED
      BY ONLY <2>4
  <2>6. Zeros(i, bytes) \in BytesAction
    BY <2>2, <2>5, <2>7 DEF BytesAction
  <2> HIDE DEF Zeros
  <2> QED
    BY <2>1, <2>6
<1>2. CASE heap' = heap /\ fault' = "out of range"
  BY <1>2 DEF NamedInv, NamedStep, DeathHasModel
<1>3. ASSUME NEW zeros \in BytesAction, NEW replace,
             Executable(heap, zeros, FALSE),
             Release(Executed(Executed(heap, zeros, FALSE), replace, FALSE), index)
      PROVE  NamedStep
  <2> DEFINE grown == Executed(heap, zeros, FALSE)
  <2>1. HeapOK(heap) /\ Named(heap) /\ zeros \in Action
    BY DEF NamedInv, IInv, Action
  <2>5. mstate' = mstate
    BY DEF BytesReplaceBeyond
  <2>2. HeapOK(grown)
    BY ONLY <1>3, <2>1, ExecutedFacts
  <2>3. Named(grown)
    BY ONLY <2>1, ExecutedNamed
  <2> HIDE DEF grown
  <2>4. Named(Executed(grown, replace, FALSE))
    BY ONLY <2>2, <2>3, ExecutedNamed
  <2> QED
    BY ONLY <1>3, <2>4, <2>5, fault # "no engine", ReleaseNamed DEF grown
<1> QED
  BY <1>1, <1>2, <1>3

LEMMA ExecuteNextNamed ==
    ASSUME NamedInv, fault # "no engine", ExecuteNext,
           mstate # "Destroyed" \/ mstate' = mstate
    PROVE  NamedStep
<1>1. PICK a, undo : Release(Executed(heap, a, undo), index)
  BY DEF ExecuteNext
<1>2. Named(Executed(heap, a, undo))
  BY ExecutedNamed DEF NamedInv, IInv
<1> QED
  BY ONLY <1>1, <1>2, fault # "no engine",
          mstate # "Destroyed" \/ mstate' = mstate, ReleaseNamed

\* commit gives the id and the model together.
LEMMA CommitNamed ==
    ASSUME NamedInv, fault # "no engine", Commit PROVE NamedStep
<1>2. PICK f, ix : Release(Numbered(f), ix)
  BY CommitChoice DEF NamedInv
<1>3. ASSUME NEW n \in DOMAIN heap, Numbered(f)[n].id # 0
      PROVE  Numbered(f)[n].managed
  <2>1. heap[n] \in NodeFields(n)
    BY DEF NamedInv, IInv, HeapOK
  <2>2. CASE n \notin Associated
    BY <1>3, <2>2 DEF Numbered, NamedInv, Named
  <2>3. CASE n \in Associated
    <3>1. \E i : Numbered(f)[n] = [heap[n] EXCEPT !.managed = TRUE, !.id = i]
      BY <2>3 DEF Numbered
    <3> QED
      BY <2>1, <3>1 DEF NodeFields
  <2> QED
    BY <2>2, <2>3
<1>4. Named(Numbered(f))
  <2>1. DOMAIN Numbered(f) = DOMAIN heap
    BY DEF Numbered
  <2> QED
    BY <1>3, <2>1 DEF Named
<1>5. mstate # "Destroyed"
  BY DEF Commit
<1> QED
  BY ONLY <1>2, <1>4, <1>5, fault # "no engine", ReleaseNamed

LEMMA OthersNamed ==
    ASSUME NamedInv, fault # "no engine", NEW n \in Nodes \cup {Null},
           Create(n) \/ Drop(n) \/ LoadRoot(n) \/ SetRoot(n)
    PROVE  NamedStep
<1>1. Named(heap) /\ HeapOK(heap)
  BY DEF NamedInv, IInv
<1>2. CASE Create(n)
  <2>1. \E p : heap' = [m \in DOMAIN heap \cup {n} |->
                     IF m \in DOMAIN heap THEN heap[m]
                     ELSE [items |-> <<>>, parent |-> p, state |-> "Created",
                           managed |-> FALSE, id |-> 0]]
    BY <1>2 DEF Create
  <2>2. Named(heap')
    <3>1. PICK p : heap' = [m \in DOMAIN heap \cup {n} |->
                     IF m \in DOMAIN heap THEN heap[m]
                     ELSE [items |-> <<>>, parent |-> p, state |-> "Created",
                           managed |-> FALSE, id |-> 0]]
      BY <2>1
    <3>2. /\ DOMAIN heap' = DOMAIN heap \cup {n}
          /\ \A m \in DOMAIN heap : heap'[m] = heap[m]
          /\ n \notin DOMAIN heap => heap'[n].id = 0
      BY <3>1
    <3> QED
      BY ONLY <1>1, <3>2 DEF Named
  <2>3. fault' = fault
    BY <1>2 DEF Create
  <2> QED
    BY <2>2, <2>3 DEF NamedStep, DeathHasModel
<1>3. CASE Drop(n)
  BY <1>1, <1>3, ReleaseNamed DEF Drop
<1>4. CASE LoadRoot(n)
  <2>1. ASSUME NEW m \in DOMAIN heap, heap'[m].id # 0 PROVE heap'[m].managed
    <3>1. heap[m] \in NodeFields(m)
      BY <1>1 DEF HeapOK
    <3>2. heap'[m] = heap[m]
          \/ \E st : heap'[m] = [heap[m] EXCEPT !.managed = TRUE, !.state = st]
      BY <1>4 DEF LoadRoot
    <3> QED
      BY <1>1, <2>1, <3>1, <3>2 DEF Named, NodeFields
  <2>2. DOMAIN heap' = DOMAIN heap /\ fault' = fault
    BY <1>4 DEF LoadRoot
  <2> QED
    BY <2>1, <2>2 DEF Named, NamedStep, DeathHasModel
<1>5. CASE SetRoot(n)
  <2> DEFINE State(m) == IF m = n THEN "Active"
                         ELSE IF m = root THEN "Detached" ELSE heap[m].state
             h == [m \in DOMAIN heap |-> [heap[m] EXCEPT !.state = State(m)]]
  <2>1. Release(h, index) /\ mstate' = mstate
    BY <1>5 DEF SetRoot
  <2>2. ASSUME NEW m \in DOMAIN heap
        PROVE  h[m].id = heap[m].id /\ h[m].managed = heap[m].managed
    BY <1>1 DEF HeapOK, NodeFields
  <2>3. DOMAIN h = DOMAIN heap
    OBVIOUS
  <2> HIDE DEF h
  <2>4. Named(h)
    BY <1>1, <2>2, <2>3 DEF Named
  <2> QED
    BY ONLY <2>1, <2>4, fault # "no engine", ReleaseNamed
<1> QED
  BY <1>2, <1>3, <1>4, <1>5

\* Nothing happens after a fault.
LEMMA StepsAreFaultless == Next => fault = "none"
BY DEF Next, NewDocument, Commit, ClientStep, LibraryStep, Ready, LoadRoot,
       Reset, Destroy, Create, Drop, VectorInsert, VectorRemove, VectorMove,
       BytesInsert, BytesRemove, BytesReplace, BytesReplaceBeyond, Clone,
       EditUnmanaged, AskDangling, AskDestroyed, SetRoot, BeginTransaction, CommitNothing,
       AbortTransaction, Undo, Redo, ExecuteAction, AbortReturns,
       UndoReturns, RedoReturns, ExecuteOutOfRange

LEMMA NamedNext ==
    ASSUME "clone" \notin Calls, NamedInv, Next PROVE NamedInv'
<1>1. IInv'
  BY InvStep DEF NamedInv
<1> SUFFICES NamedStep
  BY <1>1 DEF NamedInv, NamedStep
<1>2. fault # "no engine" /\ Named(heap)
  BY StepsAreFaultless DEF NamedInv
<1>3. CASE Reset
  <2>1. Release(heap, [i \in {} |-> i]) /\ mstate # "Destroyed"
    BY <1>3 DEF Reset
  <2> QED
    BY ONLY <1>2, <2>1, ReleaseNamed
<1>4. CASE Destroy
  <2> DEFINE left == Reach(heap, held)
  <2>1. heap' = [n \in left |-> heap[n]]
    BY <1>4 DEF Destroy
  <2>3. mstate' = "Destroyed"
    BY <1>4 DEF Destroy
  <2>2. left \subseteq DOMAIN heap
    BY ReachFacts
  <2> HIDE DEF left
  <2>4. Named(heap')
    BY <1>2, <2>1, <2>2 DEF Named
  <2> QED
    BY <2>3, <2>4 DEF NamedStep, DeathHasModel
<1>5. CASE LibraryStep
  <2>1. \/ ExecuteNext /\ (mstate # "Destroyed" \/ mstate' = mstate)
        \/ heap' = heap /\ fault' = "out of range"
    BY <1>5 DEF LibraryStep, ExecuteAction, AbortReturns, UndoReturns,
                RedoReturns, ExecuteOutOfRange, nodeVars
  <2>2. heap' = heap /\ fault' = "out of range" => NamedStep
    BY <1>2 DEF NamedStep, DeathHasModel
  <2> QED
    BY ONLY NamedInv, <1>2, <2>1, <2>2, ExecuteNextNamed
<1>6. CASE \/ BeginTransaction \/ CommitNothing \/ AbortTransaction
           \/ Undo \/ Redo
           \/ \E n \in Nodes : EditUnmanaged(n) \/ AskDangling(n) \/ AskDestroyed(n)
  <2>1. heap' = heap /\ fault' \in {fault, "null model", "dangling parent", "freed model"}
    BY <1>6 DEF BeginTransaction, CommitNothing, AbortTransaction, Undo, Redo,
                EditUnmanaged, AskDangling, AskDestroyed, nodeVars
  <2>2. Named(heap')
    BY <1>2, <2>1
  <2>3. fault' # "no engine"
    BY <1>2, <2>1
  <2> QED
    BY <2>2, <2>3 DEF NamedStep, DeathHasModel
<1>7. CASE \E n \in Nodes : Clone(n)
  BY <1>7 DEF Clone
<1>8. CASE Commit
  BY <1>2, <1>8, CommitNamed
<1>9. CASE \E n \in Nodes \cup {Null} :
              Create(n) \/ Drop(n) \/ LoadRoot(n) \/ SetRoot(n)
  BY <1>2, <1>9, OthersNamed
<1>10. CASE \E n \in Nodes :
              \/ VectorInsert(n) \/ VectorRemove(n) \/ VectorMove(n)
              \/ BytesInsert(n) \/ BytesRemove(n) \/ BytesReplace(n)
  BY <1>2, <1>10, EditsNamed
<1>11. CASE \E n \in Nodes : BytesReplaceBeyond(n)
  BY <1>2, <1>11, ReplaceBeyondNamed
<1> QED
  BY <1>3, <1>4, <1>5, <1>6, <1>7, <1>8, <1>9, <1>10, <1>11
     DEF Next, NewDocument, ClientStep

LEMMA NamedAlways ==
    "clone" \notin Calls => (Spec => []NamedInv)
<1> SUFFICES ASSUME "clone" \notin Calls PROVE Spec => []NamedInv
  OBVIOUS
<1>1. Init => NamedInv
  BY InvInit DEF Init, NamedInv, Named, DeathHasModel
<1>2. NamedInv /\ [Next]_vars => NamedInv'
  <2>1. NamedInv /\ UNCHANGED vars => NamedInv'
    BY InvStutter DEF NamedInv, Named, DeathHasModel, vars
  <2> QED
    BY NamedNext, <2>1
<1> QED
  BY <1>1, <1>2, PTL DEF Spec

\* The assertion of ~Node holds as long as there is a model, for a client that
\* does not clone: a node with an id dies with the engine to forget it, whatever
\* dropped the last reference, an action that was trimmed, truncated or aborted,
\* a reset or the client, and whoever else the client has moved or made the root.
THEOREM DeathAlwaysHasModel ==
    "clone" \notin Calls => (Spec => []DeathHasModel)
<1> SUFFICES ASSUME "clone" \notin Calls PROVE Spec => []DeathHasModel
  OBVIOUS
<1>1. NamedInv => DeathHasModel
  BY DEF NamedInv
<1> QED
  BY NamedAlways, <1>1, PTL

----------------------------------------------------------------------------
(***************************************************************************)
(* The engine inside the model.  Whatever the model does to it is what     *)
(* UndoStack allows, so that its invariant and its refinement hold here.   *)
(***************************************************************************)
Stack == INSTANCE UndoStackProofs WITH
    Payload <- Transaction, Requests <- {},
    maxSteps <- MaxSteps, attached <- TRUE

\* A step of the model is a call of the engine, or none.
LEMMA EngineStep ==
    ASSUME IInv, [Next]_vars PROVE [Stack!Next]_(Stack!vars)
<1>1. ASSUME UNCHANGED engineVars PROVE UNCHANGED Stack!vars
  BY <1>1 DEF engineVars, Stack!vars
<1>2. CASE UNCHANGED vars
  BY <1>1, <1>2 DEF vars, engineVars
<1>3. CASE Commit
  <2>1. txActions \in Transaction
    BY DEF IInv, StateOK, Transaction
  <2>2. Stack!CommitWindow(txActions) /\ Stack!currentStep < MaxStep
    BY <1>3 DEF Commit, Engine!CommitWindow, Stack!CommitWindow, Engine!Pushed,
                Stack!Pushed, Engine!Truncated, Stack!Truncated,
                Engine!currentStep, Stack!currentStep
  <2>3. Stack!Commit(txActions)
    BY <2>2 DEF Stack!Commit
  <2> QED
    BY <2>1, <2>3 DEF Stack!Next
<1>4. CASE UndoReturns
  BY <1>4 DEF UndoReturns, Engine!StepBack, Stack!StepBack, Stack!Undo, Stack!Next
<1>5. CASE RedoReturns
  BY <1>5 DEF RedoReturns, Engine!StepForward, Stack!StepForward, Stack!Redo,
              Stack!Next
<1>6. CASE Reset \/ Destroy
  <2>1. Stack!ResetWindow
    BY <1>6 DEF Reset, Destroy, Engine!ResetWindow, Stack!ResetWindow
  <2> QED
    BY <2>1 DEF Stack!Reset, Stack!Next
<1>7. CASE ExecuteAction \/ AbortReturns \/ ExecuteOutOfRange
  BY <1>1, <1>7 DEF ExecuteAction, AbortReturns, ExecuteOutOfRange
<1>8. ASSUME NEW a, Edit(a) PROVE UNCHANGED engineVars
  BY <1>8 DEF Edit
<1>9. ASSUME NEW n \in Nodes, BytesReplaceBeyond(n) PROVE UNCHANGED engineVars
  BY <1>9 DEF BytesReplaceBeyond
<1>10. ASSUME NEW n \in Nodes,
              \/ VectorInsert(n) \/ VectorRemove(n) \/ VectorMove(n)
              \/ BytesInsert(n) \/ BytesRemove(n) \/ BytesReplace(n)
       PROVE  UNCHANGED engineVars
  BY <1>8, <1>10 DEF VectorInsert, VectorRemove, VectorMove, BytesInsert,
                     BytesRemove, BytesReplace
<1>11. ASSUME NEW n \in Nodes \cup {Null},
              \/ Create(n) \/ Drop(n) \/ Clone(n) \/ EditUnmanaged(n)
              \/ AskDangling(n) \/ AskDestroyed(n) \/ SetRoot(n) \/ LoadRoot(n)
       PROVE  UNCHANGED engineVars
  BY <1>11 DEF Create, Drop, Clone, EditUnmanaged, AskDangling, AskDestroyed, SetRoot, LoadRoot
<1>12. CASE \/ BeginTransaction \/ CommitNothing \/ AbortTransaction
            \/ Undo \/ Redo
  BY <1>1, <1>12 DEF BeginTransaction, CommitNothing, AbortTransaction, Undo, Redo
<1> QED
  BY <1>1, <1>2, <1>3, <1>4, <1>5, <1>6, <1>7, <1>9, <1>10, <1>11, <1>12
     DEF Next, NewDocument, ClientStep, LibraryStep

LEMMA StackAssumption == Stack!UndoStackAssumption
BY DocumentAssumption DEF Stack!UndoStackAssumption

LEMMA StackInit == Init => Stack!IInv
<1> SUFFICES ASSUME Init PROVE Stack!IInv
  OBVIOUS
<1>1. stack = <<>> /\ min = 0 /\ current = 0 /\ MaxSteps \in Nat /\ MaxSteps >= 4
  BY DocumentAssumption DEF Init
<1>2. <<>> \in Seq(Transaction) /\ Len(<<>>) = 0
  OBVIOUS
<1> QED
  BY <1>1, <1>2 DEF Stack!IInv, Stack!TypeOK, Stack!WindowInv, Stack!canUndo,
     Stack!canRedo, Stack!minimumStep, Stack!maximumStep, Stack!currentStep

LEMMA StackStep == IInv /\ Stack!IInv /\ [Next]_vars => Stack!IInv'
BY ONLY EngineStep, StackAssumption, Stack!InvStep

LEMMA StackAlways == Spec => []Stack!IInv
BY StackInit, StackStep, InvAlways, PTL DEF Spec

\* Engine and Stack are the same engine.
LEMMA StepLogged ==
    IInv /\ Stack!IInv /\ Stack!IInv' /\ [Next]_vars
        => [Engine!Log!Next]_(Engine!Log!logVars)
<1> SUFFICES ASSUME IInv, Stack!IInv, Stack!IInv', [Next]_vars
             PROVE  [Engine!Log!Next]_(Engine!Log!logVars)
  OBVIOUS
<1>1. [Stack!Log!Next]_(Stack!Log!logVars)
  BY ONLY IInv, Stack!IInv, Stack!IInv', [Next]_vars, EngineStep,
          StackAssumption, Stack!StepImplements
<1> QED
  BY ONLY <1>1
     DEF Stack!Log!Next, Stack!Log!logVars, Stack!Log!Configure,
         Stack!Log!Commit, Stack!Log!Back, Stack!Log!Forward, Stack!Log!Clear,
         Stack!StepMessage, Stack!NoMessage, Stack!maximumStep,
         Stack!currentStep,
         Engine!Log!Next, Engine!Log!logVars, Engine!Log!Configure,
         Engine!Log!Commit, Engine!Log!Back, Engine!Log!Forward,
         Engine!Log!Clear, Engine!StepMessage, Engine!NoMessage,
         Engine!maximumStep, Engine!currentStep

LEMMA StartLogged == Init => Engine!Log!Init
<1> SUFFICES ASSUME Init PROVE Engine!Log!Init
  OBVIOUS
<1>1. stack = <<>> /\ min = 0 /\ current = 0 /\ MaxSteps \in Nat
  BY DocumentAssumption DEF Init
<1>2. min + Len(stack) = 0 /\ min + current = 0 /\ min + 1 .. min + Len(stack) = {}
  BY <1>1
<1> QED
  BY <1>1, <1>2 DEF Engine!Log!Init, Engine!maximumStep, Engine!currentStep

\* The steps that a client of Model sees, minimumStep(), currentStep(),
\* maximumStep() and the messages between them, are a log of numbered steps,
\* whatever the client calls: the model commits, undoes, redoes and resets the
\* engine only where the engine can do it, an undo moves the cursor once however
\* many actions it executes, and an abort moves it not at all.
THEOREM DocumentNumbersSteps == Spec => Engine!ImplementsStepLog
<1>1. IInv /\ Stack!IInv /\ Stack!IInv' /\ [Next]_vars
         => [Engine!Log!Next]_(Engine!Log!logVars)
  BY StepLogged
<1> QED
  BY StartLogged, StackAlways, InvAlways, <1>1, PTL
     DEF Spec, Engine!ImplementsStepLog, Engine!Log!Spec

\* Of the engine itself: however a client of Model comes to a step, the cursor
\* and the window it shows stay the ones of UndoStack.
THEOREM EngineStaysInWindow == Spec => []Engine!WindowInv
<1>1. Stack!IInv => Engine!WindowInv
  BY DEF Stack!IInv, Stack!WindowInv, Stack!minimumStep, Stack!currentStep,
         Stack!maximumStep, Stack!canUndo, Stack!canRedo,
         Engine!WindowInv, Engine!minimumStep, Engine!currentStep,
         Engine!maximumStep, Engine!canUndo, Engine!canRedo
<1> QED
  BY <1>1, StackAlways, PTL
=============================================================================
