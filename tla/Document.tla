------------------------------ MODULE Document ------------------------------
(***************************************************************************)
(* A Model with its tree of nodes on top of the StandardStorageEngine.     *)
(*                                                                         *)
(* A client edits the nodes of the tree inside a transaction.  Every edit  *)
(* executes an action and records it; abort executes the recorded actions  *)
(* backwards; commit gives the inserted nodes their ids and hands the      *)
(* actions to the engine (UndoStack), whose undo and redo execute them     *)
(* again.  One action executes per step here: a subclass of Model sees the *)
(* document between any two of them, in notify.                            *)
(*                                                                         *)
(* Nodes are shared: by the client, the tree, the recorded actions.  What  *)
(* nobody owns any more dies in the step that drops the last reference,    *)
(* and takes the entry of its id out of the index.                         *)
(***************************************************************************)
EXTENDS NodeTree

CONSTANTS
    MaxSteps,           \* _maxSteps of the engine
    Uninit,             \* what a pointer no constructor sets may hold
    Calls,              \* the risky things the client does, see below
    MaxStep,            \* bound of the model: the largest step number
    MaxId,              \* bound of the model: the largest id given out
    MaxTx,              \* bound of the model: actions in one transaction
    MaxItems            \* bound of the model: elements of one node

\* Calls names what a client may do besides the plain operations:
\*   "move"       VectorNode::move
\*   "setRoot"    Model::setRoot
\*   "keep"       holding nodes while the model is reset
\*   "unmanaged"  editing a node before the commit that gives it a model
\*   "dangling"   asking a node whose parent is gone where it stands
\*   "grow"       replacing bytes beyond the end of a byte node
\*   "clone"      Node::clone
\*   "destroy"    destroying the model
\* A client that keeps nodes over a reset does not clone: the id of a clone would
\* be above the ids that the engine gives out next.
ClientCalls ==
    {"move", "setRoot", "keep", "unmanaged", "dangling", "grow", "clone",
     "destroy"}

ASSUME DocumentAssumption ==
    /\ MaxSteps \in Nat /\ MaxSteps >= 4
    /\ Uninit \subseteq Nodes \cup {Null, Wild}
    /\ Calls \subseteq ClientCalls
    /\ ~ {"keep", "clone"} \subseteq Calls
    /\ MaxStep \in Nat /\ MaxId \in Nat /\ MaxTx \in Nat /\ MaxItems \in Nat

VARIABLES
    heap,               \* the nodes that are alive, with their fields
    held,               \* the nodes the client holds a shared_ptr to
    mstate,             \* _state
    lockedNode,         \* _lockedNode
    root,               \* _root
    txActions,          \* _txActions
    todo,               \* what abort, undo or redo has still to execute
    index,              \* _idMap
    maxId,              \* _maxId
    stack, min, current,    \* the engine's undo stack
    fault               \* undefined behaviour the program has run into

Transaction == Seq(Action)

Engine == INSTANCE UndoStack WITH
    Payload <- Transaction, Requests <- {},
    maxSteps <- MaxSteps, attached <- TRUE

nodeVars == <<heap, held, index>>
engineVars == <<stack, min, current>>
vars == <<heap, held, mstate, lockedNode, root, txActions, todo, index, maxId,
          stack, min, current, fault>>

Fault ==
    {"none", "null model", "dangling parent", "out of range", "no engine",
     "freed model"}

TypeOK ==
    /\ DOMAIN heap \subseteq Nodes
    /\ \A n \in DOMAIN heap : heap[n] \in NodeFields(n)
    /\ held \subseteq Nodes
    /\ mstate \in {"Idle", "Transaction", "Undo", "Redo", "Destroyed"}
    /\ lockedNode \in Nodes \cup {Null, Wild}
    /\ root \in Nodes \cup {Null}
    /\ txActions \in Transaction
    /\ todo \in Transaction
    /\ DOMAIN index \subseteq Nat
    /\ \A i \in DOMAIN index : index[i] \in Nodes
    /\ maxId \in Nat
    /\ stack \in Seq(Transaction) /\ min \in Nat /\ current \in Nat
    /\ fault \in Fault

----------------------------------------------------------------------------
\* Ownership.  The order of the entries of a transaction does not matter.
HeldByActions(tx) == UNION {Refs(a) : a \in Elements(tx)}
Owners ==
    held \cup {root} \cup HeldByActions(txActions)
         \cup UNION {HeldByActions(tx) : tx \in Elements(stack)}

\* ~Node of the nodes of h that are dead: one with an id has the engine of its
\* model forget it, which a node without a model has not, and the nodes of a
\* model whose engine is gone have no more.
AfterDeath(h, dead, engine) ==
    IF \E n \in dead : h[n].id # 0 /\ ~(h[n].managed /\ engine)
    THEN "no engine" ELSE fault

\* Slips: the destructor leaves the id in the index; the id goes when the node
\* leaves the tree, not when it dies.
ReleaseKeepingIds(h, ix) ==
    LET alive == Reach(h, Owners')
    IN  heap' = [n \in alive |-> h[n]] /\ index' = ix /\ fault' = fault

ReleaseWhenRemoved(h, ix) ==
    LET alive == Reach(h, Owners')
        gone == {h[n].id : n \in DOMAIN h \ Reach(h, {root'})}
    IN  /\ heap' = [n \in alive |-> h[n]]
        /\ index' = [i \in DOMAIN ix \ gone |-> ix[i]]
        /\ fault' = fault

\* Destruction of what nobody owns in the next state, given the heap h and
\* the index ix that the rest of the step leaves: ~Node removes the id.
Release(h, ix) ==
    LET alive == Reach(h, Owners')
        freed == {h[n].id : n \in DOMAIN h \ alive}
    IN  /\ heap' = [n \in alive |-> h[n]]
        /\ index' = [i \in DOMAIN ix \ freed |-> ix[i]]
        /\ fault' = AfterDeath(h, DOMAIN h \ alive, mstate # "Destroyed")

OnTree == Reach(heap, {root})

\* What a client comes to from the nodes it holds, from the root and by indexOf.
Reachable == Reach(heap, held \cup {root} \cup {index[i] : i \in DOMAIN index})

ModelWritable == mstate = "Transaction" /\ lockedNode = Null
Writable(n) == IsWritable(heap, n, ModelWritable)

\* The nodes whose parent is gone, although it was their parent to the end: at
\* its address, which they still hold, may be another node by now.
Outlived ==
    {n \in DOMAIN heap :
        /\ heap[n].parent \in Nodes
        /\ heap[n].parent \in DOMAIN heap => n \notin Children(heap, heap[n].parent)}

\* The nodes that can be asked: every parent above them is there and owns them.
Attached == {n \in DOMAIN heap : Intact(heap, n)} \ Reach(heap, Outlived)

\* The client is in control: no call is executing and nothing went wrong.
Ready == todo = <<>> /\ fault = "none"

----------------------------------------------------------------------------
Init ==
    /\ heap = [n \in {} |-> n]
    /\ held = {}
    /\ mstate = "Idle"
    /\ lockedNode \in Uninit
    /\ root = Null
    /\ txActions = <<>>
    /\ todo = <<>>
    /\ index = [i \in {} |-> i]
    /\ maxId = 0
    /\ stack = <<>> /\ min = 0 /\ current = 0
    /\ fault = "none"

\* Slip: "no id" is -1 in the node and 0 elsewhere.
CreateMinusOne(n) ==
    /\ Ready
    /\ n \notin DOMAIN heap
    /\ \E p \in Uninit :
          heap' = [m \in DOMAIN heap \cup {n} |->
                      IF m \in DOMAIN heap THEN heap[m]
                      ELSE [items |-> <<>>, parent |-> p, state |-> "Created",
                            managed |-> FALSE, id |-> -1]]
    /\ held' = held \cup {n}
    /\ UNCHANGED <<mstate, lockedNode, root, txActions, todo, index, maxId,
                   engineVars, fault>>

\* std::make_shared of a node, at an address that is free.
Create(n) ==
    /\ Ready
    /\ n \notin DOMAIN heap
    /\ \E p \in Uninit :
          heap' = [m \in DOMAIN heap \cup {n} |->
                      IF m \in DOMAIN heap THEN heap[m]
                      ELSE [items |-> <<>>, parent |-> p, state |-> "Created",
                            managed |-> FALSE, id |-> 0]]
    /\ held' = held \cup {n}
    /\ UNCHANGED <<mstate, lockedNode, root, txActions, todo, index, maxId,
                   engineVars, fault>>

\* The client drops its shared_ptr to a node.
Drop(n) ==
    /\ Ready /\ n \in held
    /\ held' = held \ {n}
    /\ UNCHANGED <<mstate, lockedNode, root, txActions, todo, maxId, engineVars>>
    /\ Release(heap, index)

\* ModelPrivate::setRoot, called by whatever loads a document into an empty
\* model.
LoadRoot(n) ==
    /\ Ready /\ mstate = "Idle"
    /\ root = Null /\ stack = <<>>
    /\ n \in held /\ ~heap[n].managed
    /\ root' = n
    /\ heap' = [m \in DOMAIN heap |->
                   IF m \notin Reach(heap, {n}) THEN heap[m]
                   ELSE [heap[m] EXCEPT !.managed = TRUE,
                                        !.state = IF m = n THEN "Created" ELSE @]]
    /\ UNCHANGED <<held, mstate, lockedNode, txActions, todo, index, maxId,
                   engineVars, fault>>

\* The engine's prepare() does nothing.
BeginTransaction ==
    /\ Ready /\ mstate = "Idle"
    /\ mstate' = "Transaction"
    /\ UNCHANGED <<nodeVars, lockedNode, root, txActions, todo, maxId,
                   engineVars, fault>>

\* An edit of a vector or of bytes: execute the action, then push it.
Edit(a) ==
    /\ Len(txActions) < MaxTx
    /\ IF Executable(heap, a, FALSE)
       THEN /\ Len(NewItems(heap[a.parent].items, a, FALSE)) <= MaxItems
            /\ txActions' = Append(txActions, a)
            /\ lockedNode' = Null
            /\ UNCHANGED <<held, mstate, root, todo, maxId, engineVars>>
            /\ Release(Executed(heap, a, FALSE), index)
       ELSE /\ fault' = "out of range"
            /\ UNCHANGED <<nodeVars, mstate, lockedNode, root, txActions, todo,
                           maxId, engineVars>>

\* The nodes a client edits, given that isWritable() says it may.  Off the tree
\* it says so only below a root that was kept over a reset, so that other clients
\* find no node with a model there that is writable (WritableMatchesTree).
Editable ==
    {n \in (IF "keep" \in Calls THEN Reachable \cap Attached ELSE OnTree) :
        Intact(heap, n) /\ Writable(n) /\ heap[n].managed}

\* Runs of at most MaxItems elements of S.
Runs(S) == UNION {[1 .. k -> S] : k \in 0 .. MaxItems}

\* VectorNode::insert.  The nodes are free ones that the client holds; the
\* root, whose state says it is free, is not inserted, and no node below itself.
VectorInsert(p) ==
    LET free == {n \in held \ {root} :
                    heap[n].state = "Created" /\ p \notin Reach(heap, {n})}
    IN  /\ Ready /\ p \in VectorNodes \cap Editable
        /\ \E nodes \in Runs(free) :
              /\ nodes # <<>>
              /\ \A k, l \in DOMAIN nodes : k # l => nodes[k] # nodes[l]
              /\ \E i \in 0 .. MaxItems :
                    /\ ValidQuery(i, Len(heap[p].items))
                    /\ Edit([type |-> "VectorInsert", parent |-> p,
                             index |-> i, items |-> nodes])

\* VectorNode::remove
VectorRemove(p) ==
    /\ Ready /\ p \in VectorNodes \cap Editable
    /\ \E i, count \in 0 .. MaxItems :
          /\ ValidRemove(i, count, Len(heap[p].items))
          /\ Edit([type |-> "VectorRemove", parent |-> p, index |-> i,
                   items |-> Slice(heap[p].items, i, count)])

\* VectorNode::move
VectorMove(p) ==
    /\ "move" \in Calls
    /\ Ready /\ p \in VectorNodes \cap Editable
    /\ \E i, count, dest \in 0 .. MaxItems :
          /\ ValidRemove(i, count, Len(heap[p].items))
          /\ ~(dest >= i /\ dest < i + count)
          /\ dest <= Len(heap[p].items)
          /\ Edit([type |-> "VectorMove", parent |-> p, index |-> i,
                   count |-> count, dest |-> dest])

\* BytesNode::insert, remove, and replace of bytes that are all there.  (To
\* replace no bytes is legal and changes nothing.)
BytesInsert(p) ==
    /\ Ready /\ p \in BytesNodes \cap Editable
    /\ \E i \in 0 .. MaxItems, bytes \in Runs(Bytes) :
          /\ ValidQuery(i, Len(heap[p].items)) /\ bytes # <<>>
          /\ Edit([type |-> "BytesInsert", parent |-> p, index |-> i,
                   items |-> bytes])

BytesRemove(p) ==
    /\ Ready /\ p \in BytesNodes \cap Editable
    /\ \E i, size \in 0 .. MaxItems :
          /\ ValidRemove(i, size, Len(heap[p].items))
          /\ Edit([type |-> "BytesRemove", parent |-> p, index |-> i,
                   items |-> Slice(heap[p].items, i, size)])

BytesReplace(p) ==
    /\ Ready /\ p \in BytesNodes \cap Editable
    /\ \E i \in 0 .. MaxItems, bytes \in Runs(Bytes) :
          /\ bytes # <<>> /\ i + Len(bytes) <= Len(heap[p].items)
          /\ Edit([type |-> "BytesReplace", parent |-> p, index |-> i,
                   items |-> bytes,
                   old |-> Slice(heap[p].items, i, Len(bytes))])

\* BytesNode::replace beyond the end: zero bytes are inserted first, at the
\* position that is the number of the new bytes, and then the old bytes are
\* taken through iterators that the insertion has invalidated.
BytesReplaceBeyond(p) ==
    /\ "grow" \in Calls
    /\ Ready /\ p \in BytesNodes \cap Editable
    /\ Len(txActions) + 2 <= MaxTx
    /\ \E i \in 0 .. MaxItems, bytes \in Runs(Bytes) :
          LET off == i + Len(bytes) - Len(heap[p].items)
              zeros == [type |-> "BytesInsert", parent |-> p,
                        index |-> Len(bytes), items |-> [k \in 1 .. off |-> Zero]]
          IN  /\ off > 0 /\ i + Len(bytes) <= MaxItems
              /\ IF Executable(heap, zeros, FALSE)
                 THEN \E old \in [DOMAIN bytes -> Bytes] :
                        LET replace == [type |-> "BytesReplace", parent |-> p,
                                        index |-> i, items |-> bytes, old |-> old]
                            grown == Executed(heap, zeros, FALSE)
                        IN  /\ txActions' = txActions \o <<zeros, replace>>
                            /\ lockedNode' = Null
                            /\ UNCHANGED <<held, mstate, root, todo, maxId, engineVars>>
                            /\ Release(Executed(grown, replace, FALSE), index)
                 ELSE /\ fault' = "out of range"
                      /\ UNCHANGED <<nodeVars, mstate, lockedNode, root, txActions,
                                     todo, maxId, engineVars>>

\* Slips: the copy keeps the model; a copied child is appended to the copied
\* vector, but not added to it.
CopyManaged(m, items, parent, state) ==
    [items |-> items, parent |-> parent, state |-> state,
     managed |-> heap[m].managed, id |-> heap[m].id]
CopyUnlinked(m, items, parent, state) ==
    [items |-> items, parent |-> Null, state |-> "Created",
     managed |-> FALSE, id |-> heap[m].id]

\* A copy of the node m has no model and is not in the index, but
\* VectorNodePrivate::copy and BytesNodePrivate::copy give it the id of m.
CopyOf(m, items, parent, state) ==
    [items |-> items, parent |-> parent, state |-> state,
     managed |-> FALSE, id |-> heap[m].id]

\* The heap with the copies of a tree: the copy of a child is added to the copy
\* of the node that owns it, its home.
Cloned(tree, n, copy, home, p) ==
    [c \in DOMAIN heap \cup {copy[m] : m \in tree} |->
        IF c \in DOMAIN heap THEN heap[c]
        ELSE LET m == CHOOSE m \in tree : copy[m] = c
                 s == heap[m].items
                 items == IF m \in VectorNodes
                          THEN [k \in 1 .. Len(s) |-> copy[s[k]]] ELSE s
             IN  IF m = n THEN CopyOf(m, items, p, "Created")
                 ELSE CopyOf(m, items, copy[home[m]], "Active")]

\* Node::clone: copies of the node and of all that it owns, at free addresses.
Clone(n) ==
    /\ "clone" \in Calls
    /\ Ready /\ n \in held \cup OnTree
    /\ LET tree == Reach(heap, {n})
       IN  \E copy \in [tree -> Nodes \ DOMAIN heap], home \in [tree \ {n} -> tree],
              p \in Uninit :
              /\ \A m \in tree : m \in VectorNodes <=> copy[m] \in VectorNodes
              /\ \A m \in tree : Children(heap, m) \subseteq tree
              /\ \A l, m \in tree : l # m => copy[l] # copy[m]
              /\ \A m \in tree \ {n} : m \in Children(heap, home[m])
              /\ held' = held \cup {copy[n]}
              /\ heap' = Cloned(tree, n, copy, home, p)
    /\ UNCHANGED <<mstate, lockedNode, root, txActions, todo, index, maxId,
                   engineVars, fault>>

\* An edit of a node inserted in the running transaction, which has no model
\* yet: isWritable() allows it, the action is executed, and pushAction
\* dereferences the null model.
EditUnmanaged(n) ==
    /\ "unmanaged" \in Calls
    /\ Ready /\ mstate = "Transaction"
    /\ n \in Reachable /\ heap[n].state # "Created" /\ ~heap[n].managed
    /\ n \in VectorNodes => \E m \in held \ {n, root} : heap[m].state = "Created"
    /\ fault' = "null model"
    /\ UNCHANGED <<nodeVars, mstate, lockedNode, root, txActions, todo, maxId,
                   engineVars>>

\* isWritable() or isDetached() of a node whose parent chain is broken.
AskDangling(n) ==
    /\ "dangling" \in Calls
    /\ Ready /\ n \in Reachable
    /\ ~Intact(heap, n)
    /\ fault' = "dangling parent"
    /\ UNCHANGED <<nodeVars, mstate, lockedNode, root, txActions, todo, maxId,
                   engineVars>>

\* isWritable() of a node that the model had and outlived: it asks the model.
AskDestroyed(n) ==
    /\ "destroy" \in Calls
    /\ Ready /\ mstate = "Destroyed" /\ n \in Reachable
    /\ Intact(heap, n) /\ heap[WritableTop(heap, n)].managed
    /\ fault' = "freed model"
    /\ UNCHANGED <<nodeVars, mstate, lockedNode, root, txActions, todo, maxId,
                   engineVars>>

\* Model::setRoot: the new root gets no model and no action is recorded.
SetRoot(n) ==
    /\ "setRoot" \in Calls
    /\ Ready /\ ModelWritable
    /\ n # Null => n \in held \cup OnTree /\ heap[n].state = "Created"
    /\ root' = n
    /\ lockedNode' = Null
    /\ UNCHANGED <<held, mstate, txActions, todo, maxId, engineVars>>
    /\ Release([m \in DOMAIN heap |->
                   [heap[m] EXCEPT !.state = IF m = n THEN "Active"
                                             ELSE IF m = root THEN "Detached"
                                             ELSE @]],
               index)

----------------------------------------------------------------------------
(***************************************************************************)
(* Leaving a transaction.                                                  *)
(***************************************************************************)

\* commitTransaction without a recorded action.
CommitNothing ==
    /\ Ready /\ mstate = "Transaction" /\ txActions = <<>>
    /\ mstate' = "Idle"
    /\ UNCHANGED <<nodeVars, lockedNode, root, txActions, todo, maxId,
                   engineVars, fault>>

\* What commit associates with the model: the inserted nodes with all they own.
Associated == Reach(heap, UNION {QueryInserted(a) : a \in Elements(txActions)})

\* The nodes it goes through for that, action by action, some more than once.
Visited ==
    LET under(s) == Lists!FlattenSeq([k \in DOMAIN s |-> Preorder(heap, s[k])])
    IN  Lists!FlattenSeq(
            [i \in DOMAIN txActions |->
                IF txActions[i].type = "VectorInsert" THEN under(txActions[i].items)
                ELSE <<>>])

\* The order in which it first comes to them.
Visits ==
    LET first == [n \in Associated |->
                     CHOOSE k \in DOMAIN Visited :
                         Visited[k] = n /\ \A l \in 1 .. k - 1 : Visited[l] # n]
    IN  {v \in [Associated -> 1 .. Cardinality(Associated)] :
            \A m, n \in Associated :
                /\ m # n => v[m] # v[n]
                /\ first[m] < first[n] => v[m] < v[n]}

Greatest(S) == {x \in S : \A y \in S : y <= x}

\* Slip: every node gets a new id.
NumberingsAnew(v) ==
    {f \in [Associated -> 1 .. MaxId] :
        \A n \in Associated :
            f[n] - 1 \in Greatest({maxId} \cup {f[m] : m \in {l \in Associated : v[l] < v[n]}})}

\* addId: a node with an id keeps it and _maxId grows to it, another gets the
\* next id after the greatest so far.
Numberings(v) ==
    {f \in [Associated -> 1 .. MaxId] :
        \A n \in Associated :
            LET before == {m \in Associated : v[m] < v[n]}
            IN  IF heap[n].id # 0 THEN f[n] = heap[n].id
                ELSE f[n] - 1 \in Greatest({maxId} \cup {f[m] : m \in before})}

\* Slip: the nodes get their ids, and not their model.
NumberedOnly(f) ==
    [n \in DOMAIN heap |->
        IF n \notin Associated THEN heap[n] ELSE [heap[n] EXCEPT !.id = f[n]]]

\* The heap with the associated nodes numbered by f.
Numbered(f) ==
    [n \in DOMAIN heap |->
        IF n \notin Associated THEN heap[n]
        ELSE [heap[n] EXCEPT !.managed = TRUE, !.id = f[n]]]

\* The index of them all: _idMap.insert does not replace an entry that is
\* there, so that of two nodes with one id the first visited is found.
Indexings(v, f) ==
    LET new == {f[n] : n \in Associated} \ DOMAIN index
        First(i) == {n \in Associated :
                        f[n] = i /\ \A m \in Associated : f[m] = i => v[n] <= v[m]}
    IN  {[i \in DOMAIN index \cup new |-> IF i \in new THEN entry[i] ELSE index[i]] :
            entry \in {e \in [new -> Associated] : \A i \in new : e[i] \in First(i)}}

\* commitTransaction: the nodes first, then the engine, which may release
\* the actions of a redoable tail and of the oldest transactions.
Commit ==
    /\ Ready /\ mstate = "Transaction" /\ txActions # <<>>
    /\ Engine!currentStep < MaxStep
    /\ mstate' = "Idle"
    /\ Engine!CommitWindow(txActions)
    /\ txActions' = <<>>
    /\ UNCHANGED <<held, lockedNode, root, todo>>
    /\ \E v \in Visits :
          \E f \in Numberings(v) :
              /\ maxId' \in Greatest({maxId} \cup {f[n] : n \in Associated})
              /\ \E ix \in Indexings(v, f) : Release(Numbered(f), ix)

\* Slip: the actions are undone in the order they were made.
InOrder(s) == s

\* abortTransaction, undo and redo: the call begins ...
Reversed(s) == [i \in 1 .. Len(s) |-> s[Len(s) + 1 - i]]

AbortTransaction ==
    /\ Ready /\ mstate = "Transaction"
    /\ todo' = Reversed(txActions)
    /\ mstate' = IF txActions = <<>> THEN "Idle" ELSE mstate
    /\ UNCHANGED <<nodeVars, lockedNode, root, txActions, maxId, engineVars, fault>>

Undo ==
    /\ Ready /\ mstate = "Idle"
    /\ current # 0
    /\ mstate' = "Undo"
    /\ todo' = Reversed(stack[current])
    /\ UNCHANGED <<nodeVars, lockedNode, root, txActions, maxId, engineVars, fault>>

Redo ==
    /\ Ready /\ mstate = "Idle"
    /\ current # Len(stack)
    /\ mstate' = "Redo"
    /\ todo' = stack[current + 1]
    /\ UNCHANGED <<nodeVars, lockedNode, root, txActions, maxId, engineVars, fault>>

\* ... goes through the actions ...
ExecuteNext ==
    LET a == Head(todo)
        undo == mstate # "Redo"
    IN  /\ Executable(heap, a, undo)
        /\ lockedNode' = Null
        /\ todo' = Tail(todo)
        /\ UNCHANGED <<held, root, maxId>>
        /\ Release(Executed(heap, a, undo), index)

ExecuteAction ==
    /\ fault = "none" /\ Len(todo) > 1
    /\ UNCHANGED <<mstate, txActions, engineVars>>
    /\ ExecuteNext

\* Slip: an abort leaves the transaction open.
AbortStaysOpen ==
    /\ fault = "none" /\ mstate = "Transaction" /\ Len(todo) = 1
    /\ txActions' = <<>>
    /\ UNCHANGED <<mstate, engineVars>>
    /\ ExecuteNext

\* ... and returns after the last one.
AbortReturns ==
    /\ fault = "none" /\ mstate = "Transaction" /\ Len(todo) = 1
    /\ mstate' = "Idle"
    /\ txActions' = <<>>
    /\ UNCHANGED engineVars
    /\ ExecuteNext

UndoReturns ==
    /\ fault = "none" /\ mstate = "Undo" /\ Len(todo) = 1
    /\ mstate' = "Idle"
    /\ Engine!StepBack
    /\ UNCHANGED txActions
    /\ ExecuteNext

RedoReturns ==
    /\ fault = "none" /\ mstate = "Redo" /\ Len(todo) = 1
    /\ mstate' = "Idle"
    /\ Engine!StepForward
    /\ UNCHANGED txActions
    /\ ExecuteNext

\* An action whose iterators leave the vector.
ExecuteOutOfRange ==
    /\ todo # <<>> /\ fault = "none"
    /\ ~Executable(heap, Head(todo), mstate # "Redo")
    /\ fault' = "out of range"
    /\ UNCHANGED <<nodeVars, mstate, lockedNode, root, txActions, todo, maxId,
                   engineVars>>

\* Slip: _clearing is set, but the index is not cleared.
ResetKeepingIndex ==
    /\ Ready /\ mstate = "Idle"
    /\ held = {} \/ "keep" \in Calls
    /\ root' = Null
    /\ Engine!ResetWindow
    /\ maxId' = 0
    /\ index' = index
    /\ UNCHANGED <<held, mstate, lockedNode, txActions, todo, fault>>
    /\ heap' = [n \in Reach(heap, Owners') |-> heap[n]]

\* Model::reset: the ids of the nodes that survive are forgotten by the
\* index, not by the nodes.
Reset ==
    /\ Ready /\ mstate = "Idle"
    /\ held = {} \/ "keep" \in Calls
    /\ root' = Null
    /\ Engine!ResetWindow
    /\ maxId' = 0
    /\ UNCHANGED <<held, mstate, lockedNode, txActions, todo>>
    /\ Release(heap, [i \in {} |-> i])

\* ~Model destroys the members, the last one first: the engine with its stack,
\* whose nodes find it only if the standard library lets the unique_ptr to it
\* point there until it is gone; then _txActions and _root, whose nodes come too
\* late.  What the client still holds dies later.
Destroy ==
    LET later == Reach(heap, held \cup {root} \cup HeldByActions(txActions))
        left == Reach(heap, held)
    IN  /\ "destroy" \in Calls
        /\ Ready /\ mstate # "Destroyed"
        /\ mstate' = "Destroyed" /\ root' = Null /\ txActions' = <<>>
        /\ Engine!ResetWindow
        /\ heap' = [n \in left |-> heap[n]]
        /\ index' = [i \in {} |-> i]
        /\ \E pointed \in BOOLEAN :
              fault' = IF AfterDeath(heap, DOMAIN heap \ later, pointed) # fault
                       THEN "no engine" ELSE AfterDeath(heap, later \ left, FALSE)
        /\ UNCHANGED <<held, lockedNode, todo, maxId>>

----------------------------------------------------------------------------
\* Another document takes the place of this one, without a step.
NewDocument ==
    \/ \E n \in Nodes : LoadRoot(n)
    \/ Reset
    \/ Destroy

\* One call after the other has its effect on the document.
ClientStep ==
    \/ \E n \in Nodes :
          \/ Create(n)
          \/ Drop(n)
          \/ VectorInsert(n)
          \/ VectorRemove(n)
          \/ VectorMove(n)
          \/ BytesInsert(n)
          \/ BytesRemove(n)
          \/ BytesReplace(n)
          \/ BytesReplaceBeyond(n)
          \/ Clone(n)
          \/ EditUnmanaged(n)
          \/ AskDangling(n)
          \/ AskDestroyed(n)
    \/ \E n \in Nodes \cup {Null} : SetRoot(n)
    \/ BeginTransaction
    \/ CommitNothing
    \/ AbortTransaction
    \/ Undo
    \/ Redo

LibraryStep ==
    \/ ExecuteAction
    \/ AbortReturns
    \/ UndoReturns
    \/ RedoReturns
    \/ ExecuteOutOfRange

Next == NewDocument \/ Commit \/ ClientStep \/ LibraryStep

Spec == Init /\ [][Next]_vars

\* The loops of abort, undo and redo run to their end: nothing else runs on
\* their thread.  No fairness is assumed of the client.
FairSpec == Spec /\ WF_vars(LibraryStep)

----------------------------------------------------------------------------
(***************************************************************************)
(* Properties                                                              *)
(***************************************************************************)

\* Between any two actions the document is a tree: a child stands once in
\* one vector, its parent pointer and its state agree, and the root is
\* nobody's child (addChild, removeChild, VectorInsDelAction::execute).
TreeConsistent ==
    \A p \in OnTree \cap VectorNodes :
        LET s == heap[p].items
        IN  \A i \in DOMAIN s :
                /\ s[i] \in OnTree \ {root}
                /\ heap[s[i]].parent = p
                /\ heap[s[i]].state = "Active"
                /\ \A j \in DOMAIN s \ {i} : s[j] # s[i]

\* isDetached() tells whether a node that was once on the tree is off it:
\* only the removed top of a subtree is marked, and the mark has to follow
\* every insertion, removal, abort, undo and redo.
DetachedMatchesTree ==
    \A n \in Attached :
        heap[n].state # "Created" => (IsDetached(heap, n) <=> n \notin OnTree)

\* isWritable() of a node whose model lives: inside a transaction exactly the
\* nodes of the tree are writable, outside of one none is, and after every
\* call all nodes of the tree have their model (NodePrivate::propagate).
WritableMatchesTree ==
    /\ mstate # "Destroyed" =>
          \A n \in Attached :
             heap[n].managed => (Writable(n) <=> ModelWritable /\ n \in OnTree)
    /\ mstate = "Idle" => \A n \in OnTree : heap[n].managed

\* indexOf(id) never hands out a node that is gone, nor one with another id:
\* the index holds raw pointers, and only removeId in the destructor of the
\* node takes them out again.
IndexSound ==
    \A i \in DOMAIN index : index[i] \in DOMAIN heap /\ heap[index[i]].id = i

\* At rest every node of the tree but the root is found by its id.
TreeIndexed ==
    mstate = "Idle" =>
        \A n \in OnTree \ {root} :
            heap[n].id \in DOMAIN index /\ index[heap[n].id] = n

\* Every live node with an id is found under it, and at rest all nodes of the
\* tree but the root have one: addId on commit and removeId on destruction
\* stay in step through undo, redo, truncation, trimming and reset.
IndexComplete ==
    /\ \A n \in DOMAIN heap :
          heap[n].id # 0 => heap[n].id \in DOMAIN index /\ index[heap[n].id] = n
    /\ TreeIndexed

\* The recorded actions fit the vectors they are executed on, in both
\* directions and whatever was undone, redone, aborted or committed between:
\* execute checks no index.
NoOutOfRange == fault # "out of range"

\* A node keeps its id while it lives (commit numbers what was inserted,
\* never what was there).
NeverRenumbered ==
    [][\A n \in DOMAIN heap \cap DOMAIN heap' :
          heap[n].id # 0 => heap'[n].id = heap[n].id]_vars

\* Whatever drops the last reference to a node, the node has the model and the
\* engine that have to forget its id, unless they were destroyed before it (the
\* assertion in ~Node).
DeathHasModel == fault = "no engine" => mstate = "Destroyed"

\* An abort, an undo and a redo come to an end: each of their actions can be
\* executed, and the model is idle again afterwards.
CallsReturn == todo # <<>> ~> mstate = "Idle"
=============================================================================
