# substate in TLA+

This directory specifies *substate*, the undo framework of this repository, in
TLA+: what its model, its nodes and its storage engine do, checked by TLC on
small instances and, where it matters most, proved by TLAPS for every instance.
Source paths below are relative to the repository.

## The system

A *document* is a tree of **nodes** below the root of a **Model**. A client
changes nodes inside a transaction; each change builds an **action**, executes
it, and pushes it onto the transaction. A commit hands the actions to the
**storage engine**, which keeps them for undo and redo. An abort executes them
backwards. Nodes are shared (`std::shared_ptr`) by the client, by the tree and
by the actions that are recorded, and a node that was removed lives on in the
action that can bring it back.

| Component | State | Operations | Interacts through |
|---|---|---|---|
| `StandardStorageEngine` | `_stack`, `_min`, `_current`, `_maxSteps` | `setMaxSteps`, `commit`, `execute`, `reset`, `minimum`, `maximum`, `current`, `stepMessage` | called by Model; executes actions |
| `StorageEngine` | `_idMap` (raw pointers), `_maxId`, `_model` | `setup`, `prepare`, `abort`, `addId`, `removeId`, `indexOf` | called by Model on commit, by the destructor of Node |
| `Model` | `_state`, `_root`, `_txActions`, `_lockedNode`, `_clearing` | `beginTransaction`, `commitTransaction`, `abortTransaction`, `undo`, `redo`, `setRoot`, `reset`, `indexOf` | engine; listeners through `notify` |
| `Node` | `_state`, `_id`, `_parent` (raw), `_model` | `isWritable`, `isDetached`, `addChild`, `removeChild`, `propagate`, `clone`, destruction | parent, model, engine |
| `VectorNode`, its actions | `_vec`; index, count, destination, children | `insert`, `remove`, `move`, `execute`, `queryNodes` | Node, `ModelPrivate::pushAction` |
| `BytesNode`, its actions | `_data`; index, bytes, old bytes | `insert`, `remove`, `replace`, `truncate`, `clear`, `execute` | the same |
| `SheetNode`, its action | `_sheet`, `_maxId` | `insert`, `remove`, `execute` | the same |
| `MappingNode`, `StructNode`, `Property` (qsubstate) | map or array of properties | `setProperty`, `execute`, `queryNodes` | the same |
| `RootChangeAction` | old and new root | `execute`, `queryNodes` | built by `setRoot`, never recorded |
| `Notification` | a type | passed to `notify` before and after each action, after each commit, undo and redo, before a reset | Node, Model, a subclass of the client |
| `BinaryStream` | a C++ stream | reading and writing numbers, strings, padding | nothing calls it yet |
| `TwoPhaseObject`, `ArrayView` | none of the document's | | `ArrayView` is what `data()` returns |
| `FilesystemStorageEngine` | none | none (a stub) | |

What is hard about it:

* *ordering*: the actions of a transaction name positions, so that they fit the
  vectors only in exactly one order forwards and one backwards;
* *long sequences*: undo, redo, truncation of the redoable tail, and the trim of
  the oldest steps in blocks share three counters;
* *lifetime*: `_idMap` and `_parent` are raw pointers next to shared ownership,
  and a node dies in the middle of whatever call drops its last reference;
* *stale marks*: only the removed top of a subtree is marked `Detached`;
  whether anything below it is on the tree is known only by climbing;
* *partial state*: inside a transaction nodes are on the tree that have no model
  and no id yet;
* *callbacks*: `notify` runs client code in the middle of each action, which may
  call the model again: calls nest, and only `_state` and one lock keep them apart;
* *files*: what a stream yields of a file that was cut.

There is one thread. Nothing is written to a disk yet: the write-ahead log that
the introduction of the repository promises is the stub
`FilesystemStorageEngine`, so there is no crash recovery to model.

What has to hold, per component: the engine numbers its steps consistently
(StepLog); the document of a step is restored exactly, whichever way the step is
reached (UndoHistory); the tree is a tree, and marks and rights follow it; the
index knows exactly the live nodes with an id, and ids are for life; every call
comes to an end; the ids of a sheet stay with their child, and links follow the
slots; the lock belongs to the innermost action, and the recorded actions are in
the order in which the document changed, whatever `notify` calls; what was
written is read back, or the reader is told.

The program modelled is the release build: two of the assertions of
`BytesNode.cpp` and `StructNode.cpp` name what does not exist there, and do not
compile without `NDEBUG`. An assertion is read as a rule for the client.

## Modules

| Module | Models | Theorems |
|---|---|---|
| `StepLog` | abstract: what an engine promises about step numbers | |
| `UndoStack` | `StandardStorageEngine` without what a transaction contains | `UndoStackProofs` |
| `Splice` | the `std::vector` operations of the actions, as pure operators | `SpliceProofs` |
| `NodeTree` | `Node`, `VectorNode`, `BytesNode`, the execution of their actions, as operators on a heap | `NodeTreeProofs` |
| `Document` | `Model`, the engine (`INSTANCE UndoStack`), the id index, cloning, destruction, the client | `DocumentProofs`, `DocumentTreeProofs` |
| `UndoHistory` | abstract: what undo and redo promise the client | |
| `DocumentHistory` | `Document` with a history variable, the refinement of `UndoHistory` | in `DocumentTreeProofs` |
| `Containers` | `SheetNode`, `MappingNode`, `StructNode`, `Property` and their actions, with the engine around them | `ContainersProofs` |
| `Protocol` | the calls of `Model` and its nodes, the notifications, and a listener that calls again, with the engine around them | `ProtocolProofs` |
| `BinaryStream` | `OBinaryStream`, a file, and `IBinaryStream` on what is left of it | `BinaryStreamProofs` |
| `MCDocument`, `MCDocumentHistory`, `MCContainers`, `MCBinaryStream` | symmetry sets and values for TLC | |

The model of a document is cut three ways. `Document` has the tree, the
lifetimes and the ids, and executes an action in one step. `Containers` has the nodes
whose children stand in named slots, one of them at a time. `Protocol` knows an
action by its name only and takes it apart: what happens before, between and
after its two notifications. All three use `UndoStack` for the engine.

### State and actions of Document

`heap` maps each node that is alive to its fields; `items` is `_vec` or `_data`,
`managed` says that `_model` is set. `index` is `_idMap`; `stack`, `min` and
`current` are the engine's. `held` is what the client has a `shared_ptr` to.
`todo` is what the running abort, undo or redo has still to execute: *one action
executes per step*, and the invariants hold between any two of them, where a
listener would look. An edit is one step, as is a commit.

Ownership is computed: `Owners` names what the client, the model, the running
transaction and the stack keep alive, `Release` ends each step that may drop a
reference by removing from the heap what is out of reach, and from the index
their ids, as the destructor of Node does.

`Uninit` is what a pointer that no constructor sets may hold (`Node::_parent`,
`Model::_lockedNode`): `{Null}` is a build that happens to zero its memory,
`{Null, Wild}` is the language. Following a pointer to no live node is the fault
"dangling parent", asking a model that was destroyed is "freed model", an edit
without a model is "null model", an iterator that leaves its vector is "out of
range". A fault ends the behaviour.

A held child may outlive its parent and go on pointing to its address, where
another node may be by then: `Outlived` are such nodes, and what isDetached() and
isWritable() say of them, and of what they own, means nothing. `Attached` are the
nodes that can be asked. A client comes to `Reachable` nodes: from those it holds, from
the root, and by `indexOf`. It edits those of them that are writable (`Editable`):
nodes of the tree, and if it has kept nodes over a reset also those, off the tree as they
are: an old root is still `Created` and has its model.

*Commit* goes through what was inserted, action by action and each subtree in the order
of `propagate` (`Visited`), and calls `addId`: a node that has an id keeps it and
`_maxId` grows to it, another gets the next id after the greatest so far. Nodes that
have an id without being in the index come from before a reset, or from a clone.

`Calls` names what a client may do besides the plain operations: move children,
set the root, hold nodes while the model is reset, edit nodes the transaction
inserted, ask nodes whose parent is gone, replace bytes beyond the end, clone,
destroy the model (and ask its nodes). Each is legal by the assertions of the code; some of them break
something (see below). Each run says which it takes. `DocumentProofs` allows them
all, but for a client that clones and also keeps nodes over a reset: the copies
have ids that the engine forgets. The proofs about the tree allow fewer, see there.

Guards are the assertions of the code (`assert(isWritable())`, the argument
checks, `isFree()` of what is inserted). Beyond them the client of the model
inserts distinct nodes, not the root (a loaded root is `Created`, so `isFree()`
does not tell), and none below itself (an old root that was kept is `Created` and has
children), and loads a document only into an empty model. A move is restricted to
destinations within the vector. An edit without a model is looked at for nodes that
are not free, those the transaction inserted: a fresh node that is edited before it is
inserted meets the same fault.

*Growing bytes.* `BytesNode::replace` beyond the end is two actions in one call:
the zero bytes it inserts, at a position that may lie outside, and a replacement
whose old bytes come through iterators that the insertion invalidated:
`BytesReplaceBeyond` takes any.

*Destruction.* `~Model` destroys its members in reverse order (`Model.h:88`). The nodes
that go with it ask `_model->_storageEngine` to forget their ids: those of `_txActions`
and `_root` when the engine is gone, which is the fault "no engine"; those that only
the stack holds while the `unique_ptr` to the engine is being destroyed, where it may
still point there (libstdc++) or be null already (libc++). `Destroy` leaves that open.
What the client holds dies later; `AskDestroyed` asks it before.

### State and actions of Containers

`slots` is `_sheet`, `_map` or `_storage`; `child` holds what the container sets of
its children. The three `execute` functions are `NewSlots` and `NewChild`; the
edits are actions of their own, since `SheetNode::remove` and
`MappingNode::setProperty` repeat the change instead of executing the action.
Children are fresh and none of them dies, so that `Containers` needs no heap.

`SheetNode::remove(id)` looks up the sheet's own id. The history variable
`strayed` says that it was asked for another id than the one it looked up; what
is claimed of sheets is claimed of those where that did not happen.
`PropertyAction` stores its values the wrong way round, and so does the model.

### State and actions of Protocol

`frames` is the C++ stack: a frame is a call that waits for `notify` to return,
with the actions it has still to finish and whether the first of them has been
executed. Each action of the module is the code between two notifications. The
calls of the client need no frame and some room (`MaxDepth`): from outside there
is no frame, from `notify` there is at least one. `doc` is the sequence of the
actions that made the document; an undo that does not meet its own action at
the end of it is the fault "misfit".

`Locks` says which actions hold the lock: all but an insertion into a sheet and
the execution of any `SheetAction`, which call `endAction` without `beginAction`.
There the model is writable within an action. `_lockedNode` is not set by the
constructor: `locked` is "free", "held", or "garbage" from the beginning.

`Model::setRoot` is a call of its own: `SetRoot` takes the lock and notifies, `ChangeRoot`
replaces the root and notifies again, `SetRootEnds` clears the lock. It takes the
old root for the lock, or the new one, and so none if there is neither: `RootChanges` and
`NullChanges`. It records nothing, and `doc`, which is the recorded actions, does not
have it; for undo it never happened (*Disagreements*).

Three things that no assertion refuses are named in `Calls`, and `slips` records
which have happened: to edit, or to set the root, within an action that does not hold the
lock and has begun ("reenter"), to leave the transaction within an action ("leave"), to
leave a transaction open in the notification of a reset ("begin"). Each property
names the slips that it does not survive, and the run has them all. An edit from
the notification *before* an insertion into a sheet is no slip: it is right.

### State and actions of BinaryStream

`bytes` is the file, each byte known by what it is a part of. `Reopen` cuts it
anywhere. The reader makes the same sequence of reads as the writer made writes
and goes on after a failure, as the containers do within themselves. The
functions of `std::istream` (`Read`, `Ignore`, `Told`) follow the C++ standard; that
`tellg` fails a stream at its end is what makes `skipRawData` report a cut.

## Runs

| Run | Shows | States |
|---|---|---|
| `UndoStack` | window, canUndo/canRedo, refinement of StepLog; deadlock | 246,086 |
| `DocumentTree` | all properties of the document, refinement of UndoHistory; deadlock | 49,828 |
| `DocumentRisky` | the index under moves, root changes, edits without a model, questions to nodes whose parent or model is gone, destruction, uninitialized pointers; nodes die with a model to tell | 172,052 |
| `DocumentKept` | the index and the ids when nodes are held over a reset, edited there, and inserted again with the ids they have; deadlock | 132,054 |
| `DocumentBytes` | the tree under clones of vectors and bytes and growing replacements | 195,298 |
| `HistoryBytes` | overlapping edits of bytes and of the vector around them are undone, redone and aborted exactly, and every call ends; deadlock | 128,184 |
| `HistoryTrim` | the same and the index when the oldest steps are dropped | 80,340 |
| `Containers` | sheets, mappings and structs: links, ids of a sheet, entries found, undo of a sheet | 2,964,648 |
| `BinaryStream` | reading back, and what a cut file yields | 630,860 |
| `Protocol` | the lock, the recorded actions, the history and the step being executed, under nested calls, with every slip | 5,100,590 |

*Bounds.* The smallest limit the engine accepts is 4, so the first trim is at
the ninth commit: `UndoStack` takes 13 steps (two trims for a limit of 4, one
for 5, a refused limit of 3), `HistoryTrim` ten. Three vectors are enough for a
root with two children, a child of a child, and a removed node that comes back
beside another; three steps give a redoable tail of two that a commit forgets;
two actions in a transaction are the least whose order matters, and two elements
the least whose positions do. `DocumentBytes` has two nodes of a kind, one to
clone and one for the copy; a growing replacement fills a transaction.

`Containers` has three children and two keys: an entry to be replaced, the one
that replaces it, and one beside them; four ids of a sheet leave a gap and
a reuse. Properties take one step only: their actions are not undone, and what
is checked of them is that the links hold. `BinaryStream` takes strings of the lengths
0, 1, 2 and 4, which need 0, 3, 2 and 0 bytes of padding, and two items, since an item is
misread because of what stands before it. `Protocol` has an action of each kind
of locking, two steps, and three calls within each other: the caller, a listener
that calls, and the listener of that call. The change of the
root is one that takes the lock; that of none to none, which takes none (`NullChanges`), is left to
the theorems, which hold for any sets of actions and any depth.
`DocumentKept` has two nodes to keep and one to be the new root, or the other way round,
and three ids: a kept child with the id 2 makes the next one 3.

`MaxStep`, `MaxTx`, `MaxItems`, `MaxId`, `MaxDepth`, `MaxEntries`, `MaxSheet` and
the step bounds of `Containers` are guards of the models and correspond to nothing in
the code. Nodes of a kind, children and keys are interchangeable; symmetry is used except
where liveness is checked.

*Fairness.* `FairSpec`, and `HFairSpec` over it, assume weak fairness of `LibraryStep` only: the loops of
abort, undo and redo run on the caller's thread, and nothing there waits. Nothing
is assumed of the client, who may stop between any two calls.

*Deadlock* is checked in `UndoStack`, `DocumentTree`, `DocumentKept`, `HistoryBytes`
and `HistoryTrim`. A behaviour of `DocumentRisky`, `DocumentBytes`, `Containers` and
`Protocol` may end at a fault or at a bound, and a reader of `BinaryStream` at the end
of its file.

### Where the code does not keep what it says

| Run | What TLC shows |
|---|---|
| `UndoMove` | a move is not undone: the positions computed backwards are not those of the inverse rotation (`MoveNeverUndone`: for no move) |
| `PropertyUndo` | the undo or abort of an assignment to a mapping leaves the new value |

### Disagreements

Seen while modelling, with no run of their own:

* `isWritable()` follows `_parent` of the root ("The parent is writable?",
  `Node.cpp:47`), which no constructor sets (`Node.h:83`); `_lockedNode` is as
  uninitialized (`Model.h:88`), so that the first transaction may find the model not
  writable.
* A root change is never recorded (`Model.cpp:16`), with the arguments of its
  action swapped, so that abort and undo do not take it back, and the new root gets no model.
* A node inserted in the running transaction gets its model on commit. Until then
  `isWritable()` holds of it ("The node is not managed by a model?", `Node.cpp:43`), which is all
  that an edit asserts (`VectorNode.cpp:40`), and the edit dereferences the null model
  (`VectorNode.cpp:54`): `EditUnmanaged`.
* `pushAction` asserts `inTransaction()` (`Model_p.h:25`) after the listener was told of the action,
  and commit and abort assert only the state: a listener that leaves the transaction there has
  the action recorded in an idle model, and the next transaction begins with it.
* After `reset`, a node that survived keeps an id that is given out again
  (`StandardStorageEngine.cpp:76`), so that one of two nodes is not found.
* "Clone the node without copying its id" (`Node.h:57`) calls `clone(false)`, whose
  comment says that it keeps the id (`Node.h:71`): vectors, bytes and sheets keep it,
  mappings and structs do not. Cloning a mapping or a struct with an invalid property
  dereferences null (`MappingNode.cpp:25`, `StructNode.cpp:23`).
* `SheetNode::remove` ignores its argument but for the record (`SheetNode.cpp:43`).
* A model that is destroyed with a document in it lets the nodes of `_root` ask an
  engine that is gone (`Model.h:89`), and those that only the stack holds one that is
  going; a node that the client has kept asks the model that is gone when it is asked
  whether it is writable, and when it dies.
* The clone of a node that has an id takes the id and not the model. When it is dropped
  without having been inserted, `~Node` fails its `assert(_model)` (`Node.cpp:21`), or
  dereferences null without assertions.
* The stack holds twice the "maximum number of actions kept in memory"
  (`StandardStorageEngine.h:31`); the root of a loaded document is not `Active`
  although it "is on the tree" (`Node.h:41`); a held node outlives its parent and asks it
  in `isDetached()`; an empty commit does not call the engine's `abort()`
  (`StorageEngine.h:44`); undo and redo that find nothing to do still announce a
  `StepChange` (`Model.cpp:136`).
* `OBinaryStream` has no `operator<<` for `bool`, which it writes as four bytes and
  `IBinaryStream` reads as one; `operator>>` of a `std::list` does not compile
  (`BinaryStream.h:146`), and that of an empty string leaves the variable as it was
  (so the run reads into empty ones).

## Proofs

`UndoStackProofs`: for every payload, every requested limit and any number of
steps, `TypeCorrect`, `WindowSafe` and `EngineImplementsStepLog`. The inductive
invariant is `TypeOK /\ WindowInv`: the cursor within the stack is what makes
the truncation and the trim well-defined, and the bound on the stack is what
makes the trim leave more than `maxSteps` steps behind the cursor, which is what
StepLog promises. `CommitFacts` describes the window that commit leaves, trimmed
or not, and both the invariant and the refinement rest on it.

`SpliceProofs`: what each vector operation returns, element by element, and from
that the three inverses on which undo rests: `InsertUndone`, `RemoveUndone`,
`ReplaceUndone`; and what `arrayMove` does, with `MoveUndone`: the move from where the elements
are now to where they were restores the vector. It also holds the induction over intervals that the other proofs need (below).

`DocumentProofs`: for every set of nodes and bytes, every limit, every client
(all of `Calls`) and any `Uninit`, `DocumentTypeCorrect`, `IndexAlwaysSound` and
`IdsAreForLife`. The inductive invariant joins four parts. `HeapOK`: live nodes
have fields of their types. `IndexOK`: an entry leads to a live node with that
id, and no entry is 0. What the client holds is alive, without which an edit
could touch a node that is gone. `StateOK`: the rest, with the cursor within the
stack, so that undo and redo find actions. `IndexOK` needs `HeapOK`; the action
properties need that executing an action leaves ids alone (`ExecutedFacts`), and
that commit leaves a node the id that it has (`NumberedFacts`). `ReleaseFacts` is where
destruction is dealt with, once, and every action that drops references cites it.

`IndexAlwaysSound` is for clients that keep nodes over a reset too. Ids are given out again
then, but an entry is made only with the id that its node has, at commit, where `addId` goes
behind every id it meets; `CommitChoice` and `NumberedFacts` say so of any visiting order.

`DeathAlwaysHasModel` adds `Named` to it: a node that has an id
has its model. Commit gives both at once, an executed action changes neither, and so
whatever drops the last reference, the destructor of the node finds a model. It holds
for every client that does not clone (a clone has the id alone, see *Disagreements*), one
that moves, sets the root, keeps nodes over a reset or grows bytes included.

`DocumentNumbersSteps` and `EngineStaysInWindow` put the engine into the model. `EngineStep`
shows that a step of `Document` is a step of `UndoStack`, with transactions as payload, or
leaves its variables alone; by `INSTANCE UndoStackProofs` its invariant and its
refinement of StepLog then hold inside of `Document`, for every client. TLC cannot
check this one, since `UndoStack` would quantify over all sequences of actions.

`NodeTreeProofs` has the lemmas about the heap, with the arguments of its operators
as variables. `Forest` and `ContentOK` say of a *content* (what each live node has
in its vector or its bytes) that it is a forest without cycles whose roots include
what is free to be inserted. `Move` says what an action stands for: it turns one
content into another, forwards or backwards; `MoveExecutes` shows that `Executed`
does just that and keeps the links, which rests on the inverses of `SpliceProofs`.
`Leads` says that a sequence of actions leads from a content to another, and
`LeadsBack` that the reversed sequence leads back. Moves of children are not among them, and
`MoveNeverUndone` says why: whatever is moved, the positions that `execute` computes
for undo either leave the vector or its assertion, or move something else. So `UndoMove`
is no corner case; exchanging the two positions, as in `MoveUndone`, would repair it.

`DocumentTreeProofs` shows `TreeAlwaysConsistent`, `NeverOutOfRange`,
`IndexAlwaysComplete`, `WritableAlwaysMatches` and `DetachedAlwaysMatches`. None is
inductive: that a recorded action fits the vector it will be executed on is a
statement about the document that a later undo or redo will have made by then. The
invariant `Core` therefore says that there *are* contents at every step the engine
keeps, and how they hang together:

* `Course`: each is a forest of the nodes that live now, and the transactions of
  the stack lead from each to the next.
* `Way`: the actions of the open transaction lead from the content of the current
  step to the present one; what an abort, undo or redo has still to execute leads
  from the present one to that of its goal.
* `Associates`: every node of a document of some step is `Known`, it has its model
  and its id. Within a transaction the tree is known nodes and what was inserted.
* `Control`: what the state of the model says of the recorded actions and of `todo`.
* `Orphans` and `Fresh`: a free node has no parent; an empty model has seen no node
  that was inserted anywhere.

Every step either moves along this course (an edit, a call, an executed action),
extends it and cuts its ends (a commit), or changes which nodes live. The last is
where most of the work is: when a node is born or dies, *all* contents grow or shrink
alike (`CoreRecast`, `Grow`, `Shrink`), which needs that a node nobody owns now is in no
document that can come back. It is so because the actions own what they mention, and
that leads along the course in both directions (`CourseRecast`).

`IndexAlwaysComplete` adds `Indexed`: every id of a live node is found, and none is above
`_maxId`. The two about rights add `Marks`, what `_state` and `_model` say of the
nodes off the tree. A climb along `_parent` from a node of the tree stays on it, and
from one off it stays off (`ClimbTop`); it ends, in at most as many steps
as there are nodes, because a forest has no cycle (`ClimbStops`).

The same module has the history: the contents of `Core` are those of the history variable, so
that `RestBringsBack` shows that an undo, a redo or an abort brings back exactly what
was committed. `DocumentImplementsUndoHistory` refines UndoHistory step by step: an
edit, and an action within a call, is a `Wander`; a commit
appends to the history and forgets the redoable tail and what was trimmed; the
last action of an undo or a redo moves the cursor.

These theorems assume of the client what `Plain` says, and some of them `OwnIds`:

| Assumed | Without it |
|---|---|
| no moves of children, no growing replacement | they are not undone (`UndoMove`, *Growing bytes*) |
| no `setRoot` | it is not recorded, and its root gets no model |
| no nodes held over a reset | they keep model, id and children |
| an uninitialized pointer names no node | isWritable() climbs to that node, and the tree can be edited outside of a transaction |
| no clones (`OwnIds`) | a copy has the id of its original; the children of a free copy are off the tree, and no mark says so |
| the model is not destroyed (`OwnIds`) | its index is gone before the nodes |

`DocumentTree`, `HistoryBytes` and `HistoryTrim` are runs of such a client, and
`DocumentBytes` checks the tree for one that clones and grows bytes. That clones do
not harm the tree or isWritable() is proved: the theorems on them assume `Plain` only.
TLC and the proof attempts changed the model once: `DetachedMatchesTree` and
`WritableMatchesTree` were claimed of nodes whose parent had died and whose address
had been taken by another node, where they are false on larger instances; hence `Attached`.

The induction theorems of the library are out of reach, so induction
over an interval is done with sets: of a set of naturals that is closed under
steps, `LeastElement`, `Upwards`, `Downwards` and `Everywhere` say what is in it.
`Reach` is the least closed set for the same reason, rather than a recursion.

`ProtocolProofs`: for any sets of actions, any limit, and calls nested to any
depth, `ProtocolTypeCorrect`, `LockAlwaysMatches`, `NothingLeftOver`,
`AlwaysRecordedInOrder` and `AlwaysRestored`. None of the properties is
inductive: they speak of the innermost call, and when it returns, what they say of the call
below has to be known already. The inductive invariant therefore speaks of every frame,
in three parts. `StateOK`, always: the types, the cursor within the stack, no empty step, and
frames that an action can be executed in. `NestingOK`, as long as no transaction was left
within an action: an edit, a setRoot and an abort are under way in a transaction only, an undo and a redo in
their states and with no action below them; no frame below the top holds the lock,
and the lock is the top frame's; outside of a transaction nothing is recorded.
`DocumentOK`, as long as the client made no slip: below the top only edits are under way that have
not begun, and calls of setRoot, which leave the document alone; the history is a chain, each step the one before it with its actions
appended; the document is that of the step, then the actions of the transaction,
then the one under way; and for an abort, an undo or a redo it is what the
remaining actions lead from. Each action of the module has its lemma, with a
step per part of the invariant; what they need of sequences (appending, dropping
the last, reversing) stands before them. What `LockMatches` says of a garbage lock is
`GarbageOK`, inductive beside the rest: nothing gets past isWritable(), so that nothing is
ever made, recorded or executed, whose end would clear the lock.

`StepAlwaysStays` needs the slips in none of its cases. `execute` walks a transaction inside
the engine's stack by reference while every action of it notifies, and moves the cursor afterwards
without looking again. `StepOK` strengthens it: an undo or a redo under way is the
*innermost* call, and the state is still its own, so that every call that a listener
could make is refused by its assertion. The guards of `UndoReturns` and `RedoReturns`,
which the code checks only before the loop, are thereby shown to hold. `NestedCallsNumberSteps` carries
the engine's refinement of StepLog over to nested calls, as `DocumentNumbersSteps` does to a document.

`ContainersProofs`: for any children, keys, values, ids and limits, `ContainersTypeCorrect`
for all three containers, and of sheets `SheetIdsAlwaysUnique`, `EntryAlwaysFound` and
`SheetAlwaysRestored`. The last two are about what a long sequence of calls leads to and
are not inductive; the invariant adds the path on which each recorded action lies. `Change`
says what an action stands for: it turns one sheet into another, and back. `Leads` says that
a sequence of actions leads from a sheet to another. `PathOK` is then: each step of the stack
leads from the slots of the step before to its own, the open transaction from those of the
current step to the slots there are, and what is left of an abort, an undo or a redo
from the slots there are to those of the step where it ends. `MoveExecutes` shows that
`SheetAction::execute` does what the action stands for, which needs that an insertion
never meets an entry: `RecordOK`, ids never given twice. Both parts are stated as long as
`remove()` was asked for its own entry only; without that they are false, as the run shows
by its reservation. That a mapping is not restored is the finding `PropertyUndo`.

Its last two theorems are of all that can happen to the children. `LinksAlwaysMatch`, of
all three containers: links are recomputed from the old and the new value of *one* slot,
so that a child that stood in two would be unlinked while it still stands. `PlacesOK`
excludes it: whatever the slots and the actions that can still be executed name, they
name each child for one slot only. With that the values of a `PropertyAction` may be
mixed up as they are, the links follow. `SheetAlwaysManaged` holds even where `remove()` took
another entry than it was asked for. A commit gives the model to what insertions report,
so the claim within a transaction is `Backlog`: a child without a model stands in the
sheet where an insertion of this transaction put it, or is in a removal recorded after
that insertion. Aborting such a transaction may put the child under another id, but
then the insertion finds no entry to erase, which is the fault that ends the
behaviour, before the model is idle.

`BinaryStreamProofs`: for any numbers and strings, containers of any length, items in any
order and number, and a cut at any byte, `ReadBackAlways`, `CutReportedAlways` and
`NothingPartialAlways`. The properties compare what was read with what was written; the
invariant `StreamInv` says where everything stands. `FileInv`: each item stands in the
file from where it begins, as far as the file goes. `ReaderInv`: either the reader
stands where the next item begins and has all that comes before it, or it has failed, for
good, and everything since the item that the cut fell into came out empty. `Outcome` is
what each function of the reader guarantees, from numbers over strings and entries
(`NumberRead`, `StringRead`) up to whole items: the value and the next position if the
file has all its bytes, failure and an empty value if not. Containers are recursive
functions over their entries. `Stepwise` and `FlattenFacts` say that such a function has the
value its steps lead to, by the induction over intervals.

Two things are assumed of the program that writes and reads. `NoBool`: it does not stream a
`bool` of its own, which is written as four bytes and read as one. `EmptyKept`, for
`ReadBackAlways` only: it does not read an empty string into a variable that holds
another, which stays as it was. Both are under *Disagreements*; the run has neither.

Assumed are only the named assumptions on the constants: the sets of nodes are
finite and disjoint, so are the kinds of actions, the null and the wild pointer
are no nodes, the limit is at least 4, the bounds are naturals. TLC evaluates them on its runs.

Only model-checked:

* `CallsReturn`: liveness is beyond the prover.
* `AtRestRestored` for clients that grow bytes, which is false, and the tree for them.

## Not modelled

* Wording, step messages beyond their place in the log, and what a notification says
  of its action.
* `clone` of sheets, mappings and structs, and children of their children: `Containers`
  has one container, whose children own nothing.
* `TwoPhaseObject`: nothing uses it, and its state is a phase that its subclass
  passes through. `ArrayView`: a pointer and a length that nothing changes.
* `FilesystemStorageEngine` is a stub. `StorageEngine::reset` is overridden by the only
  engine there is, `RootChangeAction::execute` is never reached, nothing implements
  `ActionIOInterface`.
* Numbers in a file that were never written as such (a corrupted length), and
  the state a caller sets on a stream.
* Allocation does not fail, and no integer of the code comes near its width.

## Plan

Done: the engine, the document with its history, containers, the protocol of
calls and notifications, growing bytes, cloning, destruction, the stream.

Done as proofs: the engine and its refinement of `StepLog`, the vector operations, types,
index, tree, rights and history of a document and its refinement of `UndoHistory`, the
protocol of calls, the containers, the stream; the engine's refinement inside of a document
and under nested calls.

Left, in this order:

1. `Core` for a client that grows bytes (with the bytes it overwrites unknown, the tree is still
   a tree), and for one that sets the root or keeps nodes over a reset.
2. Clones of containers, in a heap shared with `Document`.
