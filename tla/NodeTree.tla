------------------------------ MODULE NodeTree ------------------------------
(***************************************************************************)
(* Nodes and the recorded actions that change them: Node, VectorNode,      *)
(* BytesNode and the execute functions of their actions.                   *)
(*                                                                         *)
(* A heap h is a function from the allocated nodes to their fields; a node *)
(* whose last shared_ptr is gone is not in its domain any more.  parent is *)
(* a raw pointer: it may name a node that is gone, and the constructor of  *)
(* Node does not set it.                                                   *)
(***************************************************************************)
EXTENDS Splice, FiniteSets

CONSTANTS
    VectorNodes,        \* addresses at which a client allocates VectorNodes
    BytesNodes,         \* ... and BytesNodes
    Bytes,              \* the bytes that come up
    Zero,               \* the one that is 0
    Null,               \* a null pointer
    Wild                \* a pointer to no node at all

Lists == INSTANCE SequencesExt

Nodes == VectorNodes \cup BytesNodes

ASSUME NodeTreeAssumption ==
    /\ IsFiniteSet(Nodes)
    /\ VectorNodes \cap BytesNodes = {}
    /\ BytesNodes # {} => Zero \in Bytes
    /\ Null \notin Nodes
    /\ Wild \notin Nodes \cup {Null}

NodeState == {"Created", "Active", "Detached"}

\* _vec or _data, _parent, _state, "_model is set", and _id.
NodeFields(n) ==
    [items : Seq(IF n \in VectorNodes THEN Nodes ELSE Bytes), parent : Nodes \cup {Null, Wild},
     state : NodeState, managed : BOOLEAN, id : Nat]

Elements(s) == {s[i] : i \in DOMAIN s}

\* propagateChildren: the nodes a node owns through its vector.
Children(h, n) == IF n \in VectorNodes THEN Elements(h[n].items) ELSE {}

\* The live nodes that `from' owns directly or indirectly: what is in every set
\* with the nodes of `from' and the children of its own nodes.
Reach(h, from) ==
    LET start == from \cap DOMAIN h
        Closed(S) == \A n \in S : Children(h, n) \cap DOMAIN h \subseteq S
        closed == {S \in {start \cup more : more \in SUBSET (DOMAIN h \ start)} : Closed(S)}
    IN  {n \in DOMAIN h : \A S \in closed : n \in S}

----------------------------------------------------------------------------
\* Follow _parent from n as long as the caller goes on at the node, which it does
\* at those of G; the result is not in DOMAIN h when a pointer to no live node is
\* followed.
Up(h, G, m) == IF m \in G /\ h[m].parent # Null THEN h[m].parent ELSE m

Climb(h, n, G) ==
    LET at[k \in 0 .. Cardinality(Nodes)] == IF k = 0 THEN n ELSE Up(h, G, at[k - 1])
    IN  at[Cardinality(Nodes)]

\* isWritable stops at a node that no model manages.
Managed(h) == {m \in DOMAIN h : h[m].managed}
WritableTop(h, n) == Climb(h, n, Managed(h))

\* Slip: the state of the top node is not looked at.
IsWritableDetached(h, n, modelWritable) ==
    h[WritableTop(h, n)].managed => modelWritable

IsWritable(h, n, modelWritable) ==
    LET t == WritableTop(h, n)
    IN  h[t].managed => modelWritable /\ h[t].state # "Detached"

\* isDetached stops at a free node and at one that was removed itself.
ActiveIn(h) == {m \in DOMAIN h : h[m].state = "Active"}
DetachedTop(h, n) == Climb(h, n, ActiveIn(h))

IsDetached(h, n) == h[DetachedTop(h, n)].state = "Detached"

\* Every pointer that isWritable and isDetached follow from n is good, and they
\* come to an end.
Ends(h, G, m) == m \in DOMAIN h /\ Up(h, G, m) = m
Intact(h, n) ==
    Ends(h, Managed(h), WritableTop(h, n)) /\ Ends(h, ActiveIn(h), DetachedTop(h, n))

\* The order in which propagate goes through a node and all below it, a node as
\* often as it stands there.  No chain has more nodes than there are.
Preorder(h, n) ==
    LET below[k \in 0 .. Cardinality(Nodes), m \in DOMAIN h] ==
            IF k = 0 \/ m \notin VectorNodes THEN <<m>>
            ELSE <<m>> \o Lists!FlattenSeq(
                    [i \in DOMAIN h[m].items |-> below[k - 1, h[m].items[i]]])
    IN  below[Cardinality(Nodes), n]

----------------------------------------------------------------------------
(***************************************************************************)
(* Actions.                                                                *)
(***************************************************************************)
VectorInsDelAction ==
    [type : {"VectorInsert", "VectorRemove"}, parent : VectorNodes,
     index : Nat, items : Seq(Nodes)]
BytesAction ==
    [type : {"BytesInsert", "BytesRemove"}, parent : BytesNodes,
     index : Nat, items : Seq(Bytes)]
BytesReplaceAction ==
    {a \in [type : {"BytesReplace"}, parent : BytesNodes,
            index : Nat, items : Seq(Bytes), old : Seq(Bytes)] :
        Len(a.old) = Len(a.items)}
VectorMoveAction ==
    {a \in [type : {"VectorMove"}, parent : VectorNodes,
            index : Nat, count : Nat, dest : Nat] :
        a.dest \notin a.index .. a.index + a.count - 1}

Action ==
    VectorInsDelAction \cup BytesAction \cup BytesReplaceAction \cup VectorMoveAction

\* Slip: the sense of `inserted' is turned round.
QueryRemoved(a) == IF a.type = "VectorRemove" THEN Elements(a.items) ELSE {}

\* queryNodes(true): what the action inserted.
QueryInserted(a) == IF a.type = "VectorInsert" THEN Elements(a.items) ELSE {}

\* The nodes an action keeps alive.
Refs(a) ==
    {a.parent} \cup
    IF a.type \in {"VectorInsert", "VectorRemove"} THEN Elements(a.items) ELSE {}

\* (_type == VectorRemove) ^ undo, (_type == BytesRemove) ^ undo
Erases(a, undo) == (a.type \in {"VectorRemove", "BytesRemove"}) # undo

\* VectorMoveAction::execute: the move to make.
MoveIndex(a, undo) ==
    IF ~undo THEN a.index
    ELSE IF a.dest > a.index THEN a.dest - a.count ELSE a.dest
MoveDest(a, undo) ==
    IF ~undo THEN a.dest
    ELSE IF a.dest > a.index THEN a.index ELSE a.index + a.count

\* The iterators that execute uses stay inside the vector.
Executable(h, a, undo) ==
    LET size == Len(h[a.parent].items)
    IN  CASE a.type = "VectorMove" ->
               ArrayMoveDefined(h[a.parent].items,
                                MoveIndex(a, undo), a.count, MoveDest(a, undo))
          [] a.type = "BytesReplace" -> a.index + Len(a.items) <= size
          [] OTHER -> a.index + (IF Erases(a, undo) THEN Len(a.items) ELSE 0) <= size

\* Slip: the undo of a replacement writes the new bytes again.
NewItemsWithoutOld(s, a, undo) ==
    CASE a.type = "VectorMove" ->
           ArrayMove(s, MoveIndex(a, undo), a.count, MoveDest(a, undo))
      [] a.type = "BytesReplace" -> Overwritten(s, a.index, a.items)
      [] OTHER -> IF Erases(a, undo) THEN Erased(s, a.index, Len(a.items))
                                     ELSE Inserted(s, a.index, a.items)

\* The parent's _vec or _data afterwards.
NewItems(s, a, undo) ==
    CASE a.type = "VectorMove" ->
           ArrayMove(s, MoveIndex(a, undo), a.count, MoveDest(a, undo))
      [] a.type = "BytesReplace" ->
           Overwritten(s, a.index, IF undo THEN a.old ELSE a.items)
      [] OTHER -> IF Erases(a, undo) THEN Erased(s, a.index, Len(a.items))
                                     ELSE Inserted(s, a.index, a.items)

\* removeChild is called on what stands in the vector, addChild on what the
\* action recorded.
Unlinked(h, a, undo) ==
    IF a.type \in {"VectorInsert", "VectorRemove"} /\ Erases(a, undo)
    THEN Elements(Slice(h[a.parent].items, a.index, Len(a.items)))
    ELSE {}
Linked(a, undo) ==
    IF a.type \in {"VectorInsert", "VectorRemove"} /\ ~Erases(a, undo)
    THEN Elements(a.items)
    ELSE {}

\* Slips: the removed node is not marked; it loses its id; the node that is
\* put back keeps its mark.
RemovedUnmarked(f, byModel) == [f EXCEPT !.parent = Null]
RemovedWithoutId(f, byModel) ==
    [f EXCEPT !.parent = Null, !.state = IF byModel THEN "Detached" ELSE @, !.id = 0]
AddedMarked(f, p) == [f EXCEPT !.parent = p]

\* removeChild and addChild.
Removed(f, byModel) ==
    [f EXCEPT !.parent = Null, !.state = IF byModel THEN "Detached" ELSE @]
Added(f, p) ==
    [f EXCEPT !.parent = p, !.state = "Active"]

\* The heap after the action is executed, forwards or backwards.
Executed(h, a, undo) ==
    LET p == a.parent
        items == NewItems(h[p].items, a, undo)
    IN  [n \in DOMAIN h |->
            IF n \in Unlinked(h, a, undo) THEN Removed(h[n], h[p].managed)
            ELSE IF n \in Linked(a, undo) THEN Added(h[n], p)
            ELSE IF n = p THEN [h[n] EXCEPT !.items = items]
            ELSE h[n]]
=============================================================================
