--------------------------- MODULE NodeTreeProofs ---------------------------
(***************************************************************************)
(* Lemmas about NodeTree: the types that the execution of an action keeps, *)
(* what a node reaches, the paths that recorded actions lead along from    *)
(* one content of the nodes to another, and what a move leaves undone.     *)
(***************************************************************************)
EXTENDS NodeTree, SpliceProofs

\* The nodes of a heap have the fields of their kind.
HeapOK(h) ==
    /\ DOMAIN h \subseteq Nodes
    /\ \A n \in DOMAIN h : h[n] \in NodeFields(n)

\* A vector is only executed on where it is long enough, and what results
\* is a vector of the same kind.
LEMMA NewItemsType ==
    ASSUME NEW h, HeapOK(h), NEW a \in Action, NEW undo \in BOOLEAN,
           a.parent \in DOMAIN h, Executable(h, a, undo)
    PROVE  NewItems(h[a.parent].items, a, undo) \in
              Seq(IF a.parent \in VectorNodes THEN Nodes ELSE Bytes)
<1> DEFINE p == a.parent
           s == h[p].items
           S == IF p \in VectorNodes THEN Nodes ELSE Bytes
<1>1. s \in Seq(S) /\ Len(s) \in Nat
  BY LenProperties DEF HeapOK, NodeFields
<1>2. ASSUME a \in VectorMoveAction
      PROVE  NewItems(s, a, undo) \in Seq(S)
  <2>1. /\ a.type = "VectorMove"
        /\ a.index \in Nat /\ a.count \in Nat /\ a.dest \in Nat
        /\ a.dest \notin a.index .. a.index + a.count - 1
    BY <1>2 DEF VectorMoveAction
  <2>2. MoveIndex(a, undo) \in Nat /\ MoveDest(a, undo) \in Nat
    BY <2>1 DEF MoveIndex, MoveDest
  <2>3. ArrayMoveDefined(s, MoveIndex(a, undo), a.count, MoveDest(a, undo))
    BY <2>1 DEF Executable
  <2>4. ArrayMove(s, MoveIndex(a, undo), a.count, MoveDest(a, undo)) \in Seq(S)
    BY <1>1, <2>1, <2>2, <2>3, ArrayMoveType
  <2> QED
    BY <2>1, <2>4 DEF NewItems
<1>3. ASSUME a \in BytesReplaceAction
      PROVE  NewItems(s, a, undo) \in Seq(S)
  <2>1. /\ a.type = "BytesReplace" /\ a.index \in Nat
        /\ a.items \in Seq(S) /\ a.old \in Seq(S)
        /\ Len(a.old) = Len(a.items)
    BY <1>3, NodeTreeAssumption DEF BytesReplaceAction
  <2>2. a.index + Len(a.items) <= Len(s)
    BY <2>1 DEF Executable
  <2>3. /\ Overwritten(s, a.index, a.items) \in Seq(S)
        /\ Overwritten(s, a.index, a.old) \in Seq(S)
    BY <1>1, <2>1, <2>2, OverwrittenFacts
  <2> QED
    BY <2>1, <2>3 DEF NewItems
<1>4. ASSUME a \in VectorInsDelAction \cup BytesAction
      PROVE  NewItems(s, a, undo) \in Seq(S)
  <2>1. a.items \in Seq(S) /\ a.index \in Nat /\ Len(a.items) \in Nat
    BY <1>4, NodeTreeAssumption, LenProperties DEF VectorInsDelAction, BytesAction
  <2>2. a.type # "VectorMove" /\ a.type # "BytesReplace"
    BY <1>4 DEF VectorInsDelAction, BytesAction
  <2>3. a.index + (IF Erases(a, undo) THEN Len(a.items) ELSE 0) <= Len(s)
    BY <2>2 DEF Executable
  <2>4. CASE Erases(a, undo)
    <3>1. Erased(s, a.index, Len(a.items)) \in Seq(S)
      BY <1>1, <2>1, <2>3, <2>4, ErasedFacts
    <3> QED
      BY <2>2, <2>4, <3>1 DEF NewItems
  <2>5. CASE ~Erases(a, undo)
    <3>1. a.index <= Len(s)
      BY <1>1, <2>1, <2>3, <2>5
    <3>2. Inserted(s, a.index, a.items) \in Seq(S)
      BY <1>1, <2>1, <3>1, InsertedFacts
    <3> QED
      BY <2>2, <2>5, <3>2 DEF NewItems
  <2> QED
    BY <2>4, <2>5
<1> QED
  BY <1>2, <1>3, <1>4 DEF Action

\* Executing an action, in either direction, keeps the types, and changes
\* neither who is alive nor any id or model.
LEMMA ExecutedFacts ==
    ASSUME NEW h, HeapOK(h), NEW a \in Action, NEW undo \in BOOLEAN,
           Executable(h, a, undo)
    PROVE  /\ HeapOK(Executed(h, a, undo))
           /\ DOMAIN Executed(h, a, undo) = DOMAIN h
           /\ \A n \in DOMAIN h : Executed(h, a, undo)[n].id = h[n].id
<1> DEFINE p == a.parent
           e == Executed(h, a, undo)
<1>1. DOMAIN e = DOMAIN h
  BY DEF Executed
<1>2. ASSUME NEW n \in DOMAIN h
      PROVE  e[n] \in NodeFields(n) /\ e[n].id = h[n].id
  <2>1. n \in Nodes /\ h[n] \in NodeFields(n)
    BY DEF HeapOK
  <2>2. CASE n \in Unlinked(h, a, undo)
    <3>1. e[n] = Removed(h[n], h[p].managed)
      BY <2>2 DEF Executed
    <3> QED
      BY <2>1, <3>1 DEF Removed, NodeFields, NodeState
  <2>3. CASE n \notin Unlinked(h, a, undo) /\ n \in Linked(a, undo)
    <3>1. e[n] = Added(h[n], p)
      BY <2>3 DEF Executed
    <3>2. p \in Nodes
      BY DEF Action, VectorInsDelAction, BytesAction, BytesReplaceAction,
             VectorMoveAction, Nodes
    <3> QED
      BY <2>1, <3>1, <3>2 DEF Added, NodeFields, NodeState
  <2>4. CASE n \notin Unlinked(h, a, undo) /\ n \notin Linked(a, undo) /\ n = p
    <3>1. e[n] = [h[n] EXCEPT !.items = NewItems(h[p].items, a, undo)]
      BY <2>4 DEF Executed
    <3>2. NewItems(h[p].items, a, undo) \in
             Seq(IF n \in VectorNodes THEN Nodes ELSE Bytes)
      BY <2>4, NewItemsType
    <3> QED
      BY <2>1, <3>1, <3>2 DEF NodeFields
  <2>5. CASE n \notin Unlinked(h, a, undo) /\ n \notin Linked(a, undo) /\ n # p
    <3>1. e[n] = h[n]
      BY <2>5 DEF Executed
    <3> QED
      BY <2>1, <3>1
  <2> QED
    BY <2>2, <2>3, <2>4, <2>5
<1> QED
  BY <1>1, <1>2 DEF HeapOK

\* An insertion of bytes makes the node longer by them.
LEMMA BytesInsertGrows ==
    ASSUME NEW h, HeapOK(h), NEW a \in BytesAction, a.type = "BytesInsert",
           a.parent \in DOMAIN h, Executable(h, a, FALSE)
    PROVE  Len(Executed(h, a, FALSE)[a.parent].items)
              = Len(h[a.parent].items) + Len(a.items)
<1> DEFINE p == a.parent
           s == h[p].items
<1>1. /\ p \in BytesNodes /\ p \notin VectorNodes
      /\ a.index \in Nat /\ a.items \in Seq(Bytes)
  BY NodeTreeAssumption DEF BytesAction
<1>2. h[p] \in NodeFields(p) /\ s \in Seq(Bytes) /\ Len(s) \in Nat
  BY <1>1, LenProperties DEF HeapOK, NodeFields
<1>3. ~Erases(a, FALSE)
  <2>1. a.type \notin {"VectorRemove", "BytesRemove"}
    OBVIOUS
  <2>2. (a.type \in {"VectorRemove", "BytesRemove"}) = FALSE
    BY <2>1
  <2> QED
    BY <2>2 DEF Erases
<1>4. a.index <= Len(s)
  BY <1>1, <1>2, <1>3 DEF Executable
<1>5. NewItems(s, a, FALSE) = Inserted(s, a.index, a.items)
  BY <1>3 DEF NewItems
<1>6. Executed(h, a, FALSE)[p] = [h[p] EXCEPT !.items = NewItems(s, a, FALSE)]
  BY DEF Executed, Unlinked, Linked
<1>7. Executed(h, a, FALSE)[p].items = Inserted(s, a.index, a.items)
  BY <1>2, <1>5, <1>6 DEF NodeFields
<1> HIDE DEF s, p
<1> DEFINE t == a.items
           i == a.index
<1>8. Len(Inserted(s, i, t)) = Len(s) + Len(t)
  <2>1. s \in Seq(Bytes) /\ t \in Seq(Bytes) /\ i \in Nat /\ i <= Len(s)
    BY <1>1, <1>2, <1>4
  <2> HIDE DEF t, i
  <2>2. Inserted(s, i, t) \in Seq(Bytes) /\ Len(Inserted(s, i, t)) = Len(s) + Len(t)
    BY <2>1, InsertedFacts
  <2> QED
    BY <2>2
<1> QED
  BY <1>7, <1>8 DEF s, p

----------------------------------------------------------------------------
(***************************************************************************)
(* What nodes own.  A content m maps nodes to their elements.              *)
(***************************************************************************)
Contents(h) == [n \in DOMAIN h |-> h[n].items]

Kids(m, n) == IF n \in VectorNodes THEN Elements(m[n]) ELSE {}

\* The nodes in A own no live node outside of A.
ClosedIn(m, A) == \A n \in A \cap DOMAIN m : Kids(m, n) \cap DOMAIN m \subseteq A

\* Reach, of a content.
Within(m, from) ==
    {n \in DOMAIN m :
        \A S \in SUBSET DOMAIN m :
            from \cap DOMAIN m \subseteq S /\ ClosedIn(m, S) => n \in S}

LEMMA WithinFacts ==
    ASSUME NEW m, NEW from
    PROVE  /\ Within(m, from) \subseteq DOMAIN m
           /\ from \cap DOMAIN m \subseteq Within(m, from)
           /\ ClosedIn(m, Within(m, from))
           /\ \A S : from \cap DOMAIN m \subseteq S /\ ClosedIn(m, S)
                    => Within(m, from) \subseteq S
<1> DEFINE W == Within(m, from)
           Good(S) == from \cap DOMAIN m \subseteq S /\ ClosedIn(m, S)
<1>1. W \subseteq DOMAIN m /\ from \cap DOMAIN m \subseteq W
  BY DEF Within
<1>2. ASSUME NEW n \in W, NEW x \in Kids(m, n) \cap DOMAIN m
      PROVE  x \in W
  <2>1. ASSUME NEW S \in SUBSET DOMAIN m, Good(S)
        PROVE  x \in S
    <3>1. n \in S \cap DOMAIN m
      BY <2>1 DEF Within
    <3> QED
      BY <2>1, <3>1 DEF ClosedIn
  <2> QED
    BY <2>1 DEF Within
<1>3. ASSUME NEW S, Good(S) PROVE W \subseteq S
  <2> DEFINE T == S \cap DOMAIN m
  <2>1. T \in SUBSET DOMAIN m /\ Good(T)
    BY <1>3 DEF ClosedIn
  <2> HIDE DEF T
  <2>2. W \subseteq T
    BY <2>1 DEF Within
  <2> QED
    BY <2>2 DEF T
<1> QED
  BY <1>1, <1>2, <1>3 DEF ClosedIn

LEMMA ContentsFacts ==
    ASSUME NEW h
    PROVE  /\ DOMAIN Contents(h) = DOMAIN h
           /\ \A n \in DOMAIN h : Contents(h)[n] = h[n].items
           /\ \A n \in DOMAIN h : Kids(Contents(h), n) = Children(h, n)
BY DEF Contents, Kids, Children

LEMMA ReachIsWithin ==
    ASSUME NEW h, NEW from PROVE Reach(h, from) = Within(Contents(h), from)
<1> DEFINE start == from \cap DOMAIN h
           m == Contents(h)
           Closed(S) == \A n \in S : Children(h, n) \cap DOMAIN h \subseteq S
           closed == {S \in {start \cup more : more \in SUBSET (DOMAIN h \ start)} : Closed(S)}
           good == {S \in SUBSET DOMAIN m : from \cap DOMAIN m \subseteq S /\ ClosedIn(m, S)}
<1>1. DOMAIN m = DOMAIN h /\ \A n \in DOMAIN h : Kids(m, n) = Children(h, n)
  BY ContentsFacts
<1> HIDE DEF m
<1>2. ASSUME NEW S \in SUBSET DOMAIN h PROVE Closed(S) <=> ClosedIn(m, S)
  BY <1>1 DEF ClosedIn
<1>3. ASSUME NEW S PROVE S \in closed <=> S \in good
  <2>1. ASSUME S \in closed PROVE S \in good
    <3>1. S \in SUBSET DOMAIN h /\ start \subseteq S /\ Closed(S)
      BY <2>1
    <3> QED
      BY <1>1, <1>2, <3>1
  <2>2. ASSUME S \in good PROVE S \in closed
    <3>1. S \in SUBSET DOMAIN h /\ start \subseteq S /\ ClosedIn(m, S)
      BY <1>1, <2>2
    <3>2. S = start \cup (S \ start) /\ S \ start \in SUBSET (DOMAIN h \ start)
      BY <3>1
    <3> QED
      BY <1>2, <3>1, <3>2
  <2> QED
    BY <2>1, <2>2
<1>4. Reach(h, from) = {n \in DOMAIN h : \A S \in closed : n \in S}
  BY DEF Reach
<1>5. Within(m, from) = {n \in DOMAIN m : \A S \in good : n \in S}
  BY DEF Within
<1> HIDE DEF closed, good
<1> QED
  BY <1>1, <1>3, <1>4, <1>5 DEF m

LEMMA ReachFacts ==
    ASSUME NEW h, NEW from
    PROVE  /\ Reach(h, from) \subseteq DOMAIN h
           /\ from \cap DOMAIN h \subseteq Reach(h, from)
           /\ ClosedIn(Contents(h), Reach(h, from))
           /\ \A S : from \cap DOMAIN h \subseteq S /\ ClosedIn(Contents(h), S)
                    => Reach(h, from) \subseteq S
BY ReachIsWithin, WithinFacts, ContentsFacts

----------------------------------------------------------------------------
(***************************************************************************)
(* Contents that are forests.                                              *)
(***************************************************************************)

\* A node stands once in one vector, and none owns itself, however indirectly.
Forest(m) ==
    /\ \A p, q \in DOMAIN m \cap VectorNodes :
          \A i \in DOMAIN m[p], j \in DOMAIN m[q] :
             m[p][i] = m[q][j] => p = q /\ i = j
    /\ \A S \in SUBSET DOMAIN m :
          S # {} => \E n \in S : \A p \in S : n \notin Kids(m, p)

\* m gives elements to the nodes in D: those of a vector are nodes of D, but
\* none of F.
ContentOK(m, D, F) ==
    /\ D \subseteq Nodes
    /\ m = [n \in D |-> m[n]]
    /\ \A n \in D : m[n] \in Seq(IF n \in VectorNodes THEN Nodes ELSE Bytes)
    /\ \A n \in D : Kids(m, n) \subseteq D \ F
    /\ Forest(m)

\* The content of the nodes in D, if m tells that of those it knows and e that
\* of the others.
Recast(m, D, e) == [n \in D |-> IF n \in DOMAIN m THEN m[n] ELSE e[n]]

LEMMA RecastOK ==
    ASSUME NEW D, NEW F, NEW D2, NEW F2, NEW m, NEW e,
           ContentOK(m, D, F), ClosedIn(m, D2), F2 \cap D \subseteq F,
           ContentOK(e, D2 \ D, F2)
    PROVE  ContentOK(Recast(m, D2, e), D2, F2)
<1> DEFINE r == Recast(m, D2, e)
<1>1. /\ DOMAIN m = D /\ DOMAIN e = D2 \ D
      /\ D \subseteq Nodes /\ D2 \subseteq Nodes
  BY DEF ContentOK
<1>2. /\ DOMAIN r = D2 /\ r = [n \in D2 |-> r[n]]
      /\ \A n \in D2 : r[n] = IF n \in D THEN m[n] ELSE e[n]
  BY <1>1 DEF Recast
<1> HIDE DEF r
<1>3. \A n \in D2 \cap D : Kids(r, n) = Kids(m, n)
  BY <1>2 DEF Kids
<1>4. \A n \in D2 \ D : Kids(r, n) = Kids(e, n)
  BY <1>2 DEF Kids
<1>5. \A n \in D2 \cap D : Kids(m, n) \subseteq (D \cap D2) \ F2
  BY <1>1 DEF ContentOK, ClosedIn
<1>6. \A n \in D2 \ D : Kids(e, n) \subseteq (D2 \ D) \ F2
  BY DEF ContentOK
<1>7. \A n \in D2 : r[n] \in Seq(IF n \in VectorNodes THEN Nodes ELSE Bytes)
  BY <1>2 DEF ContentOK
<1>8. \A n \in D2 : Kids(r, n) \subseteq D2 \ F2
  BY <1>3, <1>4, <1>5, <1>6
<1>9. ASSUME NEW p \in D2 \cap VectorNodes, NEW q \in D2 \cap VectorNodes,
             NEW i \in DOMAIN r[p], NEW j \in DOMAIN r[q], r[p][i] = r[q][j]
      PROVE  p = q /\ i = j
  <2>1. r[p][i] \in Kids(r, p) /\ r[q][j] \in Kids(r, q)
    BY DEF Kids, Elements
  <2>2. CASE p \in D /\ q \in D
    BY <1>1, <1>2, <1>9, <2>2 DEF ContentOK, Forest
  <2>3. CASE p \notin D /\ q \notin D
    BY <1>1, <1>2, <1>9, <2>3 DEF ContentOK, Forest
  <2>4. CASE (p \in D) # (q \in D)
    BY <1>3, <1>4, <1>5, <1>6, <1>9, <2>1, <2>4
  <2> QED
    BY <2>2, <2>3, <2>4
<1>10. ASSUME NEW S \in SUBSET D2, S # {}
       PROVE  \E n \in S : \A p \in S : n \notin Kids(r, p)
  <2>1. CASE S \subseteq D
    <3>1. PICK n \in S : \A p \in S : n \notin Kids(m, p)
      BY <1>1, <1>10, <2>1 DEF ContentOK, Forest
    <3> QED
      BY <1>3, <2>1, <3>1
  <2>2. CASE ~(S \subseteq D)
    <3>1. S \ D \in SUBSET DOMAIN e /\ S \ D # {}
      BY <1>1, <2>2
    <3>2. PICK n \in S \ D : \A p \in S \ D : n \notin Kids(e, p)
      BY <3>1 DEF ContentOK, Forest
    <3>3. \A p \in S : n \notin Kids(r, p)
      BY <1>3, <1>4, <1>5, <3>2
    <3> QED
      BY <3>2, <3>3
  <2> QED
    BY <2>1, <2>2
<1>11. Forest(r)
  BY <1>2, <1>9, <1>10 DEF Forest
<1> QED
  BY <1>1, <1>2, <1>7, <1>8, <1>11 DEF ContentOK, r

----------------------------------------------------------------------------
(***************************************************************************)
(* What an action changes.                                                 *)
(***************************************************************************)

\* A vector is split into a part and the rest.
LEMMA SplitFacts ==
    ASSUME NEW S, NEW s \in Seq(S), NEW i \in Nat, NEW n \in Nat,
           i + n <= Len(s)
    PROVE  /\ Elements(s) = Elements(Erased(s, i, n)) \cup Elements(Slice(s, i, n))
           /\ (\A j, k \in DOMAIN s : s[j] = s[k] => j = k)
                 => Elements(Erased(s, i, n)) \cap Elements(Slice(s, i, n)) = {}
<1> DEFINE r == Erased(s, i, n)
           b == Slice(s, i, n)
<1>1. /\ r \in Seq(S) /\ Len(r) = Len(s) - n
      /\ \A k \in 1 .. Len(s) - n : r[k] = IF k <= i THEN s[k] ELSE s[k + n]
  <2>1. s \in Seq(S) /\ i \in Nat /\ n \in Nat /\ i + n <= Len(s)
    OBVIOUS
  <2> QED
    BY ONLY <2>1, ErasedFacts, SMTT(30)
<1>2. /\ b \in Seq(S) /\ Len(b) = n
      /\ \A k \in 1 .. n : b[k] = s[i + k]
  BY SliceFacts
<1> HIDE DEF r, b
<1>3. /\ DOMAIN s = 1 .. Len(s) /\ Len(s) \in Nat
      /\ DOMAIN r = 1 .. Len(s) - n /\ DOMAIN b = 1 .. n
  BY <1>1, <1>2, LenProperties
<1>4. ASSUME NEW k \in DOMAIN s
      PROVE  s[k] \in Elements(r) \cup Elements(b)
  <2>1. CASE k <= i
    <3>1. k \in DOMAIN r /\ r[k] = s[k]
      BY <1>1, <1>3, <2>1
    <3> QED
      BY <3>1 DEF Elements
  <2>2. CASE k > i /\ k <= i + n
    <3>1. k - i \in DOMAIN b /\ b[k - i] = s[k]
      BY <1>2, <1>3, <2>2
    <3> QED
      BY <3>1 DEF Elements
  <2>3. CASE k > i + n
    <3>1. k - n \in DOMAIN r /\ ~(k - n <= i) /\ (k - n) + n = k
      BY <1>3, <2>3
    <3>2. r[k - n] = s[k]
      BY <1>1, <1>3, <3>1
    <3> QED
      BY <3>1, <3>2 DEF Elements
  <2> QED
    BY <1>3, <2>1, <2>2, <2>3
<1> DEFINE At(k) == IF k <= i THEN k ELSE k + n
<1>5. \A k \in DOMAIN r : At(k) \in DOMAIN s /\ r[k] = s[At(k)] /\ At(k) \notin i + 1 .. i + n
  BY <1>1, <1>3
<1>6. \A k \in DOMAIN b : i + k \in DOMAIN s /\ b[k] = s[i + k] /\ i + k \in i + 1 .. i + n
  BY <1>2, <1>3
<1> HIDE DEF At
<1>7. Elements(s) = Elements(r) \cup Elements(b)
  BY <1>4, <1>5, <1>6 DEF Elements
<1>8. ASSUME \A j, k \in DOMAIN s : s[j] = s[k] => j = k
      PROVE  Elements(r) \cap Elements(b) = {}
  <2>1. ASSUME NEW j \in DOMAIN r, NEW k \in DOMAIN b, r[j] = b[k] PROVE FALSE
    <3>1. At(j) = i + k
      BY <1>5, <1>6, <1>8, <2>1
    <3> QED
      BY <1>5, <1>6, <3>1
  <2> QED
    BY <2>1 DEF Elements
<1> QED
  BY <1>7, <1>8 DEF r, b

\* What was inserted stands where it was inserted.
LEMMA InsertedSlice ==
    ASSUME NEW S, NEW s \in Seq(S), NEW t \in Seq(S), NEW i \in Nat,
           i <= Len(s)
    PROVE  /\ Slice(Inserted(s, i, t), i, Len(t)) = t
           /\ i + Len(t) <= Len(Inserted(s, i, t))
<1> DEFINE u == Inserted(s, i, t)
           n == Len(t)
           b == Slice(u, i, n)
<1>1. /\ u \in Seq(S) /\ Len(u) = Len(s) + Len(t)
      /\ \A k \in 1 .. Len(s) + Len(t) :
            u[k] = IF k <= i THEN s[k]
                   ELSE IF k <= i + Len(t) THEN t[k - i] ELSE s[k - Len(t)]
  BY InsertedFacts
<1>2. Len(s) \in Nat /\ n \in Nat /\ DOMAIN t = 1 .. n
  BY LenProperties
<1> HIDE DEF u
<1>3. i + n <= Len(u)
  BY <1>1, <1>2
<1>4. b \in Seq(S) /\ Len(b) = n /\ \A k \in 1 .. n : b[k] = u[i + k]
  <2>1. u \in Seq(S) /\ i \in Nat /\ n \in Nat /\ i + n <= Len(u)
    BY <1>1, <1>2, <1>3
  <2> HIDE DEF n
  <2> QED
    BY ONLY <2>1, SliceFacts, SMTT(30)
<1>5. ASSUME NEW k \in 1 .. n PROVE b[k] = t[k]
  <2>1. /\ i + k \in 1 .. Len(s) + Len(t)
        /\ ~(i + k <= i) /\ i + k <= i + Len(t) /\ (i + k) - i = k
    BY <1>2
  <2>2. u[i + k] = t[(i + k) - i]
    BY <1>1, <2>1
  <2> QED
    BY <1>4, <2>1, <2>2
<1>6. b = t
  BY <1>2, <1>4, <1>5, SeqEqual
<1> QED
  BY <1>3, <1>6 DEF u

\* The action takes elements away, or replaces them.
Takes(a, undo) ==
    \/ a.type = "BytesReplace"
    \/ a.type \in IF undo THEN {"VectorInsert", "BytesInsert"}
                         ELSE {"VectorRemove", "BytesRemove"}

\* With the elements s of its parent, the action can be executed.
Possible(s, a, undo) ==
    a.index + (IF Takes(a, undo) THEN Len(a.items) ELSE 0) <= Len(s)

\* The action fits the elements s of its parent: its positions stand in it, and
\* what it took away was there.
Fits(s, a) ==
    /\ a.type # "VectorMove"
    /\ Possible(s, a, FALSE)
    /\ a.type \in {"VectorRemove", "BytesRemove"} =>
          Slice(s, a.index, Len(a.items)) = a.items
    /\ a.type = "BytesReplace" => Slice(s, a.index, Len(a.items)) = a.old

LEMMA ErasesFacts ==
    ASSUME NEW a
    PROVE  /\ Erases(a, FALSE) <=> a.type \in {"VectorRemove", "BytesRemove"}
           /\ Erases(a, TRUE) <=> a.type \notin {"VectorRemove", "BytesRemove"}
<1>1. CASE a.type \in {"VectorRemove", "BytesRemove"}
  <2>1. (a.type \in {"VectorRemove", "BytesRemove"}) = TRUE
    BY <1>1
  <2> QED
    BY <1>1, <2>1 DEF Erases
<1>2. CASE a.type \notin {"VectorRemove", "BytesRemove"}
  <2>1. (a.type \in {"VectorRemove", "BytesRemove"}) = FALSE
    BY <1>2
  <2> QED
    BY <1>2, <2>1 DEF Erases
<1> QED
  BY <1>1, <1>2

KindOf(p) == IF p \in VectorNodes THEN Nodes ELSE Bytes

\* What an action that fits carries, and the parent it can have.
LEMMA ActionFacts ==
    ASSUME NEW a \in Action, a.type # "VectorMove"
    PROVE  /\ a.type \in {"VectorInsert", "VectorRemove", "BytesInsert",
                          "BytesRemove", "BytesReplace"}
           /\ a.parent \in Nodes /\ a.index \in Nat
           /\ a.items \in Seq(KindOf(a.parent)) /\ Len(a.items) \in Nat
           /\ a.type \in {"VectorInsert", "VectorRemove"} <=> a.parent \in VectorNodes
           /\ a.type = "BytesReplace" =>
                 a.old \in Seq(KindOf(a.parent)) /\ Len(a.old) = Len(a.items)
<1>1. CASE a \in VectorInsDelAction
  BY <1>1, LenProperties DEF VectorInsDelAction, KindOf, Nodes
<1>2. CASE a \in BytesAction
  BY <1>2, NodeTreeAssumption, LenProperties DEF BytesAction, KindOf, Nodes
<1>3. CASE a \in BytesReplaceAction
  BY <1>3, NodeTreeAssumption, LenProperties DEF BytesReplaceAction, KindOf, Nodes
<1>4. a \notin VectorMoveAction
  BY DEF VectorMoveAction
<1> QED
  BY <1>1, <1>2, <1>3, <1>4 DEF Action

\* The elements big are the elements small with those of the action.
Holds(big, a, small) ==
    /\ a.index + Len(a.items) <= Len(big)
    /\ Slice(big, a.index, Len(a.items)) = a.items
    /\ Erased(big, a.index, Len(a.items)) = small

\* An action that fits can be executed, and its undo brings back what was there
\* (VectorInsDelAction, BytesAction and BytesReplaceAction::execute).
LEMMA FitsFacts ==
    ASSUME NEW a \in Action, NEW s \in Seq(KindOf(a.parent)), Fits(s, a)
    PROVE  /\ NewItems(s, a, FALSE) \in Seq(KindOf(a.parent))
           /\ NewItems(NewItems(s, a, FALSE), a, TRUE) = s
           /\ Possible(s, a, FALSE)
           /\ Possible(NewItems(s, a, FALSE), a, TRUE)
           /\ a.type = "VectorInsert" => Holds(NewItems(s, a, FALSE), a, s)
           /\ a.type = "VectorRemove" => Holds(s, a, NewItems(s, a, FALSE))
<1> DEFINE S == KindOf(a.parent)
           t == NewItems(s, a, FALSE)
           b == a.items
           n == Len(a.items)
           i == a.index
<1>1. /\ a.type \in {"VectorInsert", "VectorRemove", "BytesInsert",
                     "BytesRemove", "BytesReplace"}
      /\ i \in Nat /\ b \in Seq(S) /\ n \in Nat
      /\ s \in Seq(S) /\ Len(s) \in Nat
  BY ActionFacts, LenProperties DEF Fits
<1>2. /\ Erases(a, FALSE) <=> a.type \in {"VectorRemove", "BytesRemove"}
      /\ Erases(a, TRUE) <=> a.type \notin {"VectorRemove", "BytesRemove"}
  BY ErasesFacts
<1>3. CASE a.type \in {"VectorInsert", "BytesInsert"}
  <2>1. i <= Len(s)
    BY <1>1, <1>3 DEF Fits, Possible, Takes
  <2>2. /\ t = Inserted(s, i, b)
        /\ NewItems(t, a, TRUE) = Erased(t, i, n)
    BY <1>2, <1>3 DEF NewItems
  <2> DEFINE u == Inserted(s, i, b)
  <2>3. u \in Seq(S) /\ Erased(u, i, n) = s /\ Slice(u, i, n) = b /\ i + n <= Len(u)
    <3>1. s \in Seq(S) /\ b \in Seq(S) /\ i \in Nat /\ i <= Len(s)
      BY <1>1, <2>1
    <3> HIDE DEF S, b, i
    <3>2. u \in Seq(S)
      BY ONLY <3>1, InsertedFacts, SMTT(30)
    <3>3. Erased(u, i, Len(b)) = s
      BY ONLY <3>1, InsertUndone, SMTT(30)
    <3>4. Slice(u, i, Len(b)) = b /\ i + Len(b) <= Len(u)
      BY ONLY <3>1, InsertedSlice, SMTT(30)
    <3>5. n = Len(b)
      BY DEF b
    <3> QED
      BY <3>2, <3>3, <3>4, <3>5
  <2>4. t \in Seq(S) /\ Erased(t, i, n) = s /\ Slice(t, i, n) = b /\ i + n <= Len(t)
    BY <2>2, <2>3
  <2> HIDE DEF t, u
  <2>5. Possible(s, a, FALSE) /\ Possible(t, a, TRUE)
    BY <1>1, <1>3, <2>1, <2>4 DEF Possible, Takes
  <2>6. Holds(t, a, s)
    BY <2>4 DEF Holds
  <2>7. t \in Seq(S) /\ NewItems(t, a, TRUE) = s
    BY <2>2, <2>4
  <2> QED
    BY <1>3, <2>5, <2>6, <2>7 DEF t
<1>4. CASE a.type \in {"VectorRemove", "BytesRemove"}
  <2>1. i + n <= Len(s) /\ Slice(s, i, n) = b
    BY <1>1, <1>4 DEF Fits, Possible, Takes
  <2>2. /\ t = Erased(s, i, n)
        /\ NewItems(t, a, TRUE) = Inserted(t, i, b)
    BY <1>2, <1>4 DEF NewItems
  <2> DEFINE u == Erased(s, i, n)
  <2>3. /\ u \in Seq(S) /\ Len(u) = Len(s) - n
        /\ Inserted(u, i, Slice(s, i, n)) = s
    <3>1. s \in Seq(S) /\ n \in Nat /\ i \in Nat /\ i + n <= Len(s)
      BY <1>1, <2>1
    <3> HIDE DEF S, n, i
    <3>2. u \in Seq(S) /\ Len(u) = Len(s) - n
      BY ONLY <3>1, ErasedFacts, SMTT(30)
    <3>3. Inserted(u, i, Slice(s, i, n)) = s
      BY ONLY <3>1, RemoveUndone, SMTT(30)
    <3> QED
      BY <3>2, <3>3
  <2>4. t \in Seq(S) /\ Len(t) = Len(s) - n /\ Inserted(t, i, b) = s
    BY <2>1, <2>2, <2>3
  <2>8. t = Erased(s, i, n)
    BY <2>2
  <2> HIDE DEF t, u
  <2>5. Possible(s, a, FALSE) /\ Possible(t, a, TRUE)
    BY <1>1, <1>4, <2>1, <2>4 DEF Possible, Takes
  <2>6. Holds(s, a, t)
    BY <2>1, <2>8 DEF Holds
  <2>7. NewItems(t, a, TRUE) = s
    BY <2>2, <2>4
  <2> QED
    BY <1>4, <2>4, <2>5, <2>6, <2>7 DEF t
<1>5. CASE a.type = "BytesReplace"
  <2>1. i + n <= Len(s) /\ Slice(s, i, n) = a.old
    BY <1>1, <1>5 DEF Fits, Possible, Takes
  <2>2. /\ t = Overwritten(s, i, b)
        /\ NewItems(t, a, TRUE) = Overwritten(t, i, a.old)
    BY <1>5 DEF NewItems
  <2> DEFINE u == Overwritten(s, i, b)
  <2>3. /\ u \in Seq(S) /\ Len(u) = Len(s)
        /\ Overwritten(u, i, Slice(s, i, n)) = s
    <3>1. s \in Seq(S) /\ b \in Seq(S) /\ i \in Nat /\ i + Len(b) <= Len(s)
      BY <1>1, <2>1
    <3> HIDE DEF S, b, i
    <3>2. u \in Seq(S) /\ Len(u) = Len(s)
      BY ONLY <3>1, OverwrittenFacts, SMTT(30)
    <3>3. Overwritten(u, i, Slice(s, i, Len(b))) = s
      BY ONLY <3>1, ReplaceUndone, SMTT(30)
    <3>4. n = Len(b)
      BY DEF b
    <3> QED
      BY <3>2, <3>3, <3>4
  <2>4. t \in Seq(S) /\ Len(t) = Len(s) /\ Overwritten(t, i, a.old) = s
    BY <2>1, <2>2, <2>3
  <2> HIDE DEF t, u
  <2>5. Possible(s, a, FALSE) /\ Possible(t, a, TRUE)
    BY <1>1, <1>5, <2>1, <2>4 DEF Possible, Takes
  <2>6. NewItems(t, a, TRUE) = s
    BY <2>2, <2>4
  <2> QED
    BY <1>5, <2>4, <2>5, <2>6 DEF t
<1> QED
  BY <1>1, <1>3, <1>4, <1>5

----------------------------------------------------------------------------
(***************************************************************************)
(* One action between two contents.                                        *)
(***************************************************************************)

\* The action a turns the content m into t; undone, it turns t into m.
Change(m, a, t, D, F) ==
    /\ ContentOK(m, D, F) /\ ContentOK(t, D, F)
    /\ a \in Action /\ a.parent \in D
    /\ Fits(m[a.parent], a)
    /\ t = [m EXCEPT ![a.parent] = NewItems(m[a.parent], a, FALSE)]

Move(m, a, t, undo, D, F) ==
    IF undo THEN Change(t, a, m, D, F) ELSE Change(m, a, t, D, F)

LEMMA OneParent ==
    ASSUME NEW D, NEW F, NEW m, ContentOK(m, D, F), NEW p \in D, NEW q \in D,
           NEW x \in Kids(m, p), x \in Kids(m, q)
    PROVE  p = q
BY DEF ContentOK, Forest, Kids, Elements

LEMMA NotOwnKid ==
    ASSUME NEW D, NEW F, NEW m, ContentOK(m, D, F), NEW p \in D
    PROVE  p \notin Kids(m, p)
<1>1. {p} \in SUBSET DOMAIN m /\ {p} # {}
  BY DEF ContentOK
<1>2. PICK n \in {p} : \A q \in {p} : n \notin Kids(m, q)
  BY <1>1 DEF ContentOK, Forest
<1> QED
  BY <1>2

LEMMA MoveItems ==
    ASSUME NEW D, NEW F, NEW m, NEW a, NEW t, NEW undo \in BOOLEAN,
           Move(m, a, t, undo, D, F)
    PROVE  /\ ContentOK(m, D, F) /\ ContentOK(t, D, F)
           /\ DOMAIN m = D /\ DOMAIN t = D
           /\ a \in Action /\ a.type # "VectorMove" /\ a.parent \in D
           /\ \A n \in D \ {a.parent} : t[n] = m[n]
           /\ t[a.parent] = NewItems(m[a.parent], a, undo)
           /\ Possible(m[a.parent], a, undo)
           /\ a.type \in {"VectorInsert", "VectorRemove"} =>
                 IF Erases(a, undo) THEN Holds(m[a.parent], a, t[a.parent])
                                    ELSE Holds(t[a.parent], a, m[a.parent])
<1> DEFINE p == a.parent
<1>1. /\ ContentOK(m, D, F) /\ ContentOK(t, D, F)
      /\ a \in Action /\ p \in D
      /\ DOMAIN m = D /\ DOMAIN t = D
      /\ m[p] \in Seq(KindOf(p)) /\ t[p] \in Seq(KindOf(p))
  BY DEF Move, Change, ContentOK, KindOf
<1>2. CASE undo = FALSE
  <2>1. /\ Fits(m[p], a)
        /\ t = [m EXCEPT ![p] = NewItems(m[p], a, FALSE)]
    BY <1>2 DEF Move, Change
  <2>2. t[p] = NewItems(m[p], a, FALSE) /\ \A n \in D \ {p} : t[n] = m[n]
    BY <1>1, <2>1
  <2>3. /\ Possible(m[p], a, FALSE)
        /\ a.type = "VectorInsert" => Holds(t[p], a, m[p])
        /\ a.type = "VectorRemove" => Holds(m[p], a, t[p])
    BY <1>1, <2>1, <2>2, FitsFacts
  <2>4. a.type # "VectorMove"
    BY <2>1 DEF Fits
  <2> QED
    BY <1>1, <1>2, <2>2, <2>3, <2>4, ErasesFacts
<1>3. CASE undo = TRUE
  <2>1. /\ Fits(t[p], a)
        /\ m = [t EXCEPT ![p] = NewItems(t[p], a, FALSE)]
    BY <1>3 DEF Move, Change
  <2>2. m[p] = NewItems(t[p], a, FALSE) /\ \A n \in D \ {p} : t[n] = m[n]
    BY <1>1, <2>1
  <2>3. /\ Possible(m[p], a, TRUE)
        /\ NewItems(m[p], a, TRUE) = t[p]
        /\ a.type = "VectorInsert" => Holds(m[p], a, t[p])
        /\ a.type = "VectorRemove" => Holds(t[p], a, m[p])
    BY <1>1, <2>1, <2>2, FitsFacts
  <2>4. a.type # "VectorMove"
    BY <2>1 DEF Fits
  <2> QED
    BY <1>1, <1>3, <2>2, <2>3, <2>4, ErasesFacts
<1> QED
  BY <1>2, <1>3

\* The kids of the parent, before and after.
LEMMA MoveKids ==
    ASSUME NEW D, NEW F, NEW m, NEW a, NEW t, NEW undo \in BOOLEAN,
           Move(m, a, t, undo, D, F)
    PROVE  /\ \A n \in D \ {a.parent} : Kids(t, n) = Kids(m, n)
           /\ a.parent \notin VectorNodes =>
                 Kids(m, a.parent) = {} /\ Kids(t, a.parent) = {}
           /\ a.parent \in VectorNodes /\ Erases(a, undo) =>
                 /\ Elements(a.items) \subseteq Kids(m, a.parent)
                 /\ Kids(t, a.parent) = Kids(m, a.parent) \ Elements(a.items)
                 /\ Slice(m[a.parent], a.index, Len(a.items)) = a.items
           /\ a.parent \in VectorNodes /\ ~Erases(a, undo) =>
                 /\ Elements(a.items) \cap Kids(m, a.parent) = {}
                 /\ Kids(t, a.parent) = Kids(m, a.parent) \cup Elements(a.items)
<1> DEFINE p == a.parent
           moved == Elements(a.items)
<1>1. /\ ContentOK(m, D, F) /\ ContentOK(t, D, F)
      /\ DOMAIN m = D /\ DOMAIN t = D
      /\ a \in Action /\ a.type # "VectorMove" /\ p \in D
      /\ \A n \in D \ {p} : t[n] = m[n]
      /\ a.type \in {"VectorInsert", "VectorRemove"} =>
            IF Erases(a, undo) THEN Holds(m[p], a, t[p])
                               ELSE Holds(t[p], a, m[p])
  BY MoveItems
<1>2. /\ a.type \in {"VectorInsert", "VectorRemove"} <=> p \in VectorNodes
      /\ a.index \in Nat /\ Len(a.items) \in Nat
  BY <1>1, ActionFacts
<1>3. ASSUME NEW big, NEW small, big \in Seq(Nodes), Holds(big, a, small),
             \A j, k \in DOMAIN big : big[j] = big[k] => j = k
      PROVE  /\ Elements(big) = Elements(small) \cup moved
             /\ Elements(small) \cap moved = {}
             /\ Slice(big, a.index, Len(a.items)) = a.items
  <2> DEFINE i == a.index
             n == Len(a.items)
  <2>1. /\ i + n <= Len(big) /\ Slice(big, i, n) = a.items
        /\ Erased(big, i, n) = small /\ i \in Nat /\ n \in Nat
    BY <1>2, <1>3 DEF Holds
  <2> HIDE DEF i, n
  <2>2. /\ Elements(big) = Elements(Erased(big, i, n)) \cup Elements(Slice(big, i, n))
        /\ Elements(Erased(big, i, n)) \cap Elements(Slice(big, i, n)) = {}
    <3>1. big \in Seq(Nodes) /\ i \in Nat /\ n \in Nat /\ i + n <= Len(big)
      BY <1>3, <2>1
    <3> QED
      BY ONLY <3>1, <1>3, SplitFacts, SMTT(30)
  <2> QED
    BY <2>1, <2>2 DEF i, n
<1>4. ASSUME NEW u, ContentOK(u, D, F), p \in VectorNodes
      PROVE  /\ u[p] \in Seq(Nodes) /\ Kids(u, p) = Elements(u[p])
             /\ \A j, k \in DOMAIN u[p] : u[p][j] = u[p][k] => j = k
  <2>1. DOMAIN u = D /\ p \in D
    BY <1>1, <1>4 DEF ContentOK
  <2> QED
    BY <1>4, <2>1 DEF ContentOK, Forest, Kids
<1>5. CASE p \in VectorNodes /\ Erases(a, undo)
  <2>1. /\ Kids(m, p) = Kids(t, p) \cup moved
        /\ Kids(t, p) \cap moved = {}
        /\ Slice(m[p], a.index, Len(a.items)) = a.items
    BY <1>1, <1>2, <1>3, <1>4, <1>5
  <2> QED
    BY <1>1, <1>5, <2>1 DEF Kids
<1>6. CASE p \in VectorNodes /\ ~Erases(a, undo)
  <2>1. /\ Kids(t, p) = Kids(m, p) \cup moved
        /\ Kids(m, p) \cap moved = {}
    BY <1>1, <1>2, <1>3, <1>4, <1>6
  <2> QED
    BY <1>1, <1>6, <2>1 DEF Kids
<1>7. CASE p \notin VectorNodes
  BY <1>1, <1>7 DEF Kids
<1> QED
  BY <1>5, <1>6, <1>7

\* Every node in a vector knows that, and is active (addChild, removeChild).
LinksOK(h) ==
    \A p \in DOMAIN h : \A x \in Children(h, p) :
        x \in DOMAIN h /\ h[x].parent = p /\ h[x].state = "Active"

\* The nodes that a client may insert.
FreeIn(h) == {n \in DOMAIN h : h[n].state = "Created"}

\* VectorInsDelAction, BytesAction and BytesReplaceAction::execute do what the
\* action stands for, forwards and backwards, and keep the links.
LEMMA MoveExecutes ==
    ASSUME NEW h, HeapOK(h), LinksOK(h), NEW F, NEW a, NEW t,
           NEW undo \in BOOLEAN, Move(Contents(h), a, t, undo, DOMAIN h, F)
    PROVE  /\ Executable(h, a, undo)
           /\ DOMAIN Executed(h, a, undo) = DOMAIN h
           /\ Contents(Executed(h, a, undo)) = t
           /\ LinksOK(Executed(h, a, undo))
           /\ FreeIn(Executed(h, a, undo)) \subseteq FreeIn(h) \ Linked(a, undo)
           /\ F \cap FreeIn(h) \subseteq FreeIn(Executed(h, a, undo))
           /\ \A n \in DOMAIN h : /\ Executed(h, a, undo)[n].id = h[n].id
                                  /\ Executed(h, a, undo)[n].managed = h[n].managed
<1> DEFINE D == DOMAIN h
           m == Contents(h)
           p == a.parent
           e == Executed(h, a, undo)
           moved == Elements(a.items)
           U == Unlinked(h, a, undo)
           L == Linked(a, undo)
<1>1. /\ DOMAIN m = D /\ \A n \in D : m[n] = h[n].items
      /\ \A n \in D : Kids(m, n) = Children(h, n)
  BY ContentsFacts
<1>2. /\ ContentOK(m, D, F) /\ ContentOK(t, D, F) /\ DOMAIN t = D
      /\ a \in Action /\ a.type # "VectorMove" /\ p \in D
      /\ \A n \in D \ {p} : t[n] = m[n]
      /\ t[p] = NewItems(m[p], a, undo)
      /\ Possible(m[p], a, undo)
  BY MoveItems
<1>3. /\ a.type \in {"VectorInsert", "VectorRemove", "BytesInsert",
                     "BytesRemove", "BytesReplace"}
      /\ a.type \in {"VectorInsert", "VectorRemove"} <=> p \in VectorNodes
      /\ Erases(a, FALSE) <=> a.type \in {"VectorRemove", "BytesRemove"}
      /\ Erases(a, TRUE) <=> a.type \notin {"VectorRemove", "BytesRemove"}
  BY <1>2, ActionFacts, ErasesFacts
<1>4. Executable(h, a, undo)
  <2>1. m[p] = h[p].items
    BY <1>1, <1>2
  <2>2. CASE undo = FALSE
    BY <1>2, <1>3, <2>1, <2>2 DEF Executable, Possible, Takes
  <2>3. CASE undo = TRUE
    BY <1>2, <1>3, <2>1, <2>3 DEF Executable, Possible, Takes
  <2> QED
    BY <2>2, <2>3
<1>5. /\ \A n \in D \ {p} : Kids(t, n) = Kids(m, n)
      /\ p \notin VectorNodes => Kids(m, p) = {} /\ Kids(t, p) = {}
      /\ p \in VectorNodes /\ Erases(a, undo) =>
            /\ moved \subseteq Kids(m, p)
            /\ Kids(t, p) = Kids(m, p) \ moved
            /\ Slice(m[p], a.index, Len(a.items)) = a.items
      /\ p \in VectorNodes /\ ~Erases(a, undo) =>
            /\ moved \cap Kids(m, p) = {}
            /\ Kids(t, p) = Kids(m, p) \cup moved
  <2>1. Move(m, a, t, undo, D, F)
    OBVIOUS
  <2> HIDE DEF m, D
  <2>2. \A n \in D \ {p} : Kids(t, n) = Kids(m, n)
    BY <2>1, MoveKids
  <2>3. p \notin VectorNodes => Kids(m, p) = {} /\ Kids(t, p) = {}
    BY <2>1, MoveKids
  <2>4. p \in VectorNodes /\ Erases(a, undo) =>
           /\ moved \subseteq Kids(m, p)
           /\ Kids(t, p) = Kids(m, p) \ moved
           /\ Slice(m[p], a.index, Len(a.items)) = a.items
    BY <2>1, MoveKids
  <2>5. p \in VectorNodes /\ ~Erases(a, undo) =>
           /\ moved \cap Kids(m, p) = {}
           /\ Kids(t, p) = Kids(m, p) \cup moved
    BY <2>1, MoveKids
  <2> QED
    BY <2>2, <2>3, <2>4, <2>5
<1>6. /\ U \subseteq Kids(m, p) /\ L \subseteq Kids(t, p) /\ U \cap L = {}
      /\ Kids(t, p) = (Kids(m, p) \ U) \cup L
  <2>1. CASE p \notin VectorNodes
    BY <1>3, <1>5, <2>1 DEF Unlinked, Linked
  <2>2. CASE p \in VectorNodes /\ Erases(a, undo)
    <3>1. U = moved /\ L = {}
      BY <1>1, <1>2, <1>3, <1>5, <2>2 DEF Unlinked, Linked
    <3> QED
      BY <1>5, <2>2, <3>1
  <2>3. CASE p \in VectorNodes /\ ~Erases(a, undo)
    <3>1. U = {} /\ L = moved
      BY <1>3, <2>3 DEF Unlinked, Linked
    <3> QED
      BY <1>5, <2>3, <3>1
  <2> QED
    BY <2>1, <2>2, <2>3
<1>7. p \notin U \cup L
  BY <1>2, <1>6, NotOwnKid
<1>8. /\ DOMAIN e = D
      /\ \A n \in D :
            e[n] = IF n \in U THEN Removed(h[n], h[p].managed)
                   ELSE IF n \in L THEN Added(h[n], p)
                   ELSE IF n = p THEN [h[n] EXCEPT !.items = NewItems(h[p].items, a, undo)]
                   ELSE h[n]
  BY DEF Executed
<1> HIDE DEF e, U, L, m, moved
<1>9. ASSUME NEW n \in D
      PROVE  /\ e[n].items = t[n]
             /\ e[n].id = h[n].id /\ e[n].managed = h[n].managed
             /\ n \notin U \cup L => e[n].parent = h[n].parent /\ e[n].state = h[n].state
             /\ n \in L => e[n].parent = p /\ e[n].state = "Active"
             /\ e[n].state = "Created" => h[n].state = "Created" /\ n \notin L
  <2>1. h[n] \in NodeFields(n)
    BY DEF HeapOK
  <2>2. CASE n \in U
    <3>1. e[n] = Removed(h[n], h[p].managed) /\ n # p /\ n \notin L
      BY <1>6, <1>7, <1>8, <2>2
    <3>2. t[n] = h[n].items
      BY <1>1, <1>2, <3>1
    <3> QED
      BY <2>1, <2>2, <3>1, <3>2 DEF Removed, NodeFields
  <2>3. CASE n \in L
    <3>1. e[n] = Added(h[n], p) /\ n # p /\ n \notin U
      BY <1>6, <1>7, <1>8, <2>3
    <3>2. t[n] = h[n].items
      BY <1>1, <1>2, <3>1
    <3> QED
      BY <2>1, <2>3, <3>1, <3>2 DEF Added, NodeFields
  <2>4. CASE n = p
    <3>1. e[n] = [h[n] EXCEPT !.items = t[n]] /\ n \notin U /\ n \notin L
      BY <1>1, <1>2, <1>7, <1>8, <2>4
    <3> QED
      BY <2>1, <3>1 DEF NodeFields
  <2>5. CASE n \notin U \cup L \cup {p}
    <3>1. e[n] = h[n] /\ t[n] = h[n].items
      BY <1>1, <1>2, <1>8, <2>5
    <3> QED
      BY <2>1, <2>5, <3>1
  <2> QED
    BY <2>2, <2>3, <2>4, <2>5
<1>10. Contents(e) = t
  <2>1. t = [n \in D |-> t[n]]
    BY <1>2 DEF ContentOK
  <2> QED
    BY <1>8, <1>9, <2>1 DEF Contents
<1>11. FreeIn(e) \subseteq FreeIn(h) \ L
  BY <1>8, <1>9 DEF FreeIn
<1>12. ASSUME NEW q \in D, NEW x \in Children(e, q)
       PROVE  x \in D /\ e[x].parent = q /\ e[x].state = "Active"
  <2>1. Children(e, q) = Kids(t, q)
    BY <1>8, <1>10, ContentsFacts
  <2>2. x \in D
    BY <1>2, <1>12, <2>1 DEF ContentOK
  <2>3. CASE x \in L
    <3>1. q = p
      BY <1>2, <1>6, <1>12, <2>1, <2>3, OneParent
    <3> QED
      BY <1>9, <2>2, <2>3, <3>1
  <2>4. CASE x \notin L
    <3>1. x \in Kids(m, q)
      BY <1>5, <1>6, <1>12, <2>1, <2>4
    <3>2. x \notin U
      <4>1. CASE q = p
        BY <1>6, <1>12, <2>1, <2>4, <4>1
      <4>2. CASE q # p
        BY <1>2, <1>6, <3>1, <4>2, OneParent
      <4> QED
        BY <4>1, <4>2
    <3>3. h[x].parent = q /\ h[x].state = "Active"
      BY <1>1, <3>1 DEF LinksOK
    <3> QED
      BY <1>9, <2>2, <2>4, <3>2, <3>3
  <2> QED
    BY <2>3, <2>4
<1>13. LinksOK(e)
  BY <1>8, <1>12 DEF LinksOK
<1>14. F \cap FreeIn(h) \subseteq FreeIn(e)
  <2>1. ASSUME NEW n \in F \cap FreeIn(h) PROVE n \in FreeIn(e)
    <3>1. n \in D /\ h[n].state = "Created"
      BY DEF FreeIn
    <3>2. n \notin Kids(m, p) /\ n \notin Kids(t, p)
      BY <1>2 DEF ContentOK
    <3>3. e[n].state = h[n].state
      BY <1>6, <1>9, <3>1, <3>2
    <3> QED
      BY <1>8, <3>1, <3>3 DEF FreeIn
  <2> QED
    BY <2>1
<1> QED
  BY <1>4, <1>8, <1>9, <1>10, <1>11, <1>13, <1>14 DEF e, L

\* What an action refers to is there before and after it.
LEMMA MoveRefs ==
    ASSUME NEW D, NEW F, NEW m, NEW a, NEW t, NEW undo \in BOOLEAN,
           Move(m, a, t, undo, D, F)
    PROVE  Refs(a) \subseteq D
<1>1. /\ ContentOK(m, D, F) /\ ContentOK(t, D, F) /\ DOMAIN t = D
      /\ a \in Action /\ a.type # "VectorMove" /\ a.parent \in D
  BY MoveItems
<1>2. a.type \in {"VectorInsert", "VectorRemove"} <=> a.parent \in VectorNodes
  BY <1>1, ActionFacts
<1>3. a.parent \in VectorNodes =>
         Elements(a.items) \subseteq Kids(m, a.parent) \cup Kids(t, a.parent)
  <2>1. a.parent \in VectorNodes /\ Erases(a, undo) =>
           Elements(a.items) \subseteq Kids(m, a.parent)
    BY MoveKids
  <2>2. a.parent \in VectorNodes /\ ~Erases(a, undo) =>
           Kids(t, a.parent) = Kids(m, a.parent) \cup Elements(a.items)
    BY MoveKids
  <2> QED
    BY <2>1, <2>2
<1>4. Kids(m, a.parent) \subseteq D /\ Kids(t, a.parent) \subseteq D
  BY <1>1 DEF ContentOK
<1> QED
  BY <1>1, <1>2, <1>3, <1>4 DEF Refs

\* An action that refers to nodes of A only neither opens nor closes A.
LEMMA MoveClosed ==
    ASSUME NEW D, NEW F, NEW m, NEW a, NEW t, NEW undo \in BOOLEAN,
           Move(m, a, t, undo, D, F), NEW A, Refs(a) \subseteq A
    PROVE  ClosedIn(m, A) <=> ClosedIn(t, A)
<1> DEFINE p == a.parent
           moved == Elements(a.items)
<1>1. /\ ContentOK(m, D, F) /\ ContentOK(t, D, F)
      /\ DOMAIN m = D /\ DOMAIN t = D
      /\ a \in Action /\ a.type # "VectorMove" /\ p \in D
  BY MoveItems
<1>2. a.type \in {"VectorInsert", "VectorRemove"} <=> p \in VectorNodes
  BY <1>1, ActionFacts
<1>3. p \in A /\ (p \in VectorNodes => moved \subseteq A)
  BY <1>2 DEF Refs
<1>4. \A n \in D \ {p} : Kids(t, n) = Kids(m, n)
  BY MoveKids
<1>5. Kids(t, p) \subseteq Kids(m, p) \cup A /\ Kids(m, p) \subseteq Kids(t, p) \cup A
  <2>0. undo \in BOOLEAN /\ Move(m, a, t, undo, D, F)
    OBVIOUS
  <2>1. p \notin VectorNodes => Kids(m, p) = {} /\ Kids(t, p) = {}
    BY ONLY <2>0, MoveKids
  <2>2. p \in VectorNodes /\ Erases(a, undo) => Kids(t, p) = Kids(m, p) \ moved
    BY ONLY <2>0, MoveKids
  <2>3. p \in VectorNodes /\ ~Erases(a, undo) => Kids(t, p) = Kids(m, p) \cup moved
    BY ONLY <2>0, MoveKids
  <2> QED
    BY <1>3, <2>1, <2>2, <2>3
<1> QED
  BY <1>1, <1>3, <1>4, <1>5 DEF ClosedIn

LEMMA RecastMove ==
    ASSUME NEW D, NEW F, NEW m, NEW a, NEW t, NEW undo \in BOOLEAN,
           Move(m, a, t, undo, D, F),
           NEW D2, NEW F2, NEW e, F2 \cap D \subseteq F,
           ContentOK(e, D2 \ D, F2),
           ClosedIn(m, D2), ClosedIn(t, D2), a.parent \in D2
    PROVE  Move(Recast(m, D2, e), a, Recast(t, D2, e), undo, D2, F2)
<1>1. ASSUME NEW u, NEW v, Change(u, a, v, D, F), ClosedIn(u, D2), ClosedIn(v, D2)
      PROVE  Change(Recast(u, D2, e), a, Recast(v, D2, e), D2, F2)
  <2> DEFINE ru == Recast(u, D2, e)
             rv == Recast(v, D2, e)
  <2>1. /\ ContentOK(u, D, F) /\ ContentOK(v, D, F)
        /\ a \in Action /\ a.parent \in D /\ Fits(u[a.parent], a)
        /\ v = [u EXCEPT ![a.parent] = NewItems(u[a.parent], a, FALSE)]
    BY <1>1 DEF Change
  <2>2. ContentOK(ru, D2, F2) /\ ContentOK(rv, D2, F2)
    BY <1>1, <2>1, RecastOK
  <2>3. DOMAIN u = D /\ DOMAIN v = D
    BY <2>1 DEF ContentOK
  <2>4. ru[a.parent] = u[a.parent]
    BY <2>1, <2>3 DEF Recast
  <2>5. rv = [ru EXCEPT ![a.parent] = NewItems(ru[a.parent], a, FALSE)]
    BY <2>1, <2>3, <2>4 DEF Recast
  <2> HIDE DEF ru, rv
  <2>6. Change(ru, a, rv, D2, F2)
    BY <2>1, <2>2, <2>4, <2>5 DEF Change
  <2> QED
    BY <2>6 DEF ru, rv
<1> QED
  BY <1>1 DEF Move

----------------------------------------------------------------------------
(***************************************************************************)
(* Paths of actions.                                                       *)
(***************************************************************************)

\* The actions q, executed one after the other, lead from s to t.
Leads(s, q, t, undo, D, F) ==
    \E w : /\ DOMAIN w = 0 .. Len(q)
           /\ w[0] = s /\ w[Len(q)] = t
           /\ \A i \in 1 .. Len(q) : Move(w[i - 1], q[i], w[i], undo, D, F)

LEMMA LeadsNowhere ==
    ASSUME NEW s, NEW t, NEW undo, NEW D, NEW F
    PROVE  Leads(s, <<>>, t, undo, D, F) <=> s = t
<1>1. Len(<<>>) = 0 /\ 1 .. 0 = {}
  OBVIOUS
<1>2. ASSUME s = t PROVE Leads(s, <<>>, t, undo, D, F)
  <2> DEFINE w == [i \in 0 .. 0 |-> s]
  <2>1. DOMAIN w = 0 .. 0 /\ w[0] = s /\ w[0] = t
    BY <1>2
  <2> QED
    BY <1>1, <2>1 DEF Leads
<1> QED
  BY <1>1, <1>2 DEF Leads

LEMMA LeadsOn ==
    ASSUME NEW S, NEW q \in Seq(S), NEW a \in S, NEW s, NEW t, NEW u,
           NEW D, NEW F, Leads(s, q, t, FALSE, D, F), Change(t, a, u, D, F)
    PROVE  Leads(s, Append(q, a), u, FALSE, D, F)
<1> DEFINE n == Len(q)
<1>1. PICK w : /\ DOMAIN w = 0 .. n
               /\ w[0] = s /\ w[n] = t
               /\ \A i \in 1 .. n : Move(w[i - 1], q[i], w[i], FALSE, D, F)
  BY DEF Leads
<1>2. /\ n \in Nat /\ Len(Append(q, a)) = n + 1
      /\ \A i \in 1 .. n : Append(q, a)[i] = q[i]
      /\ Append(q, a)[n + 1] = a
  BY LenProperties, AppendProperties
<1> HIDE DEF n
<1> DEFINE v == [i \in 0 .. n + 1 |-> IF i = n + 1 THEN u ELSE w[i]]
<1>3. DOMAIN v = 0 .. n + 1 /\ v[0] = s /\ v[n + 1] = u
  BY <1>1, <1>2
<1>4. ASSUME NEW i \in 1 .. n + 1
      PROVE  Move(v[i - 1], Append(q, a)[i], v[i], FALSE, D, F)
  <2>1. CASE i = n + 1
    <3>1. v[i] = u /\ v[i - 1] = t
      BY <1>1, <1>2, <2>1
    <3> QED
      BY <1>2, <2>1, <3>1 DEF Move
  <2>2. CASE i \in 1 .. n
    <3>1. v[i] = w[i] /\ v[i - 1] = w[i - 1]
      BY <1>2, <2>2
    <3> QED
      BY <1>1, <1>2, <2>2, <3>1
  <2>3. i = n + 1 \/ i \in 1 .. n
    BY <1>2
  <2> QED
    BY ONLY <2>1, <2>2, <2>3
<1> HIDE DEF v
<1> QED
  BY <1>2, <1>3, <1>4 DEF Leads

LEMMA LeadsHead ==
    ASSUME NEW S, NEW q \in Seq(S), q # <<>>, NEW s, NEW t, NEW undo,
           NEW D, NEW F, Leads(s, q, t, undo, D, F)
    PROVE  \E u : Move(s, Head(q), u, undo, D, F) /\ Leads(u, Tail(q), t, undo, D, F)
<1> DEFINE n == Len(q)
           r == Tail(q)
<1>1. PICK w : /\ DOMAIN w = 0 .. n
               /\ w[0] = s /\ w[n] = t
               /\ \A i \in 1 .. n : Move(w[i - 1], q[i], w[i], undo, D, F)
  BY DEF Leads
<1>2. /\ n \in Nat \ {0} /\ Head(q) = q[1] /\ Len(r) = n - 1
      /\ \A i \in 1 .. n - 1 : r[i] = q[i + 1]
  BY EmptySeq, HeadTailProperties
<1> HIDE DEF n, r
<1> DEFINE v == [i \in 0 .. n - 1 |-> w[i + 1]]
<1>3. DOMAIN v = 0 .. n - 1 /\ v[0] = w[1] /\ v[n - 1] = t
  BY <1>1, <1>2
<1>4. ASSUME NEW i \in 1 .. n - 1 PROVE Move(v[i - 1], r[i], v[i], undo, D, F)
  <2>1. v[i] = w[i + 1] /\ v[i - 1] = w[i] /\ i + 1 \in 1 .. n /\ (i + 1) - 1 = i
    BY <1>2
  <2> QED
    BY <1>1, <1>2, <2>1
<1> HIDE DEF v
<1>5. Leads(w[1], r, t, undo, D, F)
  BY <1>2, <1>3, <1>4 DEF Leads
<1>6. Move(s, Head(q), w[1], undo, D, F)
  <2>1. 1 \in 1 .. n /\ 1 - 1 = 0
    BY <1>2
  <2> QED
    BY <1>1, <1>2, <2>1
<1> QED
  BY <1>5, <1>6 DEF r

\* The same actions in the reverse order, undone, lead back.
LEMMA LeadsBack ==
    ASSUME NEW S, NEW q \in Seq(S), NEW r, NEW s, NEW t, NEW D, NEW F,
           Leads(s, q, t, FALSE, D, F),
           Len(r) = Len(q), \A i \in 1 .. Len(q) : r[i] = q[Len(q) + 1 - i]
    PROVE  Leads(t, r, s, TRUE, D, F)
<1> DEFINE n == Len(q)
<1>1. PICK w : /\ DOMAIN w = 0 .. n
               /\ w[0] = s /\ w[n] = t
               /\ \A i \in 1 .. n : Move(w[i - 1], q[i], w[i], FALSE, D, F)
  BY DEF Leads
<1>2. /\ n \in Nat /\ Len(r) = n
      /\ \A i \in 1 .. n : r[i] = q[n + 1 - i]
  BY LenProperties
<1> HIDE DEF n
<1> DEFINE v == [i \in 0 .. n |-> w[n - i]]
<1>3. DOMAIN v = 0 .. n /\ v[0] = t /\ v[n] = s
  BY <1>1, <1>2
<1>4. ASSUME NEW i \in 1 .. n PROVE Move(v[i - 1], r[i], v[i], TRUE, D, F)
  <2> DEFINE j == n + 1 - i
  <2>1. /\ j \in 1 .. n /\ i - 1 \in 0 .. n /\ i \in 0 .. n
        /\ n - (i - 1) = j /\ n - i = j - 1
    BY <1>2
  <2>2. v[i - 1] = w[j] /\ v[i] = w[j - 1] /\ r[i] = q[j]
    BY <1>2, <2>1
  <2>3. Move(w[j - 1], q[j], w[j], FALSE, D, F)
    BY <1>1, <2>1
  <2> QED
    BY <2>2, <2>3 DEF Move
<1> HIDE DEF v
<1> QED
  BY <1>2, <1>3, <1>4 DEF Leads

\* All that the actions of a path refer to is there.
LEMMA LeadsRefs ==
    ASSUME NEW q, NEW s, NEW t, NEW undo \in BOOLEAN, NEW D, NEW F,
           Leads(s, q, t, undo, D, F)
    PROVE  \A i \in 1 .. Len(q) : Refs(q[i]) \subseteq D
<1>1. PICK w : \A i \in 1 .. Len(q) : Move(w[i - 1], q[i], w[i], undo, D, F)
  BY DEF Leads
<1> QED
  BY <1>1, MoveRefs

\* A path that refers to nodes of A only neither opens nor closes A, and can be
\* recast step by step.
LEMMA LeadsClosed ==
    ASSUME NEW S, NEW q \in Seq(S), NEW s, NEW t, NEW undo \in BOOLEAN,
           NEW D, NEW F, Leads(s, q, t, undo, D, F),
           NEW A, \A i \in 1 .. Len(q) : Refs(q[i]) \subseteq A
    PROVE  ClosedIn(s, A) <=> ClosedIn(t, A)
<1>1. PICK w : /\ DOMAIN w = 0 .. Len(q)
               /\ w[0] = s /\ w[Len(q)] = t
               /\ \A i \in 1 .. Len(q) : Move(w[i - 1], q[i], w[i], undo, D, F)
  BY DEF Leads
<1> DEFINE n == Len(q)
           T == {i \in 0 .. n : ClosedIn(w[i], A)}
<1>2. n \in Nat
  BY LenProperties
<1>3. ASSUME NEW k \in 0 .. n - 1 PROVE k \in T <=> k + 1 \in T
  <2>1. k + 1 \in 1 .. n /\ (k + 1) - 1 = k /\ k \in 0 .. n /\ k + 1 \in 0 .. n
    BY <1>2
  <2>2. Move(w[k], q[k + 1], w[k + 1], undo, D, F) /\ Refs(q[k + 1]) \subseteq A
    BY <1>1, <2>1
  <2>3. ClosedIn(w[k], A) <=> ClosedIn(w[k + 1], A)
    BY <2>2, MoveClosed
  <2> QED
    BY <2>1, <2>3
<1>4. 0 \in 0 .. n /\ n \in 0 .. n /\ 0 \in Nat
  BY <1>2
<1>5. 0 \in T <=> ClosedIn(s, A)
  BY <1>1, <1>4
<1>6. n \in T <=> ClosedIn(t, A)
  BY <1>1, <1>4
<1> HIDE DEF T, n
<1>7. 0 \in T => \A k \in 0 .. n : k \in T
  BY <1>2, <1>3, <1>4, Everywhere
<1>8. n \in T => \A k \in 0 .. n : k \in T
  BY <1>2, <1>3, <1>4, Everywhere
<1> QED
  BY <1>4, <1>5, <1>6, <1>7, <1>8

LEMMA LeadsRecast ==
    ASSUME NEW S, NEW q \in Seq(S), NEW s, NEW t, NEW undo \in BOOLEAN,
           NEW D, NEW F, Leads(s, q, t, undo, D, F),
           NEW D2, NEW F2, NEW e, F2 \cap D \subseteq F,
           ContentOK(e, D2 \ D, F2), ClosedIn(s, D2),
           \A i \in 1 .. Len(q) : Refs(q[i]) \subseteq D2
    PROVE  Leads(Recast(s, D2, e), q, Recast(t, D2, e), undo, D2, F2)
<1>1. PICK w : /\ DOMAIN w = 0 .. Len(q)
               /\ w[0] = s /\ w[Len(q)] = t
               /\ \A i \in 1 .. Len(q) : Move(w[i - 1], q[i], w[i], undo, D, F)
  BY DEF Leads
<1> DEFINE n == Len(q)
           T == {i \in 0 .. n : ClosedIn(w[i], D2)}
           v == [i \in 0 .. n |-> Recast(w[i], D2, e)]
<1>2. n \in Nat
  BY LenProperties
<1>3. ASSUME NEW k \in 0 .. n - 1 PROVE k \in T <=> k + 1 \in T
  <2>1. k + 1 \in 1 .. n /\ (k + 1) - 1 = k /\ k \in 0 .. n /\ k + 1 \in 0 .. n
    BY <1>2
  <2>2. Move(w[k], q[k + 1], w[k + 1], undo, D, F) /\ Refs(q[k + 1]) \subseteq D2
    BY <1>1, <2>1
  <2>3. ClosedIn(w[k], D2) <=> ClosedIn(w[k + 1], D2)
    BY <2>2, MoveClosed
  <2> QED
    BY <2>1, <2>3
<1>4. 0 \in 0 .. n /\ n \in 0 .. n /\ 0 \in Nat /\ 0 \in T
  BY <1>1, <1>2
<1>5. \A k \in 0 .. n : k \in T
  <2> HIDE DEF T, n
  <2> QED
    BY <1>2, <1>3, <1>4, Everywhere
<1>6. ASSUME NEW i \in 1 .. n PROVE Move(v[i - 1], q[i], v[i], undo, D2, F2)
  <2>1. i - 1 \in 0 .. n /\ i \in 0 .. n
    BY <1>2
  <2>2. /\ Move(w[i - 1], q[i], w[i], undo, D, F) /\ q[i].parent \in D2
        /\ ClosedIn(w[i - 1], D2) /\ ClosedIn(w[i], D2)
    BY <1>1, <1>5, <2>1 DEF Refs
  <2>3. Move(Recast(w[i - 1], D2, e), q[i], Recast(w[i], D2, e), undo, D2, F2)
    BY <2>2, RecastMove
  <2> QED
    BY <2>1, <2>3
<1>7. /\ DOMAIN v = 0 .. n
      /\ v[0] = Recast(s, D2, e) /\ v[n] = Recast(t, D2, e)
  BY <1>1, <1>4
<1> HIDE DEF v
<1> QED
  BY <1>6, <1>7 DEF Leads

\* Every node that r reaches, but r itself, is owned by another one.
LEMMA WithinParents ==
    ASSUME NEW m, NEW r, NEW n \in Within(m, {r}), n # r
    PROVE  \E q \in Within(m, {r}) : n \in Kids(m, q)
<1> DEFINE W == Within(m, {r})
<1>1. /\ W \subseteq DOMAIN m
      /\ {r} \cap DOMAIN m \subseteq W
      /\ ClosedIn(m, W)
      /\ \A S : {r} \cap DOMAIN m \subseteq S /\ ClosedIn(m, S) => W \subseteq S
  BY WithinFacts
<1> HIDE DEF W
<1> SUFFICES ASSUME \A q \in W : n \notin Kids(m, q) PROVE FALSE
  BY DEF W
<1>2. ClosedIn(m, W \ {n})
  BY <1>1 DEF ClosedIn
<1>3. {r} \cap DOMAIN m \subseteq W \ {n}
  BY <1>1
<1>4. W \subseteq W \ {n}
  BY <1>1, <1>2, <1>3
<1>5. n \in W
  BY DEF W
<1> QED
  BY <1>4, <1>5

\* The document with the root r: the elements of all that r reaches.
Doc(m, r) == [root |-> r, items |-> [n \in Within(m, {r}) |-> m[n]]]

\* It depends on nothing that r does not reach.
LEMMA DocRecast ==
    ASSUME NEW D, NEW F, NEW m, ContentOK(m, D, F), NEW D2, NEW e, NEW r,
           ClosedIn(m, D2), r \in D <=> r \in D2
    PROVE  Doc(Recast(m, D2, e), r) = Doc(m, r)
<1> DEFINE c == Recast(m, D2, e)
           V == Within(c, {r})
           W == Within(m, {r})
<1>1. /\ DOMAIN m = D /\ DOMAIN c = D2
      /\ \A n \in D \cap D2 : c[n] = m[n]
  BY DEF ContentOK, Recast
<1>2. \A n \in D \cap D2 : Kids(c, n) = Kids(m, n)
  BY <1>1 DEF Kids
<1>3. \A n \in D : Kids(m, n) \subseteq D
  BY DEF ContentOK
<1>4. \A n \in D \cap D2 : Kids(m, n) \subseteq D2
  BY <1>1, <1>3 DEF ClosedIn
<1>5. /\ W \subseteq D /\ {r} \cap D \subseteq W /\ ClosedIn(m, W)
      /\ \A S : {r} \cap D \subseteq S /\ ClosedIn(m, S) => W \subseteq S
  BY <1>1, WithinFacts
<1>6. /\ V \subseteq D2 /\ {r} \cap D2 \subseteq V /\ ClosedIn(c, V)
      /\ \A S : {r} \cap D2 \subseteq S /\ ClosedIn(c, S) => V \subseteq S
  BY <1>1, WithinFacts
<1> HIDE DEF c, V, W
<1>7. W \subseteq D2
  BY <1>5
<1>8. V \subseteq W
  <2>1. {r} \cap D2 \subseteq W
    BY <1>5
  <2>2. ClosedIn(c, W)
    BY <1>1, <1>2, <1>3, <1>5, <1>7 DEF ClosedIn
  <2> QED
    BY <1>6, <2>1, <2>2
<1>9. W \subseteq V
  <2>1. {r} \cap D \subseteq V
    BY <1>6
  <2>2. ClosedIn(m, V)
    BY <1>1, <1>2, <1>4, <1>6 DEF ClosedIn
  <2> QED
    BY <1>5, <2>1, <2>2
<1>10. V = W /\ \A n \in W : c[n] = m[n]
  BY <1>1, <1>5, <1>7, <1>8, <1>9
<1>11. [n \in V |-> c[n]] = [n \in W |-> m[n]]
  BY <1>10
<1> QED
  BY <1>11 DEF Doc, c, V, W

\* The one of no root is empty.
LEMMA DocNull ==
    ASSUME NEW m, NEW r, r \notin DOMAIN m
    PROVE  Doc(m, r) = [root |-> r, items |-> [n \in {} |-> n]]
<1>1. Within(m, {r}) = {}
  <2>1. ClosedIn(m, {})
    BY DEF ClosedIn
  <2> QED
    BY <2>1, WithinFacts
<1>2. [n \in Within(m, {r}) |-> m[n]] = [n \in {} |-> n]
  BY <1>1
<1> QED
  BY <1>2 DEF Doc

\* A content in its own domain is the same.
LEMMA RecastSame ==
    ASSUME NEW D, NEW F, NEW m, ContentOK(m, D, F), NEW e
    PROVE  Recast(m, D, e) = m
BY DEF ContentOK, Recast

\* There is a content of no nodes.
LEMMA NoContent ==
    ASSUME NEW F PROVE ContentOK([n \in {} |-> n], {}, F)
BY DEF ContentOK, Forest
----------------------------------------------------------------------------
(***************************************************************************)
(* Edits of a content.                                                     *)
(***************************************************************************)

\* A node that keeps some of its elements, or whose bytes change.
LEMMA FewerOK ==
    ASSUME NEW D, NEW F, NEW m, ContentOK(m, D, F), NEW p \in D,
           NEW s \in Seq(KindOf(p)),
           p \in VectorNodes =>
              /\ Elements(s) \subseteq Kids(m, p)
              /\ \A j, k \in DOMAIN s : s[j] = s[k] => j = k
    PROVE  ContentOK([m EXCEPT ![p] = s], D, F)
<1> DEFINE t == [m EXCEPT ![p] = s]
<1>1. /\ D \subseteq Nodes /\ DOMAIN m = D /\ Forest(m) /\ m = [n \in D |-> m[n]]
      /\ \A n \in D : m[n] \in Seq(KindOf(n)) /\ Kids(m, n) \subseteq D \ F
  BY DEF ContentOK, KindOf
<1>2. /\ DOMAIN t = D /\ t = [n \in D |-> t[n]]
      /\ t[p] = s /\ \A n \in D \ {p} : t[n] = m[n]
  BY <1>1
<1> HIDE DEF t
<1>3. \A n \in D : Kids(t, n) \subseteq Kids(m, n)
  BY <1>2 DEF Kids
<1>4. \A n \in D : t[n] \in Seq(KindOf(n))
  BY <1>1, <1>2
<1>5. ASSUME NEW a \in D \cap VectorNodes, NEW b \in D \cap VectorNodes,
             NEW i \in DOMAIN t[a], NEW j \in DOMAIN t[b], t[a][i] = t[b][j]
      PROVE  a = b /\ i = j
  <2>1. t[a][i] \in Kids(t, a) /\ t[b][j] \in Kids(t, b)
    BY DEF Kids, Elements
  <2>2. a = b
    BY <1>3, <1>5, <2>1, OneParent
  <2>3. CASE a = p
    BY <1>2, <1>5, <2>2, <2>3
  <2>4. CASE a # p
    <3>1. t[a] = m[a]
      BY <1>2, <2>4
    <3> QED
      BY <1>1, <1>5, <2>2, <3>1 DEF Forest
  <2> QED
    BY <2>2, <2>3, <2>4
<1>6. ASSUME NEW S \in SUBSET D, S # {}
      PROVE  \E n \in S : \A q \in S : n \notin Kids(t, q)
  <2>1. PICK n \in S : \A q \in S : n \notin Kids(m, q)
    BY <1>1, <1>6 DEF Forest
  <2> QED
    BY <1>3, <2>1
<1>7. Forest(t)
  BY <1>2, <1>5, <1>6 DEF Forest
<1>8. ContentOK(t, D, F)
  BY <1>1, <1>2, <1>3, <1>4, <1>7 DEF ContentOK, KindOf
<1> QED
  BY <1>8 DEF t

\* A node under the root that is given children: free nodes, the root not among
\* them.
LEMMA MoreOK ==
    ASSUME NEW D, NEW F, NEW m, ContentOK(m, D, F), NEW r, r \in F,
           NEW p \in Within(m, {r}) \cap VectorNodes, NEW i \in Nat, i <= Len(m[p]),
           NEW new \in Seq(Nodes), Elements(new) \subseteq (F \cap D) \ {r},
           \A j, k \in DOMAIN new : new[j] = new[k] => j = k
    PROVE  ContentOK([m EXCEPT ![p] = Inserted(m[p], i, new)], D, F \ Elements(new))
<1> DEFINE s == m[p]
           u == Inserted(s, i, new)
           t == [m EXCEPT ![p] = u]
           W == Within(m, {r})
<1>1. /\ D \subseteq Nodes /\ DOMAIN m = D /\ Forest(m)
      /\ \A n \in D : m[n] \in Seq(KindOf(n)) /\ Kids(m, n) \subseteq D \ F
  BY DEF ContentOK, KindOf
<1>2. W \subseteq D /\ p \in D
  BY <1>1, WithinFacts
<1>3. s \in Seq(Nodes) /\ Kids(m, p) = Elements(s) /\ DOMAIN s = 1 .. Len(s)
      /\ Len(s) \in Nat /\ Len(new) \in Nat /\ DOMAIN new = 1 .. Len(new)
  BY <1>1, <1>2, LenProperties DEF KindOf, Kids
<1>4. /\ u \in Seq(Nodes) /\ Len(u) = Len(s) + Len(new)
      /\ \A k \in 1 .. Len(s) + Len(new) :
            u[k] = IF k <= i THEN s[k]
                   ELSE IF k <= i + Len(new) THEN new[k - i] ELSE s[k - Len(new)]
  <2>1. i \in Nat /\ new \in Seq(Nodes) /\ s \in Seq(Nodes) /\ i <= Len(s)
    BY <1>3
  <2> HIDE DEF s
  <2>2. /\ Inserted(s, i, new) \in Seq(Nodes)
        /\ Len(Inserted(s, i, new)) = Len(s) + Len(new)
        /\ \A k \in 1 .. Len(s) + Len(new) :
              Inserted(s, i, new)[k] =
                 IF k <= i THEN s[k]
                 ELSE IF k <= i + Len(new) THEN new[k - i] ELSE s[k - Len(new)]
    BY ONLY <2>1, InsertedFacts, ZenonT(30)
  <2> QED
    BY <2>2
<1>5. /\ DOMAIN t = D /\ t = [n \in D |-> t[n]]
      /\ t[p] = u /\ \A n \in D \ {p} : t[n] = m[n]
  BY <1>1, <1>2
<1>6. \A x \in Elements(new) : x \in F /\ x # r /\ x \in D /\ \A n \in D : x \notin Kids(m, n)
  BY <1>1
<1> HIDE DEF s, t, u
\* Where an element of u stands, it stood in s or new.
<1> DEFINE Old(k) == k <= i \/ k > i + Len(new)
           At(k) == IF k <= i THEN k ELSE k - Len(new)
<1>7. ASSUME NEW k \in DOMAIN u
      PROVE  /\ k \in Nat
             /\ Old(k) => At(k) \in DOMAIN s /\ u[k] = s[At(k)] /\ u[k] \in Kids(m, p)
             /\ ~Old(k) => k - i \in DOMAIN new /\ u[k] = new[k - i] /\ u[k] \in Elements(new)
  <2>1. k \in 1 .. Len(s) + Len(new)
    BY <1>3, <1>4
  <2>2. CASE k <= i
    <3>1. k \in DOMAIN s /\ u[k] = s[k] /\ k \in Nat
      BY <1>3, <1>4, <2>1, <2>2 DEF s
    <3> QED
      BY <1>3, <2>2, <3>1 DEF Elements
  <2>3. CASE k > i + Len(new)
    <3>1. ~(k <= i) /\ ~(k <= i + Len(new)) /\ k - Len(new) \in DOMAIN s /\ k \in Nat
      BY <1>3, <2>1, <2>3
    <3>2. u[k] = s[k - Len(new)]
      BY <1>4, <2>1, <3>1
    <3> QED
      BY <1>3, <2>3, <3>1, <3>2 DEF Elements
  <2>4. CASE k > i /\ k <= i + Len(new)
    <3>1. ~(k <= i) /\ k - i \in DOMAIN new /\ k \in Nat
      BY <1>3, <2>1, <2>4
    <3>2. u[k] = new[k - i]
      BY <1>4, <2>1, <2>4, <3>1
    <3> QED
      BY <2>4, <3>1, <3>2 DEF Elements
  <2>5. k \in Nat
    BY <1>3, <2>1
  <2> QED
    BY <1>3, <2>2, <2>3, <2>4, <2>5
<1>8. Kids(t, p) \subseteq Kids(m, p) \cup Elements(new)
  BY <1>5, <1>7 DEF Kids, Elements
<1>9. \A n \in D \ {p} : Kids(t, n) = Kids(m, n)
  BY <1>5 DEF Kids
<1>10. ASSUME NEW j \in DOMAIN u, NEW k \in DOMAIN u, u[j] = u[k] PROVE j = k
  <2>1. Old(j) <=> Old(k)
    BY <1>2, <1>6, <1>7, <1>10
  <2>2. CASE Old(j)
    <3>1. At(j) = At(k)
      <4>1. \A x, y \in DOMAIN s : s[x] = s[y] => x = y
        BY <1>1, <1>2 DEF Forest, s
      <4> QED
        BY <1>7, <1>10, <2>1, <2>2, <4>1
    <3> QED
      BY <1>3, <1>7, <2>1, <2>2, <3>1
  <2>3. CASE ~Old(j)
    <3>1. j - i = k - i
      BY <1>7, <1>10, <2>1, <2>3
    <3> QED
      BY <1>7, <3>1
  <2> QED
    BY <2>2, <2>3
<1> HIDE DEF Old, At
<1>11. ASSUME NEW a \in D, NEW b \in D, NEW x \in Kids(t, a), x \in Kids(t, b)
       PROVE  a = b
  <2>1. CASE x \in Elements(new)
    BY <1>6, <1>9, <1>11, <2>1
  <2>2. CASE x \notin Elements(new)
    <3>1. x \in Kids(m, a) /\ x \in Kids(m, b)
      BY <1>8, <1>9, <1>11, <2>2
    <3> QED
      BY <3>1, OneParent
  <2> QED
    BY <2>1, <2>2
<1>12. ASSUME NEW a \in D \cap VectorNodes, NEW b \in D \cap VectorNodes,
              NEW j \in DOMAIN t[a], NEW k \in DOMAIN t[b], t[a][j] = t[b][k]
       PROVE  a = b /\ j = k
  <2>1. t[a][j] \in Kids(t, a) /\ t[b][k] \in Kids(t, b)
    BY DEF Kids, Elements
  <2>2. a = b
    BY <1>11, <1>12, <2>1
  <2>3. CASE a = p
    BY <1>5, <1>10, <1>12, <2>2, <2>3
  <2>4. CASE a # p
    <3>1. t[a] = m[a]
      BY <1>5, <2>4
    <3> QED
      BY <1>1, <1>12, <2>2, <3>1 DEF Forest
  <2> QED
    BY <2>2, <2>3, <2>4
<1>13. ASSUME NEW S \in SUBSET D, S # {}
       PROVE  \E n \in S : \A q \in S : n \notin Kids(t, q)
  <2>1. CASE p \notin S
    <3>1. PICK n \in S : \A q \in S : n \notin Kids(m, q)
      BY <1>1, <1>13 DEF Forest
    <3> QED
      BY <1>9, <2>1, <3>1
  <2>2. CASE p \in S
    <3>1. S \cap W # {} /\ S \cap W \in SUBSET D
      BY <2>2
    <3>2. PICK n \in S \cap W : \A q \in S \cap W : n \notin Kids(m, q)
      BY <1>1, <3>1 DEF Forest
    <3>3. n \notin Elements(new)
      <4>1. n # r => \E q \in W : n \in Kids(m, q)
        BY <3>2, WithinParents
      <4> QED
        BY <1>2, <1>6, <4>1
    <3>4. ASSUME NEW q \in S, n \in Kids(t, q) PROVE FALSE
      <4>1. n \in Kids(m, q) /\ q \in D
        BY <1>8, <1>9, <3>3, <3>4
      <4>2. n # r
        BY <1>1, <4>1
      <4>3. PICK o \in W : n \in Kids(m, o)
        BY <3>2, <4>2, WithinParents
      <4>4. o = q
        BY <1>2, <4>1, <4>3, OneParent
      <4> QED
        BY <3>2, <4>1, <4>3, <4>4
    <3> QED
      BY <3>2, <3>4
  <2> QED
    BY <2>1, <2>2
<1>14. Forest(t)
  BY <1>5, <1>12, <1>13 DEF Forest
<1>15. \A n \in D : t[n] \in Seq(KindOf(n))
  BY <1>1, <1>4, <1>5 DEF KindOf
<1>16. \A n \in D : Kids(t, n) \subseteq D \ (F \ Elements(new))
  BY <1>1, <1>2, <1>6, <1>8, <1>9
<1>17. ContentOK(t, D, F \ Elements(new))
  BY <1>1, <1>5, <1>14, <1>15, <1>16 DEF ContentOK, KindOf
<1> QED
  BY <1>17 DEF t, u, s

----------------------------------------------------------------------------
(***************************************************************************)
(* Moves.                                                                  *)
(***************************************************************************)

\* VectorMoveAction::execute never undoes a move of children, whatever their
\* number, their positions and the destination: where the positions that it
\* computes for undo stay inside the vector, they move something else.
\* (MoveUndone says which ones would undo it: those of the move, exchanged.)
THEOREM MoveNeverUndone ==
    ASSUME NEW S, NEW s \in Seq(S),
           \A j, k \in 1 .. Len(s) : s[j] = s[k] => j = k,
           NEW a \in VectorMoveAction, a.count # 0,
           ArrayMoveDefined(s, MoveIndex(a, FALSE), a.count, MoveDest(a, FALSE)),
           ArrayMoveDefined(NewItems(s, a, FALSE),
                            MoveIndex(a, TRUE), a.count, MoveDest(a, TRUE))
    PROVE  NewItems(NewItems(s, a, FALSE), a, TRUE) # s
<1> DEFINE i == a.index
           n == a.count
           d == a.dest
           t == NewItems(s, a, FALSE)
           u == NewItems(t, a, TRUE)
<1>1. /\ a.type = "VectorMove" /\ i \in Nat /\ n \in Nat /\ n # 0 /\ d \in Nat
      /\ d \notin i .. i + n - 1
  BY DEF VectorMoveAction
<1>2. /\ t = ArrayMove(s, i, n, d)
      /\ u = ArrayMove(t, MoveIndex(a, TRUE), n, MoveDest(a, TRUE))
      /\ ArrayMoveDefined(s, i, n, d)
      /\ ArrayMoveDefined(t, MoveIndex(a, TRUE), n, MoveDest(a, TRUE))
  BY <1>1 DEF NewItems, MoveIndex, MoveDest
<1>3. /\ Len(s) \in Nat
      /\ \A j, k \in 1 .. Len(s) : s[j] = s[k] => j = k
  BY LenProperties
<1>4. /\ MoveIndex(a, TRUE) = IF d > i THEN d - n ELSE d
      /\ MoveDest(a, TRUE) = IF d > i THEN i ELSE i + n
  BY DEF MoveIndex, MoveDest
<1> HIDE DEF i, n, d, t, u
<1>5. MovedAs(t, s, i, n, d, S)
  BY ONLY <1>1, <1>2, s \in Seq(S), ArrayMoveFacts
<1>6. t \in Seq(S) /\ Len(t) = Len(s)
  BY <1>5 DEF MovedAs
<1>7. d # i /\ (IF d < i THEN i ELSE d) + n <= Len(s)
  BY ONLY <1>2 DEF ArrayMoveDefined
<1>8. /\ MoveDest(a, TRUE) # MoveIndex(a, TRUE)
      /\ (IF MoveDest(a, TRUE) < MoveIndex(a, TRUE)
          THEN MoveIndex(a, TRUE) ELSE MoveDest(a, TRUE)) + n <= Len(s)
  BY ONLY <1>2, <1>6 DEF ArrayMoveDefined
\* The elements were moved up: going back starts before them, and leaves the
\* first one where it was moved.
<1>9. CASE d > i
  <2>1. /\ MoveIndex(a, TRUE) = d - n /\ MoveDest(a, TRUE) = i
        /\ d - n \in Nat /\ d + n <= Len(s)
    <3>1. d \in Nat /\ i \in Nat /\ n \in Nat /\ d >= i + n
      BY ONLY <1>1, <1>9
    <3> QED
      <4>1. MoveIndex(a, TRUE) = d - n /\ MoveDest(a, TRUE) = i
        BY ONLY <1>4, <1>9
      <4>2. ~(d < i) /\ d - n \in Nat
        BY ONLY <3>1, <1>9
      <4>3. d + n <= Len(s)
        BY ONLY <1>7, <4>2
      <4> QED
        BY ONLY <4>1, <4>2, <4>3
  <2>2. d - n # i /\ i < d - n
    <3>1. d \in Nat /\ i \in Nat /\ n \in Nat /\ d >= i + n
      BY ONLY <1>1, <1>9
    <3>2. d - n # i
      BY ONLY <1>8, <2>1
    <3> QED
      BY ONLY <3>1, <3>2
  <2>3. MovedAs(u, t, d - n, n, i, S)
    BY ONLY <1>1, <1>2, <1>6, <2>1, ArrayMoveFacts
  <2>4. u[d + 1] = t[d + 1]
    <3>1. d + 1 \in d - n + n + 1 .. Len(t)
      BY <1>1, <1>3, <1>6, <2>1
    <3> QED
      BY ONLY <2>2, <2>3, <3>1 DEF MovedAs
  <2>5. t[d + 1] = s[i + 1]
    <3>1. 1 \in 1 .. n
      BY <1>1
    <3> QED
      BY ONLY <1>5, <3>1 DEF MovedAs
  <2>6. s[i + 1] # s[d + 1]
    <3>1. i + 1 \in 1 .. Len(s) /\ d + 1 \in 1 .. Len(s) /\ i + 1 # d + 1
      BY <1>1, <1>3, <1>9, <2>1
    <3> QED
      BY ONLY <1>3, <3>1
  <2> QED
    BY ONLY <2>4, <2>5, <2>6 DEF u, t
\* They were moved down: going back moves them past where they were.
<1>10. CASE ~(d > i)
  <2>1. d < i /\ MoveIndex(a, TRUE) = d /\ MoveDest(a, TRUE) = i + n
    <3>1. d < i
      BY ONLY <1>1, <1>10, <1>7
    <3>2. MoveIndex(a, TRUE) = d /\ MoveDest(a, TRUE) = i + n
      BY ONLY <1>4, <1>10
    <3> QED
      BY ONLY <3>1, <3>2
  <2>2. i + n + n <= Len(s) /\ i + n \in Nat /\ i + n > d
    <3>1. i + n \in Nat /\ i + n > d /\ ~(i + n < d)
      BY ONLY <1>1, <2>1
    <3>2. (IF i + n < d THEN d ELSE i + n) + n <= Len(s)
      BY ONLY <1>8, <2>1
    <3> QED
      BY ONLY <3>1, <3>2
  <2>3. MovedAs(u, t, d, n, i + n, S)
    BY ONLY <1>1, <1>2, <1>6, <2>1, <2>2, ArrayMoveFacts
  <2>4. 1 \in 1 .. n
    BY <1>1
  <2>5. u[i + n + 1] = t[d + 1]
    BY ONLY <2>3, <2>4 DEF MovedAs
  <2>6. t[d + 1] = s[i + 1]
    BY ONLY <1>5, <2>4 DEF MovedAs
  <2>7. s[i + 1] # s[i + n + 1]
    <3>1. i + 1 \in 1 .. Len(s) /\ i + n + 1 \in 1 .. Len(s) /\ i + 1 # i + n + 1
      BY <1>1, <1>3, <2>2
    <3> QED
      BY ONLY <1>3, <3>1
  <2> QED
    BY ONLY <2>5, <2>6, <2>7 DEF u, t
<1> QED
  BY <1>9, <1>10
=============================================================================
