------------------------- MODULE DocumentTreeProofs -------------------------
(***************************************************************************)
(* That the document is a tree between any two actions, that every         *)
(* recorded action fits the vector it is executed on, that every id is     *)
(* found, and that isDetached() and isWritable() tell where a node stands: *)
(* for a client that neither moves children, nor sets the root, nor        *)
(* replaces bytes beyond the end, nor holds nodes over a reset.  And that  *)
(* for such a client undo, redo and abort bring back what was committed.   *)
(*                                                                         *)
(* The argument needs the contents that the live nodes have had, or would  *)
(* have, at every step that the engine keeps: the actions of a transaction *)
(* lead from one to the next, and what abort, undo and redo have still to  *)
(* execute leads from the present content to one of them.  All of them are *)
(* forests of the live nodes; when nodes die, all of them shrink alike.    *)
(***************************************************************************)
EXTENDS DocumentProofs, DocumentHistory

\* What the proofs assume of the client, each of which breaks them: a move and a
\* replacement beyond the end are not undone, setRoot is not recorded, and a node
\* held over a reset keeps its model, its id and its children.  An uninitialized
\* pointer names no node: one that does lets the tree be edited outside of a
\* transaction, because isWritable() climbs to that node.
Plain ==
    /\ Calls \cap {"move", "setRoot", "grow", "keep"} = {}
    /\ Uninit \subseteq {Null, Wild}

\* M has the contents at the steps lo .. lo + Len(st) between which the
\* transactions of st lead; H has the documents with the root r that they are.
Course(H, M, D, F, r, st, lo) ==
    /\ DOMAIN M = lo .. lo + Len(st)
    /\ DOMAIN H = lo .. lo + Len(st)
    /\ \A k \in lo .. lo + Len(st) : ContentOK(M[k], D, F) /\ H[k] = Doc(M[k], r)
    /\ \A k \in 1 .. Len(st) :
          Leads(M[lo + k - 1], st[k], M[lo + k], FALSE, D, F)

\* The step that the present call leads to, from step c.
Goal(ms, c) == IF ms = "Undo" THEN c - 1 ELSE IF ms = "Redo" THEN c + 1 ELSE c

\* Where the present content m is: some recorded actions tx after step c, or as
\* many actions as are to do before the goal.
Way(M, m, D, F, c, ms, tx, td) ==
    /\ ContentOK(m, D, F)
    /\ ms = "Transaction" /\ td = <<>> => Leads(M[c], tx, m, FALSE, D, F)
    /\ ~(ms = "Transaction" /\ td = <<>>) =>
          Leads(m, td, M[Goal(ms, c)], ms # "Redo", D, F)

\* The nodes that have their model, and their id unless they are the root.
Known(h, r) == {n \in DOMAIN h : h[n].managed /\ (h[n].id # 0 \/ n = r)}
InsertedBy(tx) == UNION {QueryInserted(a) : a \in Elements(tx)}

\* The tree had and has only known nodes at every step; in a transaction known
\* nodes own only such, and what the transaction has inserted.
Associates(H, h, r, ms, tx, td) ==
    /\ \A k \in DOMAIN H : DOMAIN H[k].items \subseteq Known(h, r)
    /\ ms = "Transaction" /\ td = <<>> =>
          \E G \in SUBSET Known(h, r) :
              /\ r # Null => r \in G
              /\ \A p \in G : Kids(Contents(h), p) \subseteq G \cup InsertedBy(tx)

\* A node that is free to be inserted has no parent.
Orphans(h) ==
    \A n \in DOMAIN h : h[n].state = "Created" => h[n].parent \in {Null, Wild}

\* An empty model has seen no node that was ever inserted anywhere.
Fresh(h, r, ms) ==
    r = Null /\ ms # "Destroyed" =>
        \A n \in DOMAIN h : h[n].state = "Created" /\ Children(h, n) = {}

\* The calls that are under way, and what is recorded.
Recorded(a, st, tx) ==
    a \in Elements(tx) \/ \E k \in 1 .. Len(st) : a \in Elements(st[k])

Control(r, st, lo, cu, ms, tx, td) ==
    /\ st \in Seq(Seq(Action)) /\ tx \in Seq(Action) /\ td \in Seq(Action)
    /\ lo \in Nat /\ cu \in Nat /\ cu <= Len(st)
    /\ ms # "Transaction" => tx = <<>>
    /\ ms \in {"Idle", "Destroyed"} => td = <<>>
    /\ ms = "Undo" => cu # 0
    /\ ms = "Redo" => cu # Len(st)
    /\ ms = "Destroyed" => st = <<>>
    /\ st = <<>> => lo = 0
    /\ r = Null => st = <<>> /\ tx = <<>>
    /\ \A i \in 1 .. Len(td) : Recorded(td[i], st, tx)

Core(H, h, r, st, lo, cu, ms, tx, td) ==
    /\ HeapOK(h) /\ LinksOK(h) /\ Orphans(h)
    /\ r # Null => r \in FreeIn(h)
    /\ Control(r, st, lo, cu, ms, tx, td)
    /\ Fresh(h, r, ms)
    /\ Associates(H, h, r, ms, tx, td)
    /\ \E M : /\ Course(H, M, DOMAIN h, FreeIn(h), r, st, lo)
              /\ Way(M, Contents(h), DOMAIN h, FreeIn(h), lo + cu, ms, tx, td)

----------------------------------------------------------------------------
RecastAll(M, D, e) == [k \in DOMAIN M |-> Recast(M[k], D, e)]

\* A course can be recast as a whole.
LEMMA CourseRecast ==
    ASSUME NEW H, NEW M, NEW D, NEW F, NEW r, NEW st \in Seq(Seq(Action)),
           NEW lo \in Nat, Course(H, M, D, F, r, st, lo),
           NEW D2, NEW F2, NEW e, F2 \cap D \subseteq F,
           ContentOK(e, D2 \ D, F2), r \in D <=> r \in D2,
           \A k \in 1 .. Len(st) : \A i \in 1 .. Len(st[k]) : Refs(st[k][i]) \subseteq D2,
           NEW c \in lo .. lo + Len(st), ClosedIn(M[c], D2)
    PROVE  /\ Course(H, RecastAll(M, D2, e), D2, F2, r, st, lo)
           /\ \A k \in lo .. lo + Len(st) : ClosedIn(M[k], D2)
<1> DEFINE n == Len(st)
           T == {k \in lo .. lo + n : ClosedIn(M[k], D2)}
           N == RecastAll(M, D2, e)
<1>1. /\ n \in Nat /\ \A k \in 1 .. n : st[k] \in Seq(Action)
      /\ DOMAIN M = lo .. lo + n /\ DOMAIN H = lo .. lo + n
      /\ \A k \in lo .. lo + n : ContentOK(M[k], D, F) /\ H[k] = Doc(M[k], r)
      /\ \A k \in 1 .. n : Leads(M[lo + k - 1], st[k], M[lo + k], FALSE, D, F)
  BY LenProperties, ElementOfSeq DEF Course
<1>2. ASSUME NEW k \in lo .. lo + n - 1 PROVE k \in T <=> k + 1 \in T
  <2> DEFINE j == k + 1 - lo
  <2>1. /\ j \in 1 .. n /\ lo + j - 1 = k /\ lo + j = k + 1
        /\ k \in lo .. lo + n /\ k + 1 \in lo .. lo + n
    BY <1>1
  <2>2. Leads(M[k], st[j], M[k + 1], FALSE, D, F)
    BY <1>1, <2>1
  <2>3. st[j] \in Seq(Action) /\ \A i \in 1 .. Len(st[j]) : Refs(st[j][i]) \subseteq D2
    BY <1>1, <2>1
  <2> HIDE DEF j
  <2>4. ClosedIn(M[k], D2) <=> ClosedIn(M[k + 1], D2)
    BY ONLY <2>2, <2>3, LeadsClosed
  <2> QED
    BY <2>1, <2>4
<1>3. \A k \in lo .. lo + n : k \in T
  <2> DEFINE hi == lo + n
  <2>1. c \in T /\ hi \in Nat /\ c \in lo .. hi
    BY <1>1
  <2>2. \A k \in lo .. hi - 1 : k \in T <=> k + 1 \in T
    BY <1>2
  <2> HIDE DEF T, hi
  <2>3. \A k \in lo .. hi : k \in T
    BY ONLY <2>1, <2>2, lo \in Nat, Everywhere, ZenonT(30)
  <2> QED
    BY <2>3 DEF hi
<1>4. \A k \in lo .. lo + n : ClosedIn(M[k], D2)
  BY <1>3
<1>5. DOMAIN N = lo .. lo + n /\ \A k \in lo .. lo + n : N[k] = Recast(M[k], D2, e)
  BY <1>1 DEF RecastAll
<1> HIDE DEF N, T
<1>6. ASSUME NEW k \in lo .. lo + n
      PROVE  ContentOK(N[k], D2, F2) /\ H[k] = Doc(N[k], r)
  <2>1. ContentOK(M[k], D, F) /\ ClosedIn(M[k], D2) /\ H[k] = Doc(M[k], r)
    BY <1>1, <1>4
  <2>2. ContentOK(Recast(M[k], D2, e), D2, F2)
    BY <2>1, RecastOK
  <2>3. Doc(Recast(M[k], D2, e), r) = Doc(M[k], r)
    BY <2>1, DocRecast
  <2> QED
    BY <1>5, <2>1, <2>2, <2>3
<1>7. ASSUME NEW k \in 1 .. n
      PROVE  Leads(N[lo + k - 1], st[k], N[lo + k], FALSE, D2, F2)
  <2>1. lo + k - 1 \in lo .. lo + n /\ lo + k \in lo .. lo + n
    BY <1>1
  <2>2. /\ Leads(M[lo + k - 1], st[k], M[lo + k], FALSE, D, F)
        /\ st[k] \in Seq(Action) /\ ClosedIn(M[lo + k - 1], D2)
        /\ \A i \in 1 .. Len(st[k]) : Refs(st[k][i]) \subseteq D2
    BY <1>1, <1>4, <2>1
  <2>3. Leads(Recast(M[lo + k - 1], D2, e), st[k], Recast(M[lo + k], D2, e), FALSE, D2, F2)
    BY <2>2, LeadsRecast
  <2> QED
    BY <1>5, <2>1, <2>3
<1> QED
  BY <1>1, <1>4, <1>5, <1>6, <1>7 DEF Course, N

\* All that is recorded, and may be executed, refers to live nodes.
RefsIn(st, tx, td, D) ==
    /\ \A k \in 1 .. Len(st) : \A i \in 1 .. Len(st[k]) : Refs(st[k][i]) \subseteq D
    /\ td = <<>> => \A i \in 1 .. Len(tx) : Refs(tx[i]) \subseteq D
    /\ \A i \in 1 .. Len(td) : Refs(td[i]) \subseteq D

LEMMA GoalFacts ==
    ASSUME NEW r, NEW st, NEW lo, NEW cu, NEW ms, NEW tx, NEW td,
           Control(r, st, lo, cu, ms, tx, td)
    PROVE  /\ lo + cu \in lo .. lo + Len(st)
           /\ Goal(ms, lo + cu) \in lo .. lo + Len(st)
<1>1. Len(st) \in Nat
  BY LenProperties DEF Control
<1> QED
  BY <1>1 DEF Control, Goal

\* ... and so can the way to its goal.
LEMMA WayRecast ==
    ASSUME NEW H, NEW M, NEW m, NEW D, NEW F, NEW r, NEW st, NEW lo, NEW cu,
           NEW ms, NEW tx, NEW td, Control(r, st, lo, cu, ms, tx, td),
           Course(H, M, D, F, r, st, lo), Way(M, m, D, F, lo + cu, ms, tx, td),
           NEW D2, NEW F2, NEW e, F2 \cap D \subseteq F,
           ContentOK(e, D2 \ D, F2), r \in D <=> r \in D2,
           RefsIn(st, tx, td, D2), ClosedIn(m, D2)
    PROVE  /\ Course(H, RecastAll(M, D2, e), D2, F2, r, st, lo)
           /\ Way(RecastAll(M, D2, e), Recast(m, D2, e), D2, F2, lo + cu, ms, tx, td)
<1> DEFINE c == lo + cu
           g == Goal(ms, c)
           N == RecastAll(M, D2, e)
           undo == ms # "Redo"
<1>1. c \in lo .. lo + Len(st) /\ g \in lo .. lo + Len(st)
  BY GoalFacts
<1>2. /\ st \in Seq(Seq(Action)) /\ tx \in Seq(Action) /\ td \in Seq(Action)
      /\ lo \in Nat /\ undo \in BOOLEAN
  BY DEF Control
<1>3. DOMAIN M = lo .. lo + Len(st)
  BY DEF Course
<1>4. /\ N[c] = Recast(M[c], D2, e) /\ N[g] = Recast(M[g], D2, e)
  BY <1>1, <1>3 DEF RecastAll
<1>5. /\ \A k \in 1 .. Len(st) : \A i \in 1 .. Len(st[k]) : Refs(st[k][i]) \subseteq D2
      /\ td = <<>> => \A i \in 1 .. Len(tx) : Refs(tx[i]) \subseteq D2
      /\ \A i \in 1 .. Len(td) : Refs(td[i]) \subseteq D2
  BY DEF RefsIn
<1>6. ContentOK(Recast(m, D2, e), D2, F2)
  BY RecastOK DEF Way
<1> HIDE DEF c, g, N, undo
<1>7. CASE ms = "Transaction" /\ td = <<>>
  <2>1. Leads(M[c], tx, m, FALSE, D, F)
    BY <1>7 DEF Way, c
  <2>5. \A i \in 1 .. Len(tx) : Refs(tx[i]) \subseteq D2
    BY <1>5, <1>7
  <2>2. ClosedIn(M[c], D2)
    BY <1>2, <2>5, <2>1, LeadsClosed
  <2>3. Leads(Recast(M[c], D2, e), tx, Recast(m, D2, e), FALSE, D2, F2)
    BY <1>2, <2>5, <2>1, <2>2, LeadsRecast
  <2>4. Course(H, N, D2, F2, r, st, lo)
    BY <1>1, <1>2, <1>5, <2>2, CourseRecast DEF N
  <2> QED
    BY <1>4, <1>6, <1>7, <2>3, <2>4 DEF Way, c, N
<1>8. CASE ~(ms = "Transaction" /\ td = <<>>)
  <2>1. Leads(m, td, M[g], undo, D, F)
    BY <1>8 DEF Way, c, g, undo
  <2>2. ClosedIn(M[g], D2)
    BY <1>2, <1>5, <2>1, LeadsClosed
  <2>3. Leads(Recast(m, D2, e), td, Recast(M[g], D2, e), undo, D2, F2)
    BY <1>2, <1>5, <2>1, LeadsRecast
  <2>4. Course(H, N, D2, F2, r, st, lo)
    BY <1>1, <1>2, <1>5, <2>2, CourseRecast DEF N
  <2> QED
    BY <1>4, <1>6, <1>8, <2>3, <2>4 DEF Way, c, g, N, undo
<1> QED
  BY <1>7, <1>8

\* When nodes are born, die or are only marked, the contents of all steps
\* follow suit.
LEMMA CoreRecast ==
    ASSUME NEW H, NEW h, NEW r, NEW st, NEW lo, NEW cu, NEW ms, NEW tx, NEW td,
           Core(H, h, r, st, lo, cu, ms, tx, td),
           NEW g, HeapOK(g), LinksOK(g), Orphans(g), NEW e,
           Contents(g) = Recast(Contents(h), DOMAIN g, e),
           ContentOK(e, DOMAIN g \ DOMAIN h, FreeIn(g)),
           FreeIn(g) \cap DOMAIN h \subseteq FreeIn(h),
           Known(h, r) \cap DOMAIN g \subseteq Known(g, r),
           r # Null => r \in FreeIn(g), Fresh(g, r, ms),
           ClosedIn(Contents(h), DOMAIN g), RefsIn(st, tx, td, DOMAIN g)
    PROVE  Core(H, g, r, st, lo, cu, ms, tx, td)
<1> DEFINE D == DOMAIN h
           F == FreeIn(h)
           D2 == DOMAIN g
           F2 == FreeIn(g)
           m == Contents(h)
<1>1. /\ HeapOK(h) /\ Control(r, st, lo, cu, ms, tx, td)
      /\ r # Null => r \in F
  BY DEF Core
<1>2. PICK M : /\ Course(H, M, D, F, r, st, lo)
               /\ Way(M, m, D, F, lo + cu, ms, tx, td)
  BY DEF Core
<1>3. r \in D <=> r \in D2
  <2>1. D \subseteq Nodes /\ D2 \subseteq Nodes /\ Null \notin Nodes
    BY <1>1, NodeTreeAssumption DEF HeapOK
  <2>2. F \subseteq D /\ F2 \subseteq D2
    BY DEF FreeIn
  <2> QED
    BY <1>1, <2>1, <2>2
<1> DEFINE N == RecastAll(M, D2, e)
<1>4. /\ Course(H, N, D2, F2, r, st, lo)
      /\ Way(N, Recast(m, D2, e), D2, F2, lo + cu, ms, tx, td)
  <2>1. F2 \cap D \subseteq F /\ ContentOK(e, D2 \ D, F2) /\ ClosedIn(m, D2)
    OBVIOUS
  <2> HIDE DEF D, F, D2, F2, m
  <2>2. RefsIn(st, tx, td, D2)
    BY DEF D2
  <2> QED
    BY <1>1, <1>2, <1>3, <2>1, <2>2, WayRecast
<1>5. Associates(H, g, r, ms, tx, td)
  <2>1. Associates(H, h, r, ms, tx, td)
    BY DEF Core
  <2>2. ASSUME NEW k \in DOMAIN H PROVE DOMAIN H[k].items \subseteq Known(g, r)
    <3>1. ContentOK(N[k], D2, F2) /\ H[k] = Doc(N[k], r)
      BY <1>4 DEF Course
    <3>2. DOMAIN N[k] = D2
      BY <3>1 DEF ContentOK
    <3>3. DOMAIN H[k].items \subseteq D2
      BY <3>1, <3>2 DEF Doc, Within
    <3>4. DOMAIN H[k].items \subseteq Known(h, r)
      BY <2>1 DEF Associates
    <3> QED
      BY <3>3, <3>4
  <2>3. ASSUME ms = "Transaction", td = <<>>
        PROVE  \E G \in SUBSET Known(g, r) :
                  /\ r # Null => r \in G
                  /\ \A p \in G : Kids(Contents(g), p) \subseteq G \cup InsertedBy(tx)
    <3>1. PICK G \in SUBSET Known(h, r) :
             /\ r # Null => r \in G
             /\ \A p \in G : Kids(m, p) \subseteq G \cup InsertedBy(tx)
      BY <2>1, <2>3 DEF Associates
    <3> DEFINE K == G \cap D2
    <3>2. K \in SUBSET Known(g, r)
      BY <3>1
    <3>3. r # Null => r \in K
      BY <3>1 DEF FreeIn
    <3>4. ASSUME NEW p \in K PROVE Kids(Contents(g), p) \subseteq K \cup InsertedBy(tx)
      <4>1. p \in D /\ p \in D2
        BY <3>1 DEF Known
      <4>2. DOMAIN m = D
        BY ContentsFacts
      <4>3. Recast(m, D2, e)[p] = m[p]
        BY <4>1, <4>2 DEF Recast
      <4>4. Kids(Contents(g), p) = Kids(m, p)
        BY <4>3 DEF Kids
      <4>5. Kids(Contents(g), p) \subseteq D2
        <5>1. ContentOK(Contents(g), D2, F2)
          BY <1>4 DEF Way
        <5> QED
          BY <4>1, <5>1 DEF ContentOK
      <4> QED
        BY <3>1, <4>4, <4>5
    <3> QED
      BY <3>2, <3>3, <3>4
  <2> QED
    BY <2>2, <2>3 DEF Associates
<1>6. Way(N, Contents(g), D2, F2, lo + cu, ms, tx, td)
  BY <1>4
<1> HIDE DEF N
<1> QED
  BY <1>1, <1>4, <1>5, <1>6 DEF Core

\* Nobody that stays owns a node that dies.
LEMMA CoreRefs ==
    ASSUME NEW H, NEW h, NEW r, NEW st, NEW lo, NEW cu, NEW ms, NEW tx, NEW td,
           Core(H, h, r, st, lo, cu, ms, tx, td)
    PROVE  RefsIn(st, tx, td, DOMAIN h)
<1> DEFINE D == DOMAIN h
           F == FreeIn(h)
<1>1. PICK M : /\ Course(H, M, D, F, r, st, lo)
               /\ Way(M, Contents(h), D, F, lo + cu, ms, tx, td)
  BY DEF Core
<1>2. \A k \in 1 .. Len(st) : \A i \in 1 .. Len(st[k]) : Refs(st[k][i]) \subseteq D
  BY <1>1, LeadsRefs DEF Course
<1>3. Control(r, st, lo, cu, ms, tx, td)
  BY DEF Core
<1>4. td = <<>> => \A i \in 1 .. Len(tx) : Refs(tx[i]) \subseteq D
  <2>1. CASE ms = "Transaction" /\ td = <<>>
    BY <1>1, <2>1, LeadsRefs DEF Way
  <2>2. CASE ms # "Transaction"
    <3>1. tx = <<>> /\ Len(<<>>) = 0
      BY <1>3, <2>2 DEF Control
    <3> QED
      BY <3>1
  <2> QED
    BY <2>1, <2>2
<1>5. \A i \in 1 .. Len(td) : Refs(td[i]) \subseteq D
  <2>1. CASE ms = "Transaction" /\ td = <<>>
    <3>1. Len(td) = 0
      BY <2>1
    <3> QED
      BY <3>1
  <2>2. CASE ~(ms = "Transaction" /\ td = <<>>)
    <3> DEFINE undo == ms # "Redo"
    <3>1. Leads(Contents(h), td, M[Goal(ms, lo + cu)], undo, D, F) /\ undo \in BOOLEAN
      BY <1>1, <2>2 DEF Way
    <3> HIDE DEF undo
    <3> QED
      BY <3>1, LeadsRefs
  <2> QED
    BY <2>1, <2>2
<1> HIDE DEF D
<1> QED
  BY <1>2, <1>4, <1>5 DEF RefsIn, D

\* Some nodes of a heap, none of which owns another one.
Only(h, A) == [n \in A |-> h[n]]

LEMMA OnlyFacts ==
    ASSUME NEW h, HeapOK(h), LinksOK(h), Orphans(h),
           NEW A, A \subseteq DOMAIN h, ClosedIn(Contents(h), A),
           NEW g, g = Only(h, A), NEW r, NEW e
    PROVE  /\ HeapOK(g) /\ LinksOK(g) /\ Orphans(g)
           /\ FreeIn(g) = FreeIn(h) \cap A
           /\ Known(h, r) \cap A \subseteq Known(g, r)
           /\ Contents(g) = Recast(Contents(h), A, e)
<1> DEFINE D == DOMAIN h
           m == Contents(h)
<1>2. DOMAIN g = A /\ \A n \in A : g[n] = h[n]
  BY DEF Only
<1>3. DOMAIN m = D /\ \A n \in D : m[n] = h[n].items
  BY ContentsFacts
<1>4. \A n \in D : Kids(m, n) = Children(h, n)
  BY ContentsFacts
<1> HIDE DEF m
<1>5. HeapOK(g)
  BY <1>2 DEF HeapOK
<1>6. Contents(g) = Recast(m, A, e)
  BY <1>2, <1>3 DEF Contents, Recast
<1>7. \A n \in A : Children(g, n) = Children(h, n)
  BY <1>2 DEF Children
<1>8. \A n \in A : Children(g, n) \subseteq A
  <2>1. \A n \in A : Children(h, n) \subseteq D
    BY DEF LinksOK
  <2> QED
    BY <1>3, <1>4, <1>7, <2>1 DEF ClosedIn, m
<1>9. LinksOK(g) /\ Orphans(g)
  BY <1>2, <1>7, <1>8 DEF LinksOK, Orphans
<1>10. FreeIn(g) = FreeIn(h) \cap A /\ Known(h, r) \cap A \subseteq Known(g, r)
  BY <1>2 DEF FreeIn, Known
<1>11. Contents(g) = Recast(Contents(h), A, e)
  BY <1>6 DEF m
<1> QED
  BY <1>5, <1>9, <1>10, <1>11, Zenon

LEMMA Shrink ==
    ASSUME NEW H, NEW h, NEW r, NEW st, NEW lo, NEW cu, NEW ms, NEW tx, NEW td,
           Core(H, h, r, st, lo, cu, ms, tx, td),
           NEW A, A \subseteq DOMAIN h, ClosedIn(Contents(h), A),
           r # Null => r \in A, RefsIn(st, tx, td, A)
    PROVE  Core(H, [n \in A |-> h[n]], r, st, lo, cu, ms, tx, td)
<1> DEFINE g == [n \in A |-> h[n]]
           e == [n \in {} |-> n]
           D == DOMAIN h
<1>1. /\ HeapOK(h) /\ LinksOK(h) /\ Orphans(h) /\ Fresh(h, r, ms)
      /\ r # Null => r \in FreeIn(h)
  BY DEF Core
<1>2. DOMAIN g = A /\ \A n \in A : g[n] = h[n]
  OBVIOUS
<1>3. g = Only(h, A)
  BY DEF Only
<1> HIDE DEF g
<1>4. /\ HeapOK(g) /\ LinksOK(g) /\ Orphans(g)
      /\ FreeIn(g) = FreeIn(h) \cap A
      /\ Known(h, r) \cap A \subseteq Known(g, r)
      /\ Contents(g) = Recast(Contents(h), A, e)
  BY <1>1, <1>3, OnlyFacts, SMTT(30)
<1>11. A \ D = {} /\ ContentOK(e, A \ D, FreeIn(g))
  BY NoContent
<1>13. Fresh(g, r, ms)
  <2>1. \A n \in A : Children(g, n) = Children(h, n)
    BY <1>2 DEF Children
  <2> QED
    BY <1>1, <1>2, <2>1 DEF Fresh
<1>14. r # Null => r \in FreeIn(g)
  BY <1>1, <1>4
<1>15. /\ ClosedIn(Contents(h), DOMAIN g)
       /\ RefsIn(st, tx, td, DOMAIN g)
       /\ Contents(g) = Recast(Contents(h), DOMAIN g, e)
       /\ ContentOK(e, DOMAIN g \ DOMAIN h, FreeIn(g))
       /\ FreeIn(g) \cap DOMAIN h \subseteq FreeIn(h)
       /\ Known(h, r) \cap DOMAIN g \subseteq Known(g, r)
       /\ Core(H, h, r, st, lo, cu, ms, tx, td)
  BY <1>2, <1>4, <1>11
<1> HIDE DEF e
<1>16. Core(H, g, r, st, lo, cu, ms, tx, td)
  BY ONLY <1>4, <1>13, <1>14, <1>15, CoreRecast, SMTT(30)
<1> QED
  BY <1>16 DEF g

\* What the client, the tree and the recorded actions own outlives the step.
LEMMA ReleaseCore ==
    ASSUME NEW H, NEW h, NEW ix, Release(h, ix),
           Core(H, h, root', stack', min', current', mstate', txActions', todo')
    PROVE  Core(H, heap', root', stack', min', current', mstate', txActions', todo')
<1> DEFINE A == Reach(h, Owners')
<1>1. heap' = [n \in A |-> h[n]]
  BY DEF Release
<1>2. /\ A \subseteq DOMAIN h /\ ClosedIn(Contents(h), A)
      /\ Owners' \cap DOMAIN h \subseteq A
  BY ReachFacts
<1> HIDE DEF A
<1>3. RefsIn(stack', txActions', todo', DOMAIN h)
  BY CoreRefs
<1>4. ASSUME NEW a, Recorded(a, stack', txActions'), Refs(a) \subseteq DOMAIN h
      PROVE  Refs(a) \subseteq A
  <2>1. CASE a \in Elements(txActions')
    <3>1. Refs(a) \subseteq Owners'
      BY <2>1 DEF Owners, HeldByActions
    <3> QED
      BY <1>2, <1>4, <3>1
  <2>2. CASE \E k \in 1 .. Len(stack') : a \in Elements(stack'[k])
    <3>1. stack' \in Seq(Seq(Action))
      BY DEF Core, Control
    <3>2. PICK k \in 1 .. Len(stack') : a \in Elements(stack'[k])
      BY <2>2
    <3>3. stack'[k] \in Elements(stack')
      BY <3>1 DEF Elements
    <3>4. Refs(a) \subseteq HeldByActions(stack'[k])
      BY <3>2 DEF HeldByActions
    <3>5. Refs(a) \subseteq Owners'
      BY <3>3, <3>4 DEF Owners
    <3> QED
      BY <1>2, <1>4, <3>5
  <2> QED
    BY <1>4, <2>1, <2>2 DEF Recorded
<1>5. RefsIn(stack', txActions', todo', A)
  <2>1. /\ stack' \in Seq(Seq(Action)) /\ txActions' \in Seq(Action)
        /\ todo' \in Seq(Action)
        /\ \A i \in 1 .. Len(todo') : Recorded(todo'[i], stack', txActions')
    BY DEF Core, Control
  <2>2. ASSUME NEW k \in 1 .. Len(stack'), NEW i \in 1 .. Len(stack'[k])
        PROVE  Refs(stack'[k][i]) \subseteq A
    <3>1. stack'[k] \in Seq(Action)
      BY <2>1, ElementOfSeq
    <3>2. stack'[k][i] \in Elements(stack'[k])
      BY <3>1 DEF Elements
    <3>3. Refs(stack'[k][i]) \subseteq DOMAIN h
      BY <1>3 DEF RefsIn
    <3> QED
      BY <1>4, <3>2, <3>3 DEF Recorded
  <2>3. ASSUME todo' = <<>>, NEW i \in 1 .. Len(txActions')
        PROVE  Refs(txActions'[i]) \subseteq A
    <3>1. txActions'[i] \in Elements(txActions')
      BY <2>1 DEF Elements
    <3>2. Refs(txActions'[i]) \subseteq DOMAIN h
      BY <1>3, <2>3 DEF RefsIn
    <3> QED
      BY <1>4, <3>1, <3>2 DEF Recorded
  <2>4. ASSUME NEW i \in 1 .. Len(todo')
        PROVE  Refs(todo'[i]) \subseteq A
    <3>1. Refs(todo'[i]) \subseteq DOMAIN h
      BY <1>3 DEF RefsIn
    <3> QED
      BY <1>4, <2>1, <3>1
  <2> QED
    BY <2>2, <2>3, <2>4 DEF RefsIn
<1>6. root' # Null => root' \in A
  <2>1. root' # Null => root' \in DOMAIN h
    BY DEF Core, FreeIn
  <2>2. root' \in Owners'
    BY DEF Owners
  <2> QED
    BY <1>2, <2>1, <2>2
<1> QED
  BY <1>1, <1>2, <1>5, <1>6, Shrink

LEMMA Grow ==
    ASSUME NEW H, NEW h, NEW r, NEW st, NEW lo, NEW cu, NEW ms, NEW tx, NEW td,
           Core(H, h, r, st, lo, cu, ms, tx, td),
           NEW g, HeapOK(g), LinksOK(g), Orphans(g), DOMAIN h \subseteq DOMAIN g,
           \A n \in DOMAIN h : g[n] = h[n],
           NEW e, e = [n \in DOMAIN g \ DOMAIN h |-> g[n].items],
           ContentOK(e, DOMAIN g \ DOMAIN h, FreeIn(g)),
           Fresh(g, r, ms)
    PROVE  Core(H, g, r, st, lo, cu, ms, tx, td)
<1> DEFINE D == DOMAIN h
           m == Contents(h)
<1>1. /\ DOMAIN m = D /\ \A n \in D : m[n] = h[n].items
      /\ DOMAIN Contents(g) = DOMAIN g
      /\ \A n \in DOMAIN g : Contents(g)[n] = g[n].items
  BY ContentsFacts
<1>2. Contents(g) = Recast(m, DOMAIN g, e)
  BY <1>1 DEF Contents, Recast
<1>3. /\ FreeIn(g) \cap DOMAIN h \subseteq FreeIn(h)
      /\ FreeIn(h) \subseteq FreeIn(g)
      /\ Known(h, r) \cap DOMAIN g \subseteq Known(g, r)
  BY DEF FreeIn, Known
<1>4. r # Null => r \in FreeIn(g)
  BY <1>3 DEF Core
<1>5. ClosedIn(m, DOMAIN g)
  BY <1>1 DEF ClosedIn
<1>6. RefsIn(st, tx, td, DOMAIN g)
  <2>1. RefsIn(st, tx, td, D)
    BY CoreRefs
  <2> QED
    BY <2>1 DEF RefsIn
<1>7. /\ HeapOK(g) /\ LinksOK(g) /\ Orphans(g) /\ Fresh(g, r, ms)
      /\ ContentOK(e, DOMAIN g \ DOMAIN h, FreeIn(g))
      /\ Core(H, h, r, st, lo, cu, ms, tx, td)
  OBVIOUS
<1> QED
  BY ONLY <1>2, <1>3, <1>4, <1>5, <1>6, <1>7, CoreRecast, SMTT(30)

----------------------------------------------------------------------------
(***************************************************************************)
(* isWritable() and isDetached() climb no further than they are led.       *)
(***************************************************************************)

\* The climb from n.
Climbing(h, G, n, N, at) ==
    at = [k \in 0 .. N |-> IF k = 0 THEN n ELSE Up(h, G, at[k - 1])]

LEMMA ClimbExists ==
    ASSUME NEW h, NEW G, NEW n, NEW S, n \in S, NEW N \in Nat,
           \A m \in S : Up(h, G, m) \in S
    PROVE  \E at : Climbing(h, G, n, N, at)
<1> DEFINE Path(at, j) == /\ Climbing(h, G, n, j, at)
                          /\ \A k \in 0 .. j : at[k] \in S
           T == {j \in 0 .. N : \E at : Path(at, j)}
<1>1. 0 \in T
  <2> DEFINE at == [k \in 0 .. 0 |-> n]
  <2>1. Path(at, 0)
    BY DEF Climbing
  <2> HIDE DEF at, Path
  <2>2. \E bt : Path(bt, 0)
    BY <2>1
  <2> QED
    BY <2>2
<1>2. ASSUME NEW j \in 0 .. N - 1, j \in T PROVE j + 1 \in T
  <2>1. PICK at : Path(at, j)
    BY <1>2
  <2>7. at = [k \in 0 .. j |-> IF k = 0 THEN n ELSE Up(h, G, at[k - 1])]
    BY <2>1 DEF Climbing
  <2> DEFINE bt == [k \in 0 .. j + 1 |-> IF k = j + 1 THEN Up(h, G, at[j]) ELSE at[k]]
  <2>2. DOMAIN bt = 0 .. j + 1 /\ bt[j + 1] = Up(h, G, at[j]) /\ \A k \in 0 .. j : bt[k] = at[k]
    OBVIOUS
  <2>8. \A k \in 0 .. j + 1 : k = j + 1 \/ k \in 0 .. j
    OBVIOUS
  <2>9. \A k \in 0 .. j : at[k] \in S
    BY <2>1
  <2>3. at[j] \in S /\ Up(h, G, at[j]) \in S
    BY <2>9
  <2>10. bt = [k \in 0 .. j + 1 |-> bt[k]]
    OBVIOUS
  <2> HIDE DEF bt, Path
  <2>4. \A k \in 0 .. j + 1 : bt[k] \in S
    BY <2>9, <2>2, <2>3, <2>8
  <2>5. ASSUME NEW k \in 0 .. j + 1 PROVE bt[k] = IF k = 0 THEN n ELSE Up(h, G, bt[k - 1])
    <3>1. CASE k = j + 1
      <4>1. k # 0 /\ k - 1 = j /\ j \in 0 .. j
        BY <3>1
      <4> QED
        BY <2>2, <3>1, <4>1
    <3>2. CASE k \in 0 .. j
      <4>1. bt[k] = at[k] /\ (k # 0 => k - 1 \in 0 .. j /\ bt[k - 1] = at[k - 1])
        BY <2>2, <3>2
      <4>2. at[k] = IF k = 0 THEN n ELSE Up(h, G, at[k - 1])
        BY <2>7, <3>2
      <4> QED
        BY <4>1, <4>2
    <3> QED
      BY <2>8, <3>1, <3>2
  <2>11. bt = [k \in 0 .. j + 1 |-> IF k = 0 THEN n ELSE Up(h, G, bt[k - 1])]
    BY <2>5, <2>10
  <2>6. Path(bt, j + 1)
    BY <2>4, <2>11 DEF Path, Climbing
  <2> QED
    BY <2>6
<1>3. N \in T
  <2>1. 0 \in 0 .. N /\ 0 \in Nat /\ N \in 0 .. N
    OBVIOUS
  <2> HIDE DEF T
  <2>2. \A k \in 0 .. N - 1 : k \in T => k + 1 \in T
    BY <1>2
  <2> QED
    BY ONLY <1>1, <2>1, <2>2, Upwards, N \in Nat, ZenonT(30)
<1> QED
  BY <1>3

\* The climb is the recursion in Climb, which so has a solution.
LEMMA ClimbPath ==
    ASSUME NEW h, NEW G, NEW n, NEW S, n \in S, \A m \in S : Up(h, G, m) \in S
    PROVE  \E at : /\ Climbing(h, G, n, Cardinality(Nodes), at)
                   /\ Climb(h, n, G) = at[Cardinality(Nodes)]
                   /\ \A k \in 0 .. Cardinality(Nodes) : at[k] \in S
<1> DEFINE N == Cardinality(Nodes)
           Body(at) == [k \in 0 .. N |-> IF k = 0 THEN n ELSE Up(h, G, at[k - 1])]
<1>1. N \in Nat
  BY NodeTreeAssumption, FS_CardinalityType
<1>2. Climb(h, n, G) = (CHOOSE at : at = Body(at))[N]
  BY DEF Climb
<1> HIDE DEF N
<1>3. \E at : at = Body(at)
  <2>1. \E at : Climbing(h, G, n, N, at)
    BY <1>1, ClimbExists
  <2> QED
    BY <2>1 DEF Climbing
<1> DEFINE bt == CHOOSE b : b = Body(b)
<1>4. bt = Body(bt)
  BY <1>3
<1>7. Climb(h, n, G) = bt[N]
  BY <1>2
<1> HIDE DEF bt
<1>5. \A k \in 0 .. N : bt[k] \in S
  <2> DEFINE T == {k \in 0 .. N : bt[k] \in S}
  <2>1. 0 \in T
    BY <1>1, <1>4
  <2>2. ASSUME NEW k \in 0 .. N - 1, k \in T PROVE k + 1 \in T
    <3>1. k + 1 \in 0 .. N /\ k + 1 # 0 /\ (k + 1) - 1 = k
      BY <1>1
    <3>2. bt[k + 1] = Up(h, G, bt[k])
      BY <1>4, <3>1
    <3> QED
      BY <2>2, <3>1, <3>2
  <2>3. 0 \in 0 .. N /\ 0 \in Nat
    BY <1>1
  <2> HIDE DEF T
  <2>4. \A k \in 0 .. N : k \in T
    BY <1>1, <2>1, <2>2, <2>3, Upwards
  <2> QED
    BY <2>4 DEF T
<1>6. Climbing(h, G, n, N, bt)
  BY <1>4 DEF Climbing
<1> QED
  BY <1>5, <1>6, <1>7 DEF N

LEMMA ClimbStays ==
    ASSUME NEW h, NEW G, NEW n, NEW S, n \in S, \A m \in S : Up(h, G, m) \in S
    PROVE  Climb(h, n, G) \in S
<1>1. Cardinality(Nodes) \in 0 .. Cardinality(Nodes)
  BY NodeTreeAssumption, FS_CardinalityType
<1> QED
  BY <1>1, ClimbPath

\* The climb goes on at m.
Goes(h, G, m) == m \in G /\ h[m].parent # Null

\* Where no node is above itself, as many steps as there are nodes are enough to
\* come to an end.
LEMMA ClimbStops ==
    ASSUME NEW h, NEW G, G \subseteq Nodes, NEW n, NEW S, n \in S,
           \A m \in S : Up(h, G, m) \in S,
           \A T \in SUBSET {m \in S : Goes(h, G, m)} :
              T # {} => \E m \in T : Up(h, G, m) \notin T
    PROVE  ~Goes(h, G, Climb(h, n, G))
<1> DEFINE N == Cardinality(Nodes)
<1>1. N \in Nat /\ IsFiniteSet(Nodes)
  BY NodeTreeAssumption, FS_CardinalityType
<1>2. PICK at : /\ Climbing(h, G, n, N, at)
                /\ Climb(h, n, G) = at[N]
                /\ \A k \in 0 .. N : at[k] \in S
  BY ClimbPath
<1> HIDE DEF N
<1>3. \A k \in 0 .. N - 1 : at[k + 1] = Up(h, G, at[k])
  <2>1. at = [k \in 0 .. N |-> IF k = 0 THEN n ELSE Up(h, G, at[k - 1])]
    BY <1>2 DEF Climbing
  <2>2. ASSUME NEW k \in 0 .. N - 1 PROVE at[k + 1] = Up(h, G, at[k])
    <3>1. k + 1 \in 0 .. N /\ k + 1 # 0 /\ (k + 1) - 1 = k
      BY <1>1
    <3> QED
      BY <2>1, <3>1
  <2> QED
    BY <2>2
<1>4. SUFFICES ASSUME Goes(h, G, at[N]) PROVE FALSE
  BY <1>2
<1>5. \A k \in 0 .. N : Goes(h, G, at[k])
  <2> DEFINE T == {k \in 0 .. N : Goes(h, G, at[k])}
  <2>1. N \in T /\ N \in 0 .. N /\ 0 \in Nat
    BY <1>1, <1>4
  <2>2. ASSUME NEW k \in 0 .. N - 1, k + 1 \in T PROVE k \in T
    <3>1. k \in 0 .. N
      BY ONLY k \in 0 .. N - 1, <1>1
    <3>2. at[k + 1] = Up(h, G, at[k])
      BY <1>3
    <3> QED
      BY <2>2, <3>1, <3>2 DEF Up, Goes
  <2> HIDE DEF T
  <2>4. \A k \in 0 .. N - 1 : k + 1 \in T => k \in T
    BY <2>2
  <2>3. \A k \in 0 .. N : k \in T
    BY ONLY <1>1, <2>1, <2>4, Downwards, ZenonT(30)
  <2> QED
    BY <2>3 DEF T
<1>6. ASSUME NEW i \in 0 .. N, NEW j \in 0 .. N, i < j, at[i] = at[j] PROVE FALSE
  <2> DEFINE T == {at[k] : k \in i .. j - 1}
  <2>1. T \subseteq {m \in S : Goes(h, G, m)}
    BY <1>1, <1>2, <1>5
  <2>2. at[i] \in T
    BY <1>1, <1>6
  <2>3. PICK k \in i .. j - 1 : Up(h, G, at[k]) \notin T
    BY <2>1, <2>2
  <2>4. k \in 0 .. N - 1 /\ (k + 1 = j \/ k + 1 \in i .. j - 1)
    BY <1>1
  <2>5. at[k + 1] \notin T
    BY <1>3, <2>3, <2>4
  <2> QED
    BY <1>6, <2>2, <2>4, <2>5
<1>7. \E i, j \in 0 .. N : i # j /\ at[i] = at[j]
  <2>1. IsFiniteSet(0 .. N) /\ Cardinality(0 .. N) = N + 1
    BY <1>1, FS_Interval
  <2>2. at \in [0 .. N -> Nodes]
    <3>1. \A k \in 0 .. N : at[k] \in Nodes
      BY <1>5 DEF Goes
    <3>2. at = [k \in 0 .. N |-> at[k]]
      BY <1>2 DEF Climbing
    <3> QED
      BY <3>1, <3>2
  <2>3. Cardinality(Nodes) < Cardinality(0 .. N)
    BY <1>1, <2>1 DEF N
  <2> QED
    BY <1>1, <2>1, <2>2, <2>3, FS_PigeonHole
<1>8. PICK i \in 0 .. N, j \in 0 .. N : i # j /\ at[i] = at[j]
  BY <1>7
<1>9. i < j \/ j < i
  BY <1>1, <1>8
<1> QED
  BY <1>6, <1>8, <1>9

----------------------------------------------------------------------------
\* Whoever goes on above a node of S stays in S, and at an owner.
Upward(h, G, S) ==
    \A m \in S : Goes(h, G, m) =>
        /\ h[m].parent \in S
        /\ h[m].parent \in DOMAIN h => m \in Children(h, h[m].parent)

\* In a forest such a climb comes to an end in S.
LEMMA ClimbTop ==
    ASSUME NEW h, HeapOK(h), Forest(Contents(h)), NEW G, G \subseteq DOMAIN h,
           NEW S, Upward(h, G, S), NEW n \in S
    PROVE  Climb(h, n, G) \in S /\ ~Goes(h, G, Climb(h, n, G))
<1>1. \A m \in S : Up(h, G, m) \in S
  BY DEF Up, Upward, Goes
<1>2. G \subseteq Nodes
  BY DEF HeapOK
<1>3. ASSUME NEW T \in SUBSET {m \in S : Goes(h, G, m)}, T # {}
      PROVE  \E m \in T : Up(h, G, m) \notin T
  <2>1. T \subseteq DOMAIN h /\ T \subseteq S
    BY DEF Goes
  <2>2. DOMAIN Contents(h) = DOMAIN h
        /\ \A p \in DOMAIN h : Kids(Contents(h), p) = Children(h, p)
    BY ContentsFacts
  <2>3. PICK m \in T : \A p \in T : m \notin Kids(Contents(h), p)
    BY <1>3, <2>1, <2>2 DEF Forest
  <2>4. Goes(h, G, m) /\ m \in S
    BY <2>1
  <2>5. Up(h, G, m) = h[m].parent
    BY <2>4 DEF Up, Goes
  <2>6. ASSUME h[m].parent \in T PROVE FALSE
    BY <2>1, <2>2, <2>3, <2>4, <2>6 DEF Upward
  <2> QED
    BY <2>5, <2>6
<1>4. Climb(h, n, G) \in S
  BY <1>1, ClimbStays
<1>5. ~Goes(h, G, Climb(h, n, G))
  BY ONLY <1>1, <1>2, <1>3, n \in S, ClimbStops
<1> QED
  BY <1>4, <1>5

(***************************************************************************)
(* One step per action.                                                    *)
(***************************************************************************)
Before(H) ==
    Core(H, heap, root, stack, min, current, mstate, txActions, todo)

After(H) ==
    Core(H, heap', root', stack', min', current', mstate', txActions', todo')

\* A single node has no children.
LEMMA SingleOK ==
    ASSUME NEW n \in Nodes, NEW F
    PROVE  ContentOK([x \in {n} |-> <<>>], {n}, F)
<1> DEFINE e == [x \in {n} |-> <<>>]
<1>1. DOMAIN e = {n} /\ e[n] = <<>> /\ DOMAIN e[n] = {} /\ e = [x \in {n} |-> e[x]]
  OBVIOUS
<1>2. e[n] \in Seq(Nodes) /\ e[n] \in Seq(Bytes)
  OBVIOUS
<1> HIDE DEF e
<1>3. \A x \in {n} : Kids(e, x) = {}
  BY <1>1 DEF Kids, Elements
<1>4. Forest(e)
  BY <1>1, <1>3 DEF Forest
<1> QED
  BY <1>1, <1>2, <1>3, <1>4 DEF ContentOK, e

LEMMA CreateCore ==
    ASSUME Plain, IInv, NEW H, Before(H), NEW n \in Nodes, Create(n)
    PROVE  After(H)
<1> DEFINE e == [x \in {n} |-> <<>>]
<1>1. PICK p \in Uninit :
         heap' = [m \in DOMAIN heap \cup {n} |->
                     IF m \in DOMAIN heap THEN heap[m]
                     ELSE [items |-> <<>>, parent |-> p, state |-> "Created",
                           managed |-> FALSE, id |-> 0]]
  BY DEF Create
<1>2. n \notin DOMAIN heap
  BY DEF Create
<1>3. /\ DOMAIN heap' = DOMAIN heap \cup {n}
      /\ \A m \in DOMAIN heap : heap'[m] = heap[m]
      /\ heap'[n].items = <<>>
      /\ DOMAIN heap' \ DOMAIN heap = {n}
  BY <1>1, <1>2
<1>13. DOMAIN heap'[n].items = {}
  <2>1. DOMAIN <<>> = {}
    OBVIOUS
  <2> QED
    BY <1>3, <2>1
<1>4. e = [x \in DOMAIN heap' \ DOMAIN heap |-> heap'[x].items]
  BY <1>3
<1>5. ContentOK(e, DOMAIN heap' \ DOMAIN heap, FreeIn(heap'))
  BY <1>3, SingleOK
<1> HIDE DEF e
<1>6. HeapOK(heap')
  BY CreateStep DEF Good, NodesGood
<1>7. /\ \A m \in DOMAIN heap : Children(heap', m) = Children(heap, m)
      /\ Children(heap', n) = {}
  BY <1>3, <1>13 DEF Children, Elements
<1>8. LinksOK(heap') /\ Orphans(heap')
  <2>1. heap'[n].parent \in {Null, Wild}
    BY <1>1, <1>2 DEF Plain
  <2> QED
    BY <1>3, <1>7, <2>1 DEF Before, Core, LinksOK, Orphans
<1>9. Fresh(heap', root, mstate)
  <2>1. heap'[n].state = "Created"
    BY <1>1, <1>2
  <2> QED
    BY <1>3, <1>7, <2>1 DEF Before, Core, Fresh
<1>10. Core(H, heap, root, stack, min, current, mstate, txActions, todo)
  BY DEF Before
<1>11. Core(H, heap', root, stack, min, current, mstate, txActions, todo)
  BY <1>3, <1>4, <1>5, <1>6, <1>8, <1>9, <1>10, Grow
<1>12. UNCHANGED <<root, stack, min, current, mstate, txActions, todo>>
  BY DEF Create, engineVars
<1> QED
  BY <1>11, <1>12 DEF After

LEMMA DropCore ==
    ASSUME IInv, NEW H, Before(H), NEW n \in Nodes, Drop(n)
    PROVE  After(H)
<1>1. /\ Release(heap, index)
      /\ UNCHANGED <<root, stack, min, current, mstate, txActions, todo>>
  BY DEF Drop, engineVars
<1>2. Core(H, heap, root', stack', min', current', mstate', txActions', todo')
  BY <1>1 DEF Before
<1> QED
  BY <1>1, <1>2, ReleaseCore DEF After

\* A document has the nodes that the root reaches.
LEMMA DocItems ==
    ASSUME NEW m, NEW r PROVE DOMAIN Doc(m, r).items = Within(m, {r})
  BY DEF Doc

\* A call begins or ends that changes neither the nodes nor what is recorded.
LEMMA Turn ==
    ASSUME NEW H, NEW h, NEW r, NEW st, NEW lo, NEW cu, NEW ms, NEW tx, NEW td,
           Core(H, h, r, st, lo, cu, ms, tx, td), ms # "Destroyed",
           NEW ms2, NEW td2, Control(r, st, lo, cu, ms2, tx, td2),
           ms2 = "Transaction" /\ td2 = <<>> => ms = "Idle",
           \A M : /\ Course(H, M, DOMAIN h, FreeIn(h), r, st, lo)
                  /\ Way(M, Contents(h), DOMAIN h, FreeIn(h), lo + cu, ms, tx, td)
                  => Way(M, Contents(h), DOMAIN h, FreeIn(h), lo + cu, ms2, tx, td2)
    PROVE  Core(H, h, r, st, lo, cu, ms2, tx, td2)
<1> DEFINE D == DOMAIN h
           F == FreeIn(h)
           m == Contents(h)
<1>1. PICK M : /\ Course(H, M, D, F, r, st, lo)
               /\ Way(M, m, D, F, lo + cu, ms, tx, td)
  BY DEF Core
<1>2. Way(M, m, D, F, lo + cu, ms2, tx, td2)
  BY <1>1
<1>3. Control(r, st, lo, cu, ms, tx, td) /\ Associates(H, h, r, ms, tx, td)
  BY DEF Core
<1>4. ASSUME ms2 = "Transaction", td2 = <<>>
      PROVE  \E G \in SUBSET Known(h, r) :
                /\ r # Null => r \in G
                /\ \A p \in G : Kids(m, p) \subseteq G \cup InsertedBy(tx)
  <2>1. ms = "Idle" /\ td = <<>>
    BY <1>3, <1>4 DEF Control
  <2>2. Goal(ms, lo + cu) = lo + cu
    BY <2>1 DEF Goal
  <2>3. Leads(m, <<>>, M[lo + cu], ms # "Redo", D, F)
    BY <1>1, <2>1, <2>2 DEF Way
  <2>4. m = M[lo + cu]
    BY <2>3, LeadsNowhere
  <2>5. lo + cu \in lo .. lo + Len(st)
    BY <1>3, GoalFacts
  <2>6. H[lo + cu] = Doc(m, r) /\ lo + cu \in DOMAIN H
    BY <1>1, <2>4, <2>5 DEF Course
  <2>7. Within(m, {r}) \subseteq Known(h, r)
    <3>1. DOMAIN H[lo + cu].items \subseteq Known(h, r)
      BY <1>3, <2>6 DEF Associates
    <3> QED
      BY <2>6, <3>1, DocItems
  <2>8. ContentOK(m, D, F) /\ DOMAIN m = D
    BY <1>1 DEF Way, ContentOK
  <2>9. r # Null => r \in D
    BY DEF Core, FreeIn
  <2>10. /\ Within(m, {r}) \subseteq D /\ ClosedIn(m, Within(m, {r}))
         /\ r # Null => r \in Within(m, {r})
    BY <2>8, <2>9, WithinFacts
  <2>11. \A p \in Within(m, {r}) : Kids(m, p) \subseteq Within(m, {r})
    BY <2>8, <2>10 DEF ClosedIn, ContentOK
  <2> HIDE DEF m
  <2> QED
    BY <2>7, <2>10, <2>11
<1>5. Associates(H, h, r, ms2, tx, td2)
  BY <1>3, <1>4 DEF Associates
<1>6. Fresh(h, r, ms2)
  BY DEF Core, Fresh
<1> QED
  BY <1>1, <1>2, <1>5, <1>6 DEF Core

\* At rest the present content is the one of the current step.
LEMMA RestWay ==
    ASSUME NEW M, NEW m, NEW D, NEW F, NEW c, NEW ms, NEW tx,
           Way(M, m, D, F, c, ms, tx, <<>>), ms = "Idle"
    PROVE  m = M[c]
<1>1. Goal(ms, c) = c
  BY DEF Goal
<1>2. Leads(m, <<>>, M[c], ms # "Redo", D, F)
  BY <1>1 DEF Way
<1> QED
  BY <1>2, LeadsNowhere

LEMMA ReversedFacts ==
    ASSUME NEW S, NEW s \in Seq(S)
    PROVE  /\ Reversed(s) \in Seq(S) /\ Len(Reversed(s)) = Len(s)
           /\ \A i \in 1 .. Len(s) : Reversed(s)[i] = s[Len(s) + 1 - i]
           /\ \A i \in 1 .. Len(Reversed(s)) : Reversed(s)[i] \in Elements(s)
<1>1. Reversed(s) \in Seq(S) /\ Len(s) \in Nat
  BY ReversedType, LenProperties
<1>2. Len(Reversed(s)) = Len(s) /\ \A i \in 1 .. Len(s) : Reversed(s)[i] = s[Len(s) + 1 - i]
  BY <1>1 DEF Reversed
<1>3. \A i \in 1 .. Len(s) : Len(s) + 1 - i \in DOMAIN s
  BY <1>1
<1> QED
  BY <1>1, <1>2, <1>3 DEF Elements

LEMMA BeginCore ==
    ASSUME NEW H, Before(H), BeginTransaction PROVE After(H)
<1>1. /\ todo = <<>> /\ mstate = "Idle" /\ mstate' = "Transaction"
      /\ UNCHANGED <<heap, root, stack, min, current, txActions, todo>>
  BY DEF BeginTransaction, Ready, nodeVars, engineVars
<1>2. Control(root, stack, min, current, mstate, txActions, todo)
  BY DEF Before, Core
<1>3. Control(root, stack, min, current, "Transaction", txActions, <<>>)
  BY <1>1, <1>2 DEF Control
<1>4. ASSUME NEW M, NEW m, NEW D, NEW F,
             Way(M, m, D, F, min + current, mstate, txActions, todo)
      PROVE  Way(M, m, D, F, min + current, "Transaction", txActions, <<>>)
  <2>1. txActions = <<>>
    BY <1>1, <1>2 DEF Control
  <2>2. m = M[min + current]
    BY <1>1, <1>4, RestWay
  <2>3. Leads(M[min + current], txActions, m, FALSE, D, F)
    BY <2>1, <2>2, LeadsNowhere
  <2> QED
    BY <1>4, <2>3 DEF Way
<1>5. Core(H, heap, root, stack, min, current, "Transaction", txActions, <<>>)
  BY <1>1, <1>3, <1>4, Turn DEF Before
<1> QED
  BY <1>1, <1>5 DEF After

LEMMA CommitNothingCore ==
    ASSUME NEW H, Before(H), CommitNothing PROVE After(H)
<1>1. /\ todo = <<>> /\ mstate = "Transaction" /\ mstate' = "Idle" /\ txActions = <<>>
      /\ UNCHANGED <<heap, root, stack, min, current, txActions, todo>>
  BY DEF CommitNothing, Ready, nodeVars, engineVars
<1>2. Control(root, stack, min, current, "Idle", <<>>, <<>>)
  BY <1>1 DEF Before, Core, Control
<1>3. ASSUME NEW M, NEW m, NEW D, NEW F,
             Way(M, m, D, F, min + current, mstate, txActions, todo)
      PROVE  Way(M, m, D, F, min + current, "Idle", <<>>, <<>>)
  <2>1. Leads(M[min + current], <<>>, m, FALSE, D, F)
    BY <1>1, <1>3 DEF Way
  <2>2. m = M[min + current]
    BY <2>1, LeadsNowhere
  <2>3. Leads(m, <<>>, M[min + current], "Idle" # "Redo", D, F)
    BY <2>2, LeadsNowhere
  <2>4. Goal("Idle", min + current) = min + current
    BY DEF Goal
  <2> QED
    BY <1>3, <2>3, <2>4 DEF Way
<1>4. Core(H, heap, root, stack, min, current, "Idle", txActions, <<>>)
  BY <1>1, <1>2, <1>3, Turn DEF Before
<1> QED
  BY <1>1, <1>4 DEF After

LEMMA AbortCore ==
    ASSUME NEW H, Before(H), AbortTransaction PROVE After(H)
<1> DEFINE td == Reversed(txActions)
           ms == IF txActions = <<>> THEN "Idle" ELSE "Transaction"
<1>1. /\ todo = <<>> /\ mstate = "Transaction" /\ mstate' = ms /\ todo' = td
      /\ UNCHANGED <<heap, root, stack, min, current, txActions>>
  BY DEF AbortTransaction, Ready, nodeVars, engineVars
<1>2. Control(root, stack, min, current, mstate, txActions, todo)
  BY DEF Before, Core
<1>3. /\ txActions \in Seq(Action) /\ td \in Seq(Action) /\ Len(td) = Len(txActions)
      /\ \A i \in 1 .. Len(txActions) : td[i] = txActions[Len(txActions) + 1 - i]
      /\ \A i \in 1 .. Len(td) : td[i] \in Elements(txActions)
  BY <1>2, ReversedFacts DEF Control
<1> HIDE DEF td
<1>4. td = <<>> <=> txActions = <<>>
  BY <1>3, EmptySeq
<1>5. Control(root, stack, min, current, ms, txActions, td)
  BY <1>1, <1>2, <1>3, <1>4 DEF Control, Recorded
<1>6. ASSUME NEW M, NEW m, NEW D, NEW F,
             Way(M, m, D, F, min + current, mstate, txActions, todo)
      PROVE  Way(M, m, D, F, min + current, ms, txActions, td)
  <2>1. Leads(M[min + current], txActions, m, FALSE, D, F)
    BY <1>1, <1>6 DEF Way
  <2>2. Leads(m, td, M[min + current], TRUE, D, F)
    BY <1>3, <2>1, LeadsBack
  <2>3. (ms # "Redo") = TRUE /\ Goal(ms, min + current) = min + current
    BY DEF Goal
  <2>4. ~(ms = "Transaction" /\ td = <<>>)
    BY <1>4
  <2> HIDE DEF ms
  <2> QED
    BY <1>6, <2>2, <2>3, <2>4 DEF Way
<1>7. ~(ms = "Transaction" /\ td = <<>>)
  BY <1>4
<1>8. Core(H, heap, root, stack, min, current, ms, txActions, td)
  <2> HIDE DEF ms
  <2> QED
    BY <1>1, <1>5, <1>6, <1>7, Turn DEF Before
<1> QED
  BY <1>1, <1>8 DEF After

LEMMA UndoCore ==
    ASSUME NEW H, Before(H), Undo PROVE After(H)
<1> DEFINE q == stack[current]
           td == Reversed(q)
<1>1. /\ todo = <<>> /\ mstate = "Idle" /\ current # 0 /\ mstate' = "Undo" /\ todo' = td
      /\ UNCHANGED <<heap, root, stack, min, current, txActions>>
  BY DEF Undo, Ready, nodeVars, engineVars
<1>2. Control(root, stack, min, current, mstate, txActions, todo)
  BY DEF Before, Core
<1>3. current \in 1 .. Len(stack) /\ q \in Seq(Action)
  BY <1>1, <1>2, LenProperties, ElementOfSeq DEF Control
<1>4. /\ td \in Seq(Action) /\ Len(td) = Len(q)
      /\ \A i \in 1 .. Len(q) : td[i] = q[Len(q) + 1 - i]
      /\ \A i \in 1 .. Len(td) : td[i] \in Elements(q)
  BY <1>3, ReversedFacts
<1>5. \A i \in 1 .. Len(td) : Recorded(td[i], stack, txActions)
  BY <1>3, <1>4 DEF Recorded
<1> HIDE DEF td
<1>6. Control(root, stack, min, current, "Undo", txActions, td)
  BY <1>1, <1>2, <1>4, <1>5 DEF Control
<1>7. ASSUME NEW M, NEW m, NEW D, NEW F, NEW r, Course(H, M, D, F, r, stack, min),
             Way(M, m, D, F, min + current, mstate, txActions, todo)
      PROVE  Way(M, m, D, F, min + current, "Undo", txActions, td)
  <2>1. m = M[min + current]
    BY <1>1, <1>7, RestWay
  <2>2. Leads(M[min + current - 1], q, m, FALSE, D, F)
    BY <1>3, <1>7, <2>1 DEF Course
  <2>3. Leads(m, td, M[min + current - 1], TRUE, D, F)
    BY <1>3, <1>4, <2>2, LeadsBack
  <2>4. Goal("Undo", min + current) = min + current - 1
    BY <1>2 DEF Goal, Control
  <2>6. ("Undo" # "Redo") = TRUE
    OBVIOUS
  <2>5. Leads(m, td, M[Goal("Undo", min + current)], "Undo" # "Redo", D, F)
    BY <2>3, <2>4, <2>6
  <2> QED
    BY <1>7, <2>5 DEF Way
<1>8. Core(H, heap, root, stack, min, current, "Undo", txActions, td)
  BY <1>1, <1>6, <1>7, Turn DEF Before
<1> QED
  BY <1>1, <1>8 DEF After

LEMMA RedoCore ==
    ASSUME NEW H, Before(H), Redo PROVE After(H)
<1> DEFINE k == current + 1
           td == stack[k]
<1>1. /\ todo = <<>> /\ mstate = "Idle" /\ current # Len(stack)
      /\ mstate' = "Redo" /\ todo' = td
      /\ UNCHANGED <<heap, root, stack, min, current, txActions>>
  BY DEF Redo, Ready, nodeVars, engineVars
<1>2. Control(root, stack, min, current, mstate, txActions, todo)
  BY DEF Before, Core
<1>3. k \in 1 .. Len(stack) /\ td \in Seq(Action) /\ min \in Nat /\ current \in Nat
  BY <1>1, <1>2, LenProperties, ElementOfSeq DEF Control
<1>4. \A i \in 1 .. Len(td) : td[i] \in Elements(td)
  BY <1>3 DEF Elements
<1>5. \A i \in 1 .. Len(td) : Recorded(td[i], stack, txActions)
  BY <1>3, <1>4 DEF Recorded
<1>6. Control(root, stack, min, current, "Redo", txActions, td)
  <2> HIDE DEF td
  <2> QED
    BY <1>1, <1>2, <1>3, <1>5 DEF Control
<1>7. ASSUME NEW M, NEW m, NEW D, NEW F, NEW r, Course(H, M, D, F, r, stack, min),
             Way(M, m, D, F, min + current, mstate, txActions, todo)
      PROVE  Way(M, m, D, F, min + current, "Redo", txActions, td)
  <2>1. m = M[min + current]
    BY <1>1, <1>7, RestWay
  <2>2. min + k - 1 = min + current /\ min + k = min + current + 1
    BY <1>3
  <2>3. Leads(M[min + k - 1], td, M[min + k], FALSE, D, F)
    BY <1>3, <1>7 DEF Course
  <2>4. ("Redo" # "Redo") = FALSE /\ Goal("Redo", min + current) = min + current + 1
    BY DEF Goal
  <2>5. Leads(m, td, M[Goal("Redo", min + current)], "Redo" # "Redo", D, F)
    BY <2>1, <2>2, <2>3, <2>4
  <2> HIDE DEF td
  <2> QED
    BY <1>7, <2>5 DEF Way
<1> HIDE DEF td
<1>8. Core(H, heap, root, stack, min, current, "Redo", txActions, td)
  BY <1>1, <1>6, <1>7, Turn DEF Before
<1> QED
  BY <1>1, <1>8 DEF After

\* A step of abort, undo or redo that executes the next action, up to what it
\* does with the rest of the state.
LEMMA ExecuteFacts ==
    ASSUME NEW H, Before(H), todo # <<>>
    PROVE  /\ Executable(heap, Head(todo), mstate # "Redo")
           /\ \A M : 
                 /\ Course(H, M, DOMAIN heap, FreeIn(heap), root, stack, min)
                 /\ Way(M, Contents(heap), DOMAIN heap, FreeIn(heap),
                        min + current, mstate, txActions, todo)
                 => \E t :
                       /\ Move(Contents(heap), Head(todo), t, mstate # "Redo",
                               DOMAIN heap, FreeIn(heap))
                       /\ Leads(t, Tail(todo), M[Goal(mstate, min + current)],
                                mstate # "Redo", DOMAIN heap, FreeIn(heap))
<1> DEFINE D == DOMAIN heap
           F == FreeIn(heap)
           m == Contents(heap)
           undo == mstate # "Redo"
<1>1. undo \in BOOLEAN
  OBVIOUS
<1>2. todo \in Seq(Action) /\ HeapOK(heap) /\ LinksOK(heap)
  BY DEF Before, Core, Control
<1>3. ASSUME NEW M, Course(H, M, D, F, root, stack, min),
             Way(M, m, D, F, min + current, mstate, txActions, todo)
      PROVE  \E t : /\ Move(m, Head(todo), t, undo, D, F)
                    /\ Leads(t, Tail(todo), M[Goal(mstate, min + current)], undo, D, F)
  <2>1. Leads(m, todo, M[Goal(mstate, min + current)], undo, D, F)
    BY <1>3 DEF Way
  <2> HIDE DEF D, F, m, undo
  <2> QED
    BY <1>2, <2>1, LeadsHead
<1>4. PICK M : /\ Course(H, M, D, F, root, stack, min)
               /\ Way(M, m, D, F, min + current, mstate, txActions, todo)
  BY DEF Before, Core
<1>5. PICK t : Move(m, Head(todo), t, undo, D, F)
  BY <1>3, <1>4
<1>6. Executable(heap, Head(todo), undo)
  <2> HIDE DEF undo
  <2>1. Move(Contents(heap), Head(todo), t, undo, DOMAIN heap, F)
    BY <1>5
  <2> HIDE DEF F
  <2> QED
    BY <1>1, <1>2, <2>1, MoveExecutes
<1> HIDE DEF undo
<1> QED
  BY <1>3, <1>6 DEF undo

\* addChild makes a node active, removeChild leaves it without a parent.
LEMMA ExecutedOrphans ==
    ASSUME NEW h, Orphans(h), NEW a, NEW undo
    PROVE  Orphans(Executed(h, a, undo))
<1> DEFINE g == Executed(h, a, undo)
<1>1. DOMAIN g = DOMAIN h
  BY DEF Executed
<1>2. ASSUME NEW n \in DOMAIN h, g[n].state = "Created"
      PROVE  g[n].parent \in {Null, Wild}
  <2>1. CASE n \in Unlinked(h, a, undo)
    <3>1. g[n] = Removed(h[n], h[a.parent].managed)
      BY <2>1 DEF Executed
    <3> HIDE DEF g
    <3> QED
      BY <3>1 DEF Removed
  <2>2. CASE n \notin Unlinked(h, a, undo) /\ n \in Linked(a, undo)
    <3>1. g[n] = Added(h[n], a.parent)
      BY <2>2 DEF Executed
    <3> HIDE DEF g
    <3> QED
      BY <1>2, <3>1 DEF Added
  <2>3. CASE n \notin Unlinked(h, a, undo) /\ n \notin Linked(a, undo)
    <3>1. g[n].state = h[n].state /\ g[n].parent = h[n].parent
      BY <2>3 DEF Executed
    <3> QED
      BY <1>2, <3>1 DEF Orphans
  <2> QED
    BY <2>1, <2>2, <2>3
<1> QED
  BY <1>1, <1>2 DEF Orphans

LEMMA ExecutedCore ==
    ASSUME NEW H, Before(H), todo # <<>>, NEW ms2, NEW cu2, NEW tx2,
           Control(root, stack, min, cu2, ms2, tx2, Tail(todo)),
           \/ ms2 = mstate /\ cu2 = current /\ tx2 = txActions /\ Tail(todo) # <<>>
           \/ ms2 = "Idle" /\ min + cu2 = Goal(mstate, min + current)
    PROVE  Core(H, Executed(heap, Head(todo), mstate # "Redo"),
                root, stack, min, cu2, ms2, tx2, Tail(todo))
<1> DEFINE D == DOMAIN heap
           F == FreeIn(heap)
           m == Contents(heap)
           undo == mstate # "Redo"
           a == Head(todo)
           rest == Tail(todo)
           g == Executed(heap, a, undo)
<1>1. /\ HeapOK(heap) /\ LinksOK(heap) /\ undo \in BOOLEAN
      /\ root # Null => root \in F
      /\ Control(root, stack, min, current, mstate, txActions, todo)
  BY DEF Before, Core
<1>2. a \in Action /\ todo \in Seq(Action) /\ Len(todo) \in Nat \ {0}
  BY <1>1, EmptySeq, LenProperties, HeadTailProperties DEF Control
<1>3. PICK M : /\ Course(H, M, D, F, root, stack, min)
               /\ Way(M, m, D, F, min + current, mstate, txActions, todo)
  BY DEF Before, Core
<1>4. PICK t : /\ Move(m, a, t, undo, D, F)
               /\ Leads(t, rest, M[Goal(mstate, min + current)], undo, D, F)
  BY <1>3, ExecuteFacts
<1> HIDE DEF undo, F, a
<1>5. /\ Executable(heap, a, undo)
      /\ DOMAIN g = D /\ Contents(g) = t /\ LinksOK(g)
      /\ FreeIn(g) \subseteq F /\ F \subseteq FreeIn(g)
      /\ \A n \in D : g[n].id = heap[n].id /\ g[n].managed = heap[n].managed
  <2> HIDE DEF g
  <2>1. /\ HeapOK(heap) /\ LinksOK(heap) /\ undo \in BOOLEAN
        /\ Move(Contents(heap), a, t, undo, DOMAIN heap, F)
    BY <1>1, <1>4
  <2>2. Executable(heap, a, undo) /\ DOMAIN g = D /\ Contents(g) = t
    BY <2>1, MoveExecutes DEF g
  <2>3. LinksOK(g)
    BY <2>1, MoveExecutes DEF g
  <2>4. FreeIn(g) \subseteq F
    BY <2>1, MoveExecutes DEF g, F
  <2>5. F \subseteq FreeIn(g)
    BY <2>1, MoveExecutes DEF g, F
  <2>6. \A n \in D : g[n].id = heap[n].id /\ g[n].managed = heap[n].managed
    BY <2>1, MoveExecutes DEF g
  <2> QED
    BY <2>2, <2>3, <2>4, <2>5, <2>6
<1>6. HeapOK(g)
  BY <1>1, <1>2, <1>5, ExecutedFacts
<1> HIDE DEF g
<1>7. FreeIn(g) = F /\ Known(g, root) = Known(heap, root)
  BY <1>5 DEF Known
<1>8. root # Null
  <2>1. 1 \in 1 .. Len(todo) /\ Recorded(todo[1], stack, txActions)
    <3>1. 1 \in 1 .. Len(todo)
      BY ONLY <1>2
    <3>2. \A i \in 1 .. Len(todo) : Recorded(todo[i], stack, txActions)
      BY <1>1 DEF Control
    <3> QED
      BY ONLY <3>1, <3>2
  <2>2. ASSUME root = Null PROVE FALSE
    <3>1. stack = <<>> /\ txActions = <<>> /\ Len(<<>>) = 0 /\ Elements(<<>>) = {}
      <4>1. DOMAIN <<>> = {}
        OBVIOUS
      <4> QED
        BY <1>1, <2>2, <4>1 DEF Control, Elements
    <3> QED
      BY <2>1, <3>1 DEF Recorded
  <2> QED
    BY <2>2
<1>9. Fresh(g, root, ms2) /\ Orphans(g)
  <2>1. Orphans(Executed(heap, a, undo))
    BY <1>1, ExecutedOrphans DEF Before, Core
  <2> QED
    BY <1>8, <2>1 DEF Fresh, g
<1>10. /\ ContentOK(t, D, F)
       /\ ~(ms2 = "Transaction" /\ rest = <<>>)
       /\ Leads(t, rest, M[Goal(ms2, min + cu2)], ms2 # "Redo", D, F)
  <2>1. ContentOK(t, D, F)
    BY <1>1, <1>4, MoveItems
  <2>2. CASE ms2 = mstate /\ cu2 = current /\ rest # <<>>
    BY <1>4, <2>1, <2>2 DEF undo
  <2>3. CASE ms2 = "Idle" /\ min + cu2 = Goal(mstate, min + current)
    <3>1. rest = <<>>
      BY <2>3 DEF Control
    <3> HIDE DEF rest
    <3>6. Leads(t, <<>>, M[Goal(mstate, min + current)], undo, D, F)
      BY <1>4, <3>1
    <3>2. t = M[Goal(mstate, min + current)]
      BY <3>6, LeadsNowhere
    <3>3. Goal(ms2, min + cu2) = min + cu2
      BY <2>3 DEF Goal
    <3>4. t = M[Goal(ms2, min + cu2)]
      BY <2>3, <3>2, <3>3
    <3>7. Leads(t, <<>>, M[Goal(ms2, min + cu2)], ms2 # "Redo", D, F)
      BY <3>4, LeadsNowhere
    <3>5. Leads(t, rest, M[Goal(ms2, min + cu2)], ms2 # "Redo", D, F)
      BY <3>1, <3>7
    <3> QED
      BY <2>1, <2>3, <3>5
  <2> QED
    BY <2>2, <2>3
<1>11. Way(M, Contents(g), DOMAIN g, FreeIn(g), min + cu2, ms2, tx2, rest)
  BY <1>5, <1>7, <1>10 DEF Way
<1>12. Associates(H, g, root, ms2, tx2, rest)
  BY <1>7, <1>10 DEF Associates, Before, Core
<1>13. Course(H, M, DOMAIN g, FreeIn(g), root, stack, min)
  BY <1>3, <1>5, <1>7
<1>14. root # Null => root \in FreeIn(g)
  BY <1>1, <1>7
<1>15. Core(H, g, root, stack, min, cu2, ms2, tx2, rest)
  BY <1>5, <1>6, <1>9, <1>11, <1>12, <1>13, <1>14 DEF Core
<1> QED
  BY <1>15 DEF g, a, undo

LEMMA LibraryCore ==
    ASSUME IInv, NEW H, Before(H), LibraryStep
    PROVE  After(H) /\ ~ExecuteOutOfRange
<1> DEFINE g == Executed(heap, Head(todo), mstate # "Redo")
           rest == Tail(todo)
<1>1. Control(root, stack, min, current, mstate, txActions, todo)
  BY DEF Before, Core
<1>2. todo \in Seq(Action) /\ Len(todo) \in Nat
  BY <1>1, LenProperties DEF Control
<1>3. ASSUME ExecuteOutOfRange PROVE FALSE
  BY <1>3, ExecuteFacts DEF ExecuteOutOfRange
<1>4. ASSUME ExecuteNext
      PROVE  Release(g, index) /\ todo' = rest /\ root' = root
  BY <1>4 DEF ExecuteNext
<1>5. ASSUME todo # <<>>
      PROVE  /\ rest \in Seq(Action) /\ Len(rest) = Len(todo) - 1
             /\ \A i \in 1 .. Len(rest) : Recorded(rest[i], stack, txActions)
  <2>1. /\ rest \in Seq(Action) /\ Len(rest) = Len(todo) - 1
        /\ \A i \in 1 .. Len(rest) : rest[i] = todo[i + 1]
    BY <1>2, <1>5, HeadTailProperties
  <2>2. \A i \in 1 .. Len(rest) : i + 1 \in 1 .. Len(todo)
    BY <1>2, <2>1
  <2> QED
    BY <1>1, <2>1, <2>2 DEF Control
<1>6. ASSUME Release(g, index),
             Core(H, g, root', stack', min', current', mstate', txActions', todo')
      PROVE  After(H)
  <2> HIDE DEF g
  <2> QED
    BY <1>6, ReleaseCore DEF After
<1> HIDE DEF g, rest
<1>7. ASSUME Len(todo) = 1 PROVE todo # <<>> /\ rest = <<>>
  <2>1. todo # <<>>
    BY <1>7
  <2> QED
    BY <1>5, <1>7, <2>1, EmptySeq
<1>8. CASE ExecuteAction
  <2>1. /\ todo # <<>> /\ Len(todo) > 1 /\ ExecuteNext
        /\ UNCHANGED <<mstate, txActions, stack, min, current>>
    BY <1>2, <1>8 DEF ExecuteAction, engineVars
  <2>2. rest # <<>>
    BY <1>2, <1>5, <2>1
  <2>3. Control(root, stack, min, current, mstate, txActions, rest)
    <3>1. mstate \notin {"Idle", "Destroyed"}
      BY <1>1, <2>1 DEF Control
    <3> QED
      BY <1>1, <1>5, <2>1, <3>1 DEF Control
  <2>4. Core(H, g, root, stack, min, current, mstate, txActions, rest)
    BY <2>1, <2>2, <2>3, ExecutedCore DEF g, rest
  <2> QED
    BY <1>3, <1>4, <1>6, <1>8, <2>1, <2>4
<1>9. CASE AbortReturns
  <2>1. /\ mstate = "Transaction" /\ mstate' = "Idle" /\ Len(todo) = 1 /\ txActions' = <<>>
        /\ ExecuteNext /\ UNCHANGED <<stack, min, current>>
    BY <1>9 DEF AbortReturns, engineVars
  <2>2. todo # <<>> /\ rest = <<>>
    BY <1>7, <2>1
  <2>3. Control(root, stack, min, current, "Idle", <<>>, rest)
    BY <1>1, <2>2 DEF Control
  <2>4. min + current = Goal(mstate, min + current)
    BY <2>1 DEF Goal
  <2>5. Core(H, g, root, stack, min, current, "Idle", <<>>, rest)
    BY <2>2, <2>3, <2>4, ExecutedCore DEF g, rest
  <2> QED
    BY <1>3, <1>4, <1>6, <1>9, <2>1, <2>5
<1>10. CASE UndoReturns
  <2>1. /\ mstate = "Undo" /\ mstate' = "Idle" /\ Len(todo) = 1
        /\ current # 0 /\ current' = current - 1
        /\ ExecuteNext /\ UNCHANGED <<stack, min, txActions>>
    BY <1>10 DEF UndoReturns, Engine!StepBack
  <2>2. todo # <<>> /\ rest = <<>>
    BY <1>7, <2>1
  <2>3. Control(root, stack, min, current', "Idle", txActions, rest)
    <3>1. current' \in Nat /\ current' <= Len(stack)
      BY <1>1, <2>1, LenProperties DEF Control
    <3> QED
      BY <1>1, <2>1, <2>2, <3>1 DEF Control
  <2>4. min + current' = Goal(mstate, min + current)
    BY <1>1, <2>1 DEF Goal, Control
  <2>5. Core(H, g, root, stack, min, current', "Idle", txActions, rest)
    BY <2>2, <2>3, <2>4, ExecutedCore DEF g, rest
  <2> QED
    BY <1>3, <1>4, <1>6, <1>10, <2>1, <2>5
<1>11. CASE RedoReturns
  <2>1. /\ mstate = "Redo" /\ mstate' = "Idle" /\ Len(todo) = 1
        /\ current # Len(stack) /\ current' = current + 1
        /\ ExecuteNext /\ UNCHANGED <<stack, min, txActions>>
    BY <1>11 DEF RedoReturns, Engine!StepForward
  <2>2. todo # <<>> /\ rest = <<>>
    BY <1>7, <2>1
  <2>3. Control(root, stack, min, current', "Idle", txActions, rest)
    <3>1. current' \in Nat /\ current' <= Len(stack)
      BY <1>1, <2>1, LenProperties DEF Control
    <3> QED
      BY <1>1, <2>1, <2>2, <3>1 DEF Control
  <2>4. min + current' = Goal(mstate, min + current)
    BY <1>1, <2>1 DEF Goal, Control
  <2>5. Core(H, g, root, stack, min, current', "Idle", txActions, rest)
    BY <2>2, <2>3, <2>4, ExecutedCore DEF g, rest
  <2> QED
    BY <1>3, <1>4, <1>6, <1>11, <2>1, <2>5
<1> QED
  BY <1>3, <1>8, <1>9, <1>10, <1>11 DEF LibraryStep

\* Outside of a transaction no node of the tree is writable: all of them have
\* their model, up to the root (Node::isWritable).
LEMMA EditGate ==
    ASSUME Plain, NEW H, Before(H), todo = <<>>, NEW p \in Editable
    PROVE  mstate = "Transaction" /\ root # Null /\ p \in Within(Contents(heap), {root})
<1> DEFINE D == DOMAIN heap
           F == FreeIn(heap)
           m == Contents(heap)
           S == OnTree \cup {Wild}
<1>1. /\ HeapOK(heap) /\ LinksOK(heap) /\ Orphans(heap)
      /\ root # Null => root \in F
      /\ Control(root, stack, min, current, mstate, txActions, todo)
      /\ Associates(H, heap, root, mstate, txActions, todo)
  BY DEF Before, Core
<1>2. OnTree = Within(m, {root}) /\ p \in OnTree /\ OnTree \subseteq D
  BY ReachIsWithin, ReachFacts DEF OnTree, Editable, Plain
<1>3. D \subseteq Nodes /\ Null \notin D /\ Wild \notin D
  BY <1>1, NodeTreeAssumption DEF HeapOK
<1>4. root # Null
  <2>1. ASSUME root = Null PROVE FALSE
    <3>1. {} \subseteq D /\ {root} \cap D \subseteq {} /\ ClosedIn(m, {})
      BY <1>3, <2>1 DEF ClosedIn
    <3>2. OnTree \subseteq {}
      BY <3>1, ReachFacts DEF OnTree
    <3> QED
      BY <1>2, <3>2
  <2> QED
    BY <2>1
<1>5. ASSUME mstate # "Transaction"
      PROVE  \A n \in OnTree : heap[n].managed
  <2>1. PICK M : /\ Course(H, M, D, F, root, stack, min)
                 /\ Way(M, m, D, F, min + current, mstate, txActions, todo)
    BY DEF Before, Core
  <2> DEFINE g == Goal(mstate, min + current)
  <2>2. g \in min .. min + Len(stack)
    BY <1>1, GoalFacts
  <2>3. Leads(m, <<>>, M[g], mstate # "Redo", D, F)
    BY <1>5, <2>1 DEF Way
  <2>4. m = M[g]
    BY <2>3, LeadsNowhere
  <2> HIDE DEF g, m, D, F
  <2>5. H[g] = Doc(m, root) /\ g \in DOMAIN H
    BY <2>1, <2>2, <2>4 DEF Course
  <2>6. DOMAIN H[g].items = OnTree
    BY <1>2, <2>5, DocItems
  <2>7. OnTree \subseteq Known(heap, root)
    BY <1>1, <2>5, <2>6 DEF Associates
  <2> QED
    BY <2>7 DEF Known
<1>6. ASSUME NEW n \in S PROVE Up(heap, Managed(heap), n) \in S
  <2>1. CASE n = Wild
    BY <1>3, <2>1 DEF Up, Managed
  <2>2. CASE n = root /\ n \in OnTree
    <3>1. heap[n].parent \in {Null, Wild}
      BY <1>1, <1>4, <2>2 DEF Orphans, FreeIn
    <3> QED
      BY <2>2, <3>1 DEF Up, Managed
  <2>3. CASE n # root /\ n \in OnTree
    <3>1. PICK q \in OnTree : n \in Kids(m, q)
      BY <1>2, <2>3, WithinParents
    <3>2. n \in Children(heap, q)
      BY <1>2, <3>1, ContentsFacts
    <3>3. heap[n].parent = q
      BY <1>1, <1>2, <3>1, <3>2 DEF LinksOK
    <3> QED
      BY <2>3, <3>1, <3>3 DEF Up, Managed
  <2> QED
    BY <2>1, <2>2, <2>3
<1>7. WritableTop(heap, p) \in S
  <2>1. p \in S
    BY <1>2
  <2> HIDE DEF S
  <2> QED
    BY <1>6, <2>1, ClimbStays DEF WritableTop
<1>8. WritableTop(heap, p) \in OnTree
  BY <1>3, <1>7 DEF Editable, Intact, Ends
<1>9. mstate = "Transaction"
  BY <1>5, <1>8 DEF Editable, Writable, IsWritable, ModelWritable
<1> QED
  BY <1>2, <1>4, <1>9

\* A transaction executes an action and records it.
LEMMA EditCore ==
    ASSUME Plain, IInv, NEW H, Before(H), todo = <<>>, NEW a \in Action,
           a.parent \in Editable, Edit(a), NEW t,
           Change(Contents(heap), a, t, DOMAIN heap, FreeIn(heap) \ Linked(a, FALSE)),
           root \notin Linked(a, FALSE)
    PROVE  After(H) /\ fault' \in {fault, "no engine"}
<1> DEFINE D == DOMAIN heap
           F == FreeIn(heap)
           F2 == F \ Linked(a, FALSE)
           m == Contents(heap)
           c == min + current
           g == Executed(heap, a, FALSE)
           e == [n \in {} |-> n]
           tx == Append(txActions, a)
<1>1. /\ HeapOK(heap) /\ LinksOK(heap) /\ Orphans(heap)
      /\ root # Null => root \in F
      /\ Control(root, stack, min, current, mstate, txActions, todo)
      /\ Associates(H, heap, root, mstate, txActions, todo)
      /\ mstate = "Transaction" /\ root # Null
  BY EditGate DEF Before, Core
<1>2. PICK M : /\ Course(H, M, D, F2, root, stack, min)
               /\ Way(M, m, D, F2, c, mstate, txActions, todo)
  <2>1. PICK M : /\ Course(H, M, D, F, root, stack, min)
                 /\ Way(M, m, D, F, c, mstate, txActions, todo)
    BY DEF Before, Core
  <2>2. ContentOK(e, D \ D, F2)
    <3>1. D \ D = {}
      OBVIOUS
    <3> HIDE DEF D, F2
    <3> QED
      BY <3>1, NoContent
  <2>3. RefsIn(stack, txActions, todo, D)
    BY CoreRefs DEF Before
  <2>4. ContentOK(m, D, F) /\ ClosedIn(m, D)
    BY <2>1 DEF Way, ClosedIn, ContentOK
  <2>5. F2 \cap D \subseteq F
    OBVIOUS
  <2> HIDE DEF D, F, F2, m, e, c
  <2>6. Recast(m, D, e) = m
    BY <2>4, RecastSame
  <2>7. Way(M, m, D, F, min + current, mstate, txActions, todo)
    BY <2>1 DEF c
  <2>8. /\ Course(H, RecastAll(M, D, e), D, F2, root, stack, min)
        /\ Way(RecastAll(M, D, e), Recast(m, D, e), D, F2, min + current, mstate, txActions, todo)
    BY <1>1, <2>1, <2>2, <2>3, <2>4, <2>5, <2>7, WayRecast
  <2>9. Way(RecastAll(M, D, e), m, D, F2, c, mstate, txActions, todo)
    BY <2>6, <2>8 DEF c
  <2> QED
    BY <2>8, <2>9
<1>3. /\ txActions \in Seq(Action) /\ tx \in Seq(Action)
      /\ Elements(tx) = Elements(txActions) \cup {a}
  <2>1. txActions \in Seq(Action)
    BY <1>1 DEF Control
  <2>2. /\ tx \in Seq(Action) /\ Len(tx) = Len(txActions) + 1
        /\ \A i \in 1 .. Len(txActions) : tx[i] = txActions[i]
        /\ tx[Len(txActions) + 1] = a /\ Len(txActions) \in Nat
    BY <2>1, AppendProperties, LenProperties
  <2> QED
    BY <2>1, <2>2 DEF Elements
<1>4. Move(m, a, t, FALSE, D, F2)
  BY DEF Move
<1>5. Leads(M[c], tx, t, FALSE, D, F2)
  <2>1. Leads(M[c], txActions, m, FALSE, D, F2) /\ Change(m, a, t, D, F2)
    BY <1>1, <1>2 DEF Way
  <2> HIDE DEF D, F2, m, c
  <2> QED
    BY <1>3, <2>1, LeadsOn
<1> DEFINE undo == FALSE
<1>20. undo \in BOOLEAN /\ Move(m, a, t, undo, D, F2)
  BY <1>4
<1>6. /\ Executable(heap, a, FALSE)
      /\ DOMAIN g = D /\ Contents(g) = t /\ LinksOK(g)
      /\ FreeIn(g) = F2
      /\ \A n \in D : g[n].id = heap[n].id /\ g[n].managed = heap[n].managed
  <2> DEFINE x == Executed(heap, a, undo)
  <2>1. /\ HeapOK(heap) /\ LinksOK(heap) /\ undo \in BOOLEAN
        /\ Move(Contents(heap), a, t, undo, DOMAIN heap, F2)
    BY <1>1, <1>20
  <2>2. F2 \cap FreeIn(heap) = F2 /\ F2 = FreeIn(heap) \ Linked(a, undo)
    OBVIOUS
  <2>9. g = x
    OBVIOUS
  <2> HIDE DEF F2, undo, x, g
  <2>3. FreeIn(x) \subseteq FreeIn(heap) \ Linked(a, undo)
    BY <2>1, MoveExecutes DEF x
  <2>4. F2 \cap FreeIn(heap) \subseteq FreeIn(x)
    BY <2>1, MoveExecutes DEF x
  <2>5. FreeIn(x) = F2
    BY <2>2, <2>3, <2>4
  <2>6. Executable(heap, a, undo) /\ DOMAIN x = D /\ Contents(x) = t
    BY <2>1, MoveExecutes DEF x
  <2>7. LinksOK(x)
    BY <2>1, MoveExecutes DEF x
  <2>8. \A n \in D : x[n].id = heap[n].id /\ x[n].managed = heap[n].managed
    BY <2>1, MoveExecutes DEF x
  <2> QED
    BY <2>5, <2>6, <2>7, <2>8, <2>9 DEF undo
<1>7. HeapOK(g) /\ Orphans(g)
  BY <1>1, <1>6, ExecutedFacts, ExecutedOrphans
<1>8. /\ Release(g, index) /\ txActions' = tx
      /\ UNCHANGED <<mstate, root, todo, stack, min, current>>
  BY <1>6 DEF Edit, engineVars
<1>9. Known(g, root) = Known(heap, root)
  BY <1>6 DEF Known
<1>10. Kids(t, a.parent) \subseteq Kids(m, a.parent) \cup QueryInserted(a)
       /\ \A n \in D \ {a.parent} : Kids(t, n) = Kids(m, n)
  <2>1. a.type # "VectorMove"
    BY DEF Change, Fits
  <2>2. a.parent \in VectorNodes /\ ~Erases(a, undo) => a.type = "VectorInsert"
    BY <2>1, ActionFacts, ErasesFacts
  <2> HIDE DEF D, F2, m, undo
  <2>3. \A n \in D \ {a.parent} : Kids(t, n) = Kids(m, n)
    BY <1>20, MoveKids
  <2>4. a.parent \notin VectorNodes => Kids(t, a.parent) = {}
    BY <1>20, MoveKids
  <2>5. a.parent \in VectorNodes /\ Erases(a, undo) =>
           Kids(t, a.parent) = Kids(m, a.parent) \ Elements(a.items)
    BY <1>20, MoveKids
  <2>6. a.parent \in VectorNodes /\ ~Erases(a, undo) =>
           Kids(t, a.parent) = Kids(m, a.parent) \cup Elements(a.items)
    BY <1>20, MoveKids
  <2> QED
    BY <2>2, <2>3, <2>4, <2>5, <2>6 DEF QueryInserted
<1> HIDE DEF undo
<1>11. Associates(H, g, root, mstate, tx, todo)
  <2>1. PICK G \in SUBSET Known(heap, root) :
           /\ root # Null => root \in G
           /\ \A p \in G : Kids(m, p) \subseteq G \cup InsertedBy(txActions)
    BY <1>1 DEF Associates
  <2>2. InsertedBy(tx) = InsertedBy(txActions) \cup QueryInserted(a)
    BY <1>3 DEF InsertedBy
  <2>3. \A p \in G : p \in D
    BY DEF Known
  <2>4. \A p \in G : Kids(t, p) \subseteq G \cup InsertedBy(tx)
    BY <1>10, <2>1, <2>2, <2>3
  <2> HIDE DEF g, tx
  <2> QED
    BY <1>1, <1>6, <1>9, <2>1, <2>4 DEF Associates
<1>12. Control(root, stack, min, current, mstate, tx, todo)
  BY <1>1, <1>3 DEF Control
<1>13. Way(M, Contents(g), DOMAIN g, FreeIn(g), c, mstate, tx, todo)
  BY <1>1, <1>5, <1>6 DEF Way, Change
<1>14. Course(H, M, DOMAIN g, FreeIn(g), root, stack, min)
  BY <1>2, <1>6
<1>15. root # Null => root \in FreeIn(g)
  BY <1>1, <1>6
<1>16. Fresh(g, root, mstate)
  BY <1>1 DEF Fresh
<1> HIDE DEF g, tx
<1>17. Core(H, g, root, stack, min, current, mstate, tx, todo)
  BY <1>6, <1>7, <1>11, <1>12, <1>13, <1>14, <1>15, <1>16 DEF Core
<1>18. Core(H, g, root', stack', min', current', mstate', txActions', todo')
  BY <1>8, <1>17
<1>19. fault' \in {fault, "no engine"}
  BY <1>8 DEF Release, AfterDeath
<1> QED
  BY <1>8, <1>18, <1>19, ReleaseCore DEF After

\* It is enough that the action fits, and that a forest comes out.
LEMMA FittingCore ==
    ASSUME Plain, IInv, NEW H, Before(H), todo = <<>>, NEW a \in Action,
           a.parent \in Editable, Edit(a), Fits(heap[a.parent].items, a),
           NEW F2, F2 = FreeIn(heap) \ Linked(a, FALSE), root \notin Linked(a, FALSE),
           ContentOK([Contents(heap) EXCEPT ![a.parent] = NewItems(heap[a.parent].items, a, FALSE)],
                     DOMAIN heap, F2)
    PROVE  After(H) /\ fault' \in {fault, "no engine"}
<1> DEFINE m == Contents(heap)
           t == [m EXCEPT ![a.parent] = NewItems(m[a.parent], a, FALSE)]
<1>1. ContentOK(m, DOMAIN heap, FreeIn(heap))
  BY DEF Before, Core, Way
<1>2. ContentOK(m, DOMAIN heap, F2)
  BY <1>1 DEF ContentOK
<1>3. a.parent \in DOMAIN heap /\ m[a.parent] = heap[a.parent].items
  BY EditableFacts, ContentsFacts
<1>4. Change(m, a, t, DOMAIN heap, F2)
  <2> HIDE DEF m
  <2> QED
    BY <1>2, <1>3 DEF Change, m
<1> HIDE DEF t
<1> QED
  BY <1>4, EditCore

LEMMA VectorInsertCore ==
    ASSUME Plain, IInv, NEW H, Before(H), NEW p \in Nodes, VectorInsert(p)
    PROVE  After(H) /\ fault' \in {fault, "no engine"}
<1> DEFINE free == {n \in held \ {root} :
                       heap[n].state = "Created" /\ p \notin Reach(heap, {n})}
           D == DOMAIN heap
           F == FreeIn(heap)
           m == Contents(heap)
<1>1. PICK nodes \in Runs(free), i \in 0 .. MaxItems :
         /\ \A k, l \in DOMAIN nodes : k # l => nodes[k] # nodes[l]
         /\ ValidQuery(i, Len(heap[p].items))
         /\ Edit([type |-> "VectorInsert", parent |-> p, index |-> i, items |-> nodes])
  BY DEF VectorInsert
<1> DEFINE a == [type |-> "VectorInsert", parent |-> p, index |-> i, items |-> nodes]
<1>2. todo = <<>> /\ p \in VectorNodes /\ p \in Editable
  BY DEF VectorInsert, Ready
<1>3. i \in Nat /\ free \subseteq F \ {root} /\ F \subseteq Nodes /\ F \subseteq D
  BY DocumentAssumption DEF IInv, HeapOK, FreeIn
<1>4. nodes \in Seq(free)
  <2> HIDE DEF free
  <2> QED
    BY RunsType
<1> HIDE DEF free
<1>5. nodes \in Seq(Nodes) /\ Elements(nodes) \subseteq free /\ Len(nodes) \in Nat
  BY <1>3, <1>4, LenProperties DEF Elements
<1>6. a \in Action
  BY <1>2, <1>3, <1>5 DEF Action, VectorInsDelAction
<1>7. /\ a.type = "VectorInsert" /\ a.parent = p /\ a.index = i /\ a.items = nodes
      /\ Edit(a)
  BY <1>1
<1> HIDE DEF a
<1>8. /\ p \in D /\ heap[p].items \in Seq(Nodes) /\ Len(heap[p].items) \in Nat
      /\ m[p] = heap[p].items
  BY <1>2, EditableFacts, ContentsFacts
<1>9. i <= Len(heap[p].items)
  BY <1>1, <1>3, <1>8 DEF ValidQuery
<1>10. ~Erases(a, FALSE)
  BY <1>7, ErasesFacts
<1>11. /\ Linked(a, FALSE) = Elements(nodes)
       /\ NewItems(heap[p].items, a, FALSE) = Inserted(heap[p].items, i, nodes)
  BY <1>7, <1>10 DEF Linked, NewItems
<1>12. Fits(heap[p].items, a)
  BY <1>3, <1>7, <1>8, <1>9 DEF Fits, Possible, Takes
<1>13. root \in F /\ p \in Within(m, {root})
  BY <1>2, EditGate DEF Before, Core
<1>14. ContentOK(m, D, F)
  BY DEF Before, Core, Way
<1> HIDE DEF m, D, F
<1>15. ContentOK([m EXCEPT ![p] = Inserted(m[p], i, nodes)], D, F \ Elements(nodes))
  <2>1. Elements(nodes) \subseteq (F \cap D) \ {root}
    BY <1>3, <1>5
  <2>2. \A k, l \in DOMAIN nodes : nodes[k] = nodes[l] => k = l
    BY <1>1
  <2>3. i \in Nat /\ i <= Len(m[p])
    BY <1>3, <1>8, <1>9
  <2> QED
    BY <1>2, <1>5, <1>13, <1>14, <2>1, <2>2, <2>3, MoreOK
<1>16. root \notin Linked(a, FALSE)
  BY <1>3, <1>5, <1>11
<1>17. ContentOK([Contents(heap) EXCEPT ![a.parent] = NewItems(heap[a.parent].items, a, FALSE)],
                 DOMAIN heap, FreeIn(heap) \ Linked(a, FALSE))
  BY <1>7, <1>8, <1>11, <1>15 DEF m, D, F
<1> QED
  BY <1>2, <1>6, <1>7, <1>12, <1>16, <1>17, FittingCore

LEMMA VectorRemoveCore ==
    ASSUME Plain, IInv, NEW H, Before(H), NEW p \in Nodes, VectorRemove(p)
    PROVE  After(H) /\ fault' \in {fault, "no engine"}
<1> DEFINE s == heap[p].items
           D == DOMAIN heap
           F == FreeIn(heap)
           m == Contents(heap)
<1>1. PICK i \in 0 .. MaxItems, count \in 0 .. MaxItems :
         /\ ValidRemove(i, count, Len(s))
         /\ Edit([type |-> "VectorRemove", parent |-> p, index |-> i,
                  items |-> Slice(s, i, count)])
  BY DEF VectorRemove
<1> DEFINE a == [type |-> "VectorRemove", parent |-> p, index |-> i,
                 items |-> Slice(s, i, count)]
<1>2. todo = <<>> /\ p \in VectorNodes /\ p \in Editable
  BY DEF VectorRemove, Ready
<1>3. /\ p \in D /\ s \in Seq(Nodes) /\ Len(s) \in Nat /\ m[p] = s
  BY <1>2, EditableFacts, ContentsFacts
<1>4. i + count <= Len(s) /\ i \in Nat /\ count \in Nat
  BY <1>1, <1>3, DocumentAssumption DEF ValidRemove
<1>5. Slice(s, i, count) \in Seq(Nodes) /\ Len(Slice(s, i, count)) = count
  BY <1>3, <1>4, SliceFacts
<1>6. a \in Action
  BY <1>2, <1>4, <1>5 DEF Action, VectorInsDelAction
<1>7. /\ a.type = "VectorRemove" /\ a.parent = p /\ a.index = i
      /\ a.items = Slice(s, i, count) /\ Edit(a)
  BY <1>1
<1> HIDE DEF a
<1>8. Erases(a, FALSE)
  BY <1>7, ErasesFacts
<1>9. Linked(a, FALSE) = {} /\ NewItems(s, a, FALSE) = Erased(s, i, count)
  BY <1>5, <1>7, <1>8 DEF Linked, NewItems
<1>10. Fits(s, a)
  BY <1>4, <1>5, <1>7 DEF Fits, Possible, Takes
<1>11. ContentOK(m, D, F)
  BY DEF Before, Core, Way
<1> HIDE DEF m, D, F, s
<1>12. DOMAIN m = D /\ Kids(m, p) = Elements(s)
       /\ \A j, k \in DOMAIN s : s[j] = s[k] => j = k
  BY <1>2, <1>3, <1>11 DEF ContentOK, Forest, Kids
<1>13. /\ Erased(s, i, count) \in Seq(Nodes)
       /\ Len(Erased(s, i, count)) = Len(s) - count
       /\ \A k \in 1 .. Len(s) - count :
             Erased(s, i, count)[k] = IF k <= i THEN s[k] ELSE s[k + count]
  <2>1. s \in Seq(Nodes) /\ i \in Nat /\ count \in Nat /\ i + count <= Len(s)
    BY <1>3, <1>4
  <2> QED
    BY ONLY <2>1, ErasedFacts, SMTT(30)
<1>14. \A j, k \in DOMAIN Erased(s, i, count) :
          Erased(s, i, count)[j] = Erased(s, i, count)[k] => j = k
  <2> DEFINE u == Erased(s, i, count)
             At(k) == IF k <= i THEN k ELSE k + count
  <2>1. DOMAIN u = 1 .. Len(s) - count /\ DOMAIN s = 1 .. Len(s)
    BY <1>3, <1>13, LenProperties
  <2>2. \A k \in DOMAIN u : At(k) \in DOMAIN s /\ u[k] = s[At(k)]
    BY <1>3, <1>4, <1>13, <2>1
  <2>3. \A j, k \in DOMAIN u : At(j) = At(k) => j = k
    BY <1>3, <1>4, <2>1
  <2> HIDE DEF u, At
  <2>4. \A j, k \in DOMAIN u : u[j] = u[k] => j = k
    BY <1>12, <2>2, <2>3
  <2> QED
    BY <2>4 DEF u
<1>15. Elements(Erased(s, i, count)) \subseteq Elements(s)
  <2>1. Elements(s) = Elements(Erased(s, i, count)) \cup Elements(Slice(s, i, count))
    BY ONLY <1>3, <1>4, SplitFacts, SMTT(30)
  <2> QED
    BY <2>1
<1>16. ContentOK([m EXCEPT ![p] = Erased(s, i, count)], D, F)
  <2>1. Erased(s, i, count) \in Seq(KindOf(p))
    BY <1>2, <1>13 DEF KindOf
  <2> DEFINE u == Erased(s, i, count)
  <2>2. p \in VectorNodes =>
           /\ Elements(u) \subseteq Kids(m, p)
           /\ \A j, k \in DOMAIN u : u[j] = u[k] => j = k
    BY <1>12, <1>14, <1>15
  <2>3. u \in Seq(KindOf(p)) /\ p \in D
    BY <1>3, <2>1
  <2> HIDE DEF u
  <2>4. ContentOK([m EXCEPT ![p] = u], D, F)
    BY ONLY <1>11, <2>2, <2>3, FewerOK, ZenonT(30)
  <2> QED
    BY <2>4 DEF u
<1>17. ContentOK([Contents(heap) EXCEPT ![a.parent] = NewItems(heap[a.parent].items, a, FALSE)],
                 DOMAIN heap, FreeIn(heap))
  BY <1>7, <1>9, <1>16 DEF m, D, F, s
<1>18. Fits(heap[a.parent].items, a)
  BY <1>7, <1>10 DEF s
<1> QED
  BY <1>2, <1>6, <1>7, <1>9, <1>17, <1>18, FittingCore

\* An edit of bytes leaves the forest as it is.
LEMMA BytesCore ==
    ASSUME Plain, IInv, NEW H, Before(H), todo = <<>>, NEW a \in Action,
           a.parent \in Editable, a.parent \in BytesNodes, Edit(a),
           Fits(heap[a.parent].items, a)
    PROVE  After(H) /\ fault' \in {fault, "no engine"}
<1> DEFINE p == a.parent
           s == heap[p].items
           m == Contents(heap)
<1>1. p \notin VectorNodes /\ a.type # "VectorMove"
  BY NodeTreeAssumption DEF Fits
<1>2. p \in DOMAIN heap /\ s \in Seq(KindOf(p))
  BY <1>1, EditableFacts DEF KindOf
<1>3. NewItems(s, a, FALSE) \in Seq(KindOf(p))
  BY <1>2, FitsFacts
<1>4. ContentOK(m, DOMAIN heap, FreeIn(heap))
  BY DEF Before, Core, Way
<1>5. Linked(a, FALSE) = {}
  BY <1>1, ActionFacts DEF Linked
<1> HIDE DEF m, s, p
<1>6. ContentOK([m EXCEPT ![p] = NewItems(s, a, FALSE)], DOMAIN heap, FreeIn(heap))
  BY <1>1, <1>2, <1>3, <1>4, FewerOK
<1>7. ContentOK([Contents(heap) EXCEPT ![a.parent] = NewItems(heap[a.parent].items, a, FALSE)],
                DOMAIN heap, FreeIn(heap))
  BY <1>6 DEF m, s, p
<1> QED
  BY <1>5, <1>7, FittingCore

LEMMA BytesInsertCore ==
    ASSUME Plain, IInv, NEW H, Before(H), NEW p \in Nodes, BytesInsert(p)
    PROVE  After(H) /\ fault' \in {fault, "no engine"}
<1>1. PICK i \in 0 .. MaxItems, bytes \in Runs(Bytes) :
         /\ ValidQuery(i, Len(heap[p].items))
         /\ Edit([type |-> "BytesInsert", parent |-> p, index |-> i, items |-> bytes])
  BY DEF BytesInsert
<1> DEFINE a == [type |-> "BytesInsert", parent |-> p, index |-> i, items |-> bytes]
<1>2. todo = <<>> /\ p \in BytesNodes /\ p \in Editable
  BY DEF BytesInsert, Ready
<1>3. i \in Nat /\ bytes \in Seq(Bytes) /\ Len(heap[p].items) \in Nat
  BY <1>2, RunsType, DocumentAssumption, EditableFacts
<1>4. a \in Action
  BY <1>2, <1>3 DEF Action, BytesAction
<1>5. a.type = "BytesInsert" /\ a.parent = p /\ a.index = i /\ Edit(a)
  BY <1>1
<1> HIDE DEF a
<1>6. Fits(heap[p].items, a)
  BY <1>1, <1>3, <1>5 DEF Fits, Possible, Takes, ValidQuery
<1> QED
  BY <1>2, <1>4, <1>5, <1>6, BytesCore

LEMMA BytesRemoveCore ==
    ASSUME Plain, IInv, NEW H, Before(H), NEW p \in Nodes, BytesRemove(p)
    PROVE  After(H) /\ fault' \in {fault, "no engine"}
<1> DEFINE s == heap[p].items
<1>1. PICK i \in 0 .. MaxItems, size \in 0 .. MaxItems :
         /\ ValidRemove(i, size, Len(s))
         /\ Edit([type |-> "BytesRemove", parent |-> p, index |-> i,
                  items |-> Slice(s, i, size)])
  BY DEF BytesRemove
<1> DEFINE a == [type |-> "BytesRemove", parent |-> p, index |-> i,
                 items |-> Slice(s, i, size)]
<1>2. todo = <<>> /\ p \in BytesNodes /\ p \in Editable
  BY DEF BytesRemove, Ready
<1>3. s \in Seq(Bytes) /\ Len(s) \in Nat
  BY <1>2, EditableFacts
<1>4. i + size <= Len(s) /\ i \in Nat /\ size \in Nat
  BY <1>1, <1>3, DocumentAssumption DEF ValidRemove
<1>5. Slice(s, i, size) \in Seq(Bytes) /\ Len(Slice(s, i, size)) = size
  BY <1>3, <1>4, SliceFacts
<1>6. a \in Action
  BY <1>2, <1>4, <1>5 DEF Action, BytesAction
<1>7. /\ a.type = "BytesRemove" /\ a.parent = p /\ a.index = i
      /\ a.items = Slice(s, i, size) /\ Edit(a)
  BY <1>1
<1> HIDE DEF a
<1>8. Fits(s, a)
  BY <1>4, <1>5, <1>7 DEF Fits, Possible, Takes
<1> QED
  BY <1>2, <1>6, <1>7, <1>8, BytesCore

LEMMA BytesReplaceCore ==
    ASSUME Plain, IInv, NEW H, Before(H), NEW p \in Nodes, BytesReplace(p)
    PROVE  After(H) /\ fault' \in {fault, "no engine"}
<1> DEFINE s == heap[p].items
<1>1. PICK i \in 0 .. MaxItems, bytes \in Runs(Bytes) :
         /\ i + Len(bytes) <= Len(s)
         /\ Edit([type |-> "BytesReplace", parent |-> p, index |-> i,
                  items |-> bytes, old |-> Slice(s, i, Len(bytes))])
  BY DEF BytesReplace
<1> DEFINE a == [type |-> "BytesReplace", parent |-> p, index |-> i,
                 items |-> bytes, old |-> Slice(s, i, Len(bytes))]
<1>2. todo = <<>> /\ p \in BytesNodes /\ p \in Editable
  BY DEF BytesReplace, Ready
<1>3. /\ s \in Seq(Bytes) /\ i \in Nat /\ bytes \in Seq(Bytes) /\ Len(bytes) \in Nat
  BY <1>2, RunsType, DocumentAssumption, EditableFacts, LenProperties
<1>4. Slice(s, i, Len(bytes)) \in Seq(Bytes) /\ Len(Slice(s, i, Len(bytes))) = Len(bytes)
  <2>1. s \in Seq(Bytes) /\ i \in Nat /\ Len(bytes) \in Nat /\ i + Len(bytes) <= Len(s)
    BY <1>1, <1>3
  <2> HIDE DEF s
  <2> QED
    BY ONLY <2>1, SliceFacts
<1>5. a \in Action
  BY <1>2, <1>3, <1>4 DEF Action, BytesReplaceAction
<1>6. /\ a.type = "BytesReplace" /\ a.parent = p /\ a.index = i
      /\ a.items = bytes /\ a.old = Slice(s, i, Len(bytes)) /\ Edit(a)
  BY <1>1
<1> HIDE DEF a
<1>7. Fits(s, a)
  BY <1>1, <1>3, <1>6 DEF Fits, Possible, Takes
<1> QED
  BY <1>2, <1>5, <1>6, <1>7, BytesCore

\* The transactions that the engine keeps in a commit.
LEMMA EngineCommitted ==
    ASSUME IInv, Engine!CommitWindow(txActions)
    PROVE  \E d \in Nat :
              /\ d <= current
              /\ stack' \in Seq(Transaction) /\ Len(stack') = current + 1 - d
              /\ min' = min + d /\ current' = current + 1 - d
              /\ \A i \in 1 .. current - d : stack'[i] = stack[i + d]
              /\ stack'[current + 1 - d] = txActions
<1> DEFINE kept == SubSeq(stack, 1, current)
           pushed == Append(kept, txActions)
<1>1. /\ stack \in Seq(Transaction) /\ current \in Nat /\ min \in Nat
      /\ current <= Len(stack) /\ txActions \in Transaction
      /\ MaxSteps \in Nat /\ MaxSteps >= 4
  BY DocumentAssumption DEF IInv, StateOK, Transaction
<1>2. /\ kept \in Seq(Transaction) /\ Len(kept) = current
      /\ \A i \in 1 .. current : kept[i] = stack[i]
  BY <1>1, SubSeqProperties
<1>3. /\ pushed \in Seq(Transaction) /\ Len(pushed) = current + 1
      /\ \A i \in 1 .. current : pushed[i] = kept[i]
      /\ pushed[current + 1] = txActions
  BY <1>1, <1>2, AppendProperties
<1>4. pushed = Engine!Pushed(txActions)
  BY DEF Engine!Pushed, Engine!Truncated
<1> HIDE DEF kept, pushed
<1>5. CASE current + 1 > 2 * MaxSteps
  <2>1. /\ stack' = SubSeq(pushed, MaxSteps + 1, current + 1)
        /\ min' = min + MaxSteps /\ current' = current + 1 - MaxSteps
    BY <1>4, <1>5 DEF Engine!CommitWindow
  <2>2. /\ stack' \in Seq(Transaction) /\ Len(stack') = current + 1 - MaxSteps
        /\ \A i \in 1 .. current + 1 - MaxSteps : stack'[i] = pushed[MaxSteps + i]
    <3>1. /\ MaxSteps + 1 \in Int /\ current + 1 \in Int
          /\ MaxSteps + 1 <= current + 1
      BY <1>1, <1>5
    <3>2. \A i \in MaxSteps + 1 .. current + 1 : pushed[i] \in Transaction
      <4>1. \A i \in MaxSteps + 1 .. current + 1 : i \in 1 .. Len(pushed)
        BY <1>1, <1>3
      <4> QED
        BY <1>3, <4>1, ElementOfSeq
    <3>3. /\ SubSeq(pushed, MaxSteps + 1, current + 1) \in Seq(Transaction)
          /\ Len(SubSeq(pushed, MaxSteps + 1, current + 1)) = (current + 1) - (MaxSteps + 1) + 1
          /\ \A i \in 1 .. (current + 1) - (MaxSteps + 1) + 1 :
                SubSeq(pushed, MaxSteps + 1, current + 1)[i] = pushed[(MaxSteps + 1) + i - 1]
      BY <3>1, <3>2, SubSeqProperties
    <3>4. (current + 1) - (MaxSteps + 1) + 1 = current + 1 - MaxSteps
      BY <1>1
    <3>5. \A i \in 1 .. current + 1 - MaxSteps : (MaxSteps + 1) + i - 1 = MaxSteps + i
      BY <1>1
    <3> QED
      BY <2>1, <3>3, <3>4, <3>5
  <2>3. \A i \in 1 .. current - MaxSteps : stack'[i] = stack[i + MaxSteps]
    <3> SUFFICES ASSUME NEW i \in 1 .. current - MaxSteps
                 PROVE  stack'[i] = stack[i + MaxSteps]
      OBVIOUS
    <3>1. i \in 1 .. current + 1 - MaxSteps /\ MaxSteps + i \in 1 .. current /\ MaxSteps + i = i + MaxSteps
      BY <1>1, <1>5
    <3> QED
      BY <1>2, <1>3, <2>2, <3>1
  <2>4. stack'[current + 1 - MaxSteps] = txActions
    <3>1. current + 1 - MaxSteps \in 1 .. current + 1 - MaxSteps
          /\ MaxSteps + (current + 1 - MaxSteps) = current + 1
      BY <1>1, <1>5
    <3> QED
      BY <1>3, <2>2, <3>1
  <2>5. MaxSteps <= current
    BY <1>1, <1>5
  <2> QED
    BY <1>1, <2>1, <2>2, <2>3, <2>4, <2>5
<1>6. CASE ~(current + 1 > 2 * MaxSteps)
  <2>1. stack' = pushed /\ min' = min /\ current' = current + 1
    BY <1>4, <1>6 DEF Engine!CommitWindow
  <2>2. /\ min' = min + 0 /\ current' = current + 1 - 0 /\ Len(stack') = current + 1 - 0
        /\ stack' \in Seq(Transaction) /\ stack'[current + 1 - 0] = txActions /\ 0 <= current
    BY <1>1, <1>3, <2>1
  <2>3. \A i \in 1 .. current - 0 : stack'[i] = stack[i + 0]
    BY <1>1, <1>2, <1>3, <2>1
  <2> QED
    BY <2>2, <2>3
<1> QED
  BY <1>5, <1>6

\* What commit changes of the nodes: the models and ids of those it associates.
LEMMA NumberedKeeps ==
    ASSUME IInv, NEW v, NEW f \in Numberings(v)
    PROVE  /\ DOMAIN Numbered(f) = DOMAIN heap
           /\ \A n \in DOMAIN heap : /\ Numbered(f)[n].items = heap[n].items
                                     /\ Numbered(f)[n].parent = heap[n].parent
                                     /\ Numbered(f)[n].state = heap[n].state
           /\ Contents(Numbered(f)) = Contents(heap)
           /\ \A r : Known(heap, r) \cup Associated \subseteq Known(Numbered(f), r)
<1> DEFINE g == Numbered(f)
<1>1. /\ DOMAIN g = DOMAIN heap /\ SameIds(g)
      /\ \A n \in Associated : g[n].id \in Nat \ {0}
  BY NumberedFacts
<1>2. Associated \subseteq DOMAIN heap
  BY ReachFacts DEF Associated
<1>3. ASSUME NEW n \in DOMAIN heap
      PROVE  /\ g[n].items = heap[n].items /\ g[n].parent = heap[n].parent
             /\ g[n].state = heap[n].state
             /\ heap[n].managed => g[n].managed
             /\ n \in Associated => g[n].managed
  <2>1. heap[n] \in NodeFields(n)
    BY DEF IInv, HeapOK
  <2>2. CASE n \notin Associated
    BY <2>2 DEF Numbered
  <2>3. CASE n \in Associated
    <3>1. \E i : g[n] = [heap[n] EXCEPT !.managed = TRUE, !.id = i]
      BY <2>3 DEF Numbered
    <3> HIDE DEF g
    <3> QED
      BY <2>1, <3>1 DEF NodeFields
  <2> QED
    BY <2>2, <2>3
<1> HIDE DEF g
<1>4. Contents(g) = Contents(heap)
  BY <1>1, <1>3 DEF Contents
<1>5. ASSUME NEW r PROVE Known(heap, r) \cup Associated \subseteq Known(g, r)
  <2>1. ASSUME NEW n \in Known(heap, r) PROVE n \in Known(g, r)
    BY <1>1, <1>3, <2>1 DEF Known, SameIds
  <2>2. ASSUME NEW n \in Associated PROVE n \in Known(g, r)
    BY <1>1, <1>2, <1>3, <2>2 DEF Known
  <2> QED
    BY <2>1, <2>2
<1>6. /\ DOMAIN g = DOMAIN heap /\ Contents(g) = Contents(heap)
      /\ \A n \in DOMAIN heap : /\ g[n].items = heap[n].items
                                /\ g[n].parent = heap[n].parent
                                /\ g[n].state = heap[n].state
      /\ \A r : Known(heap, r) \cup Associated \subseteq Known(g, r)
  BY <1>1, <1>3, <1>4, <1>5
<1> QED
  BY <1>6 DEF g

\* The documents up to step c, and d after it.
Extended(H, lo, c, d) == [k \in lo .. c + 1 |-> IF k <= c THEN H[k] ELSE d]

LEMMA CommitCore ==
    ASSUME IInv, NEW H, Before(H), Commit
    PROVE  After(Extended(H, min', min + current, Doc(Contents(heap), root)))
<1> DEFINE D == DOMAIN heap
           F == FreeIn(heap)
           m == Contents(heap)
           c == min + current
           doc == Doc(m, root)
           H2 == Extended(H, min', c, doc)
<1>1. /\ HeapOK(heap) /\ LinksOK(heap) /\ Orphans(heap)
      /\ root # Null => root \in F
      /\ Control(root, stack, min, current, mstate, txActions, todo)
      /\ Associates(H, heap, root, mstate, txActions, todo)
  BY DEF Before, Core
<1>2. /\ todo = <<>> /\ mstate = "Transaction" /\ txActions # <<>>
      /\ mstate' = "Idle" /\ txActions' = <<>> /\ todo' = <<>> /\ root' = root
      /\ Engine!CommitWindow(txActions)
  BY DEF Commit, Ready
<1>3. PICK v, f, ix : f \in Numberings(v) /\ Release(Numbered(f), ix)
  BY CommitChoice
<1> DEFINE g == Numbered(f)
<1>5. /\ HeapOK(g) /\ DOMAIN g = D /\ Contents(g) = m
      /\ \A n \in D : /\ g[n].items = heap[n].items /\ g[n].parent = heap[n].parent
                      /\ g[n].state = heap[n].state
      /\ Known(heap, root) \cup Associated \subseteq Known(g, root)
  BY <1>3, NumberedFacts, NumberedKeeps
<1> HIDE DEF g
<1>6. LinksOK(g) /\ Orphans(g) /\ FreeIn(g) = F
  <2>1. \A p \in D : Children(g, p) = Children(heap, p)
    BY <1>5 DEF Children
  <2> QED
    BY <1>1, <1>5, <2>1 DEF LinksOK, Orphans, FreeIn
<1>7. PICK d \in Nat :
         /\ d <= current
         /\ stack' \in Seq(Transaction) /\ Len(stack') = current + 1 - d
         /\ min' = min + d /\ current' = current + 1 - d
         /\ \A i \in 1 .. current - d : stack'[i] = stack[i + d]
         /\ stack'[current + 1 - d] = txActions
  BY <1>2, EngineCommitted
<1>8. PICK M : /\ Course(H, M, D, F, root, stack, min)
               /\ Way(M, m, D, F, c, mstate, txActions, todo)
  BY DEF Before, Core
<1>9. min \in Nat /\ current \in Nat /\ Len(stack) \in Nat /\ current <= Len(stack) /\ c \in Nat
  BY <1>1, LenProperties DEF Control
<1> DEFINE N == [k \in min' .. c + 1 |-> IF k <= c THEN M[k] ELSE m]
<1>10. /\ min' .. min' + Len(stack') = min' .. c + 1 /\ min' + current' = c + 1 /\ min' \in Nat
       /\ current' \in Nat /\ current' <= Len(stack')
  BY <1>7, <1>9
<1>11. /\ DOMAIN N = min' .. c + 1 /\ DOMAIN H2 = min' .. c + 1
       /\ \A k \in min' .. c : k \in min .. min + Len(stack) /\ N[k] = M[k] /\ H2[k] = H[k]
       /\ N[c + 1] = m /\ H2[c + 1] = doc
  BY <1>7, <1>9 DEF Extended
<1>12. \A k \in min' .. c + 1 : k \in min' .. c \/ k = c + 1
  BY <1>7, <1>9
<1>13. Leads(M[c], txActions, m, FALSE, D, F) /\ ContentOK(m, D, F)
  BY <1>2, <1>8 DEF Way
<1> HIDE DEF N, H2
<1>14. ASSUME NEW k \in min' .. c + 1 PROVE ContentOK(N[k], D, F) /\ H2[k] = Doc(N[k], root)
  <2>1. CASE k \in min' .. c
    <3>1. ContentOK(M[k], D, F) /\ H[k] = Doc(M[k], root)
      BY <1>8, <1>11, <2>1 DEF Course
    <3> QED
      BY <1>11, <2>1, <3>1
  <2>2. CASE k = c + 1
    BY <1>11, <1>13, <2>2
  <2> QED
    BY <1>12, <2>1, <2>2
<1>15. ASSUME NEW k \in 1 .. Len(stack')
       PROVE  Leads(N[min' + k - 1], stack'[k], N[min' + k], FALSE, D, F)
  <2>1. CASE k \in 1 .. current - d
    <3>1. /\ k + d \in 1 .. Len(stack) /\ min + (k + d) - 1 = min' + k - 1 /\ min + (k + d) = min' + k
          /\ min' + k - 1 \in min' .. c /\ min' + k \in min' .. c
      BY <1>7, <1>9, <2>1
    <3>2. Leads(M[min + (k + d) - 1], stack[k + d], M[min + (k + d)], FALSE, D, F)
      BY <1>8, <3>1 DEF Course
    <3>3. stack'[k] = stack[k + d]
      BY <1>7, <2>1
    <3> QED
      BY <1>11, <3>1, <3>2, <3>3
  <2>2. CASE k = current + 1 - d
    <3>1. min' + k - 1 = c /\ min' + k = c + 1 /\ c \in min' .. c
      BY <1>7, <1>9, <2>2
    <3>2. N[c] = M[c] /\ stack'[k] = txActions
      BY <1>7, <1>11, <2>2, <3>1
    <3> QED
      BY <1>11, <1>13, <3>1, <3>2
  <2>3. k \in 1 .. current - d \/ k = current + 1 - d
    BY <1>7, <1>9
  <2> QED
    BY <2>1, <2>2, <2>3
<1>16. Course(H2, N, D, F, root, stack', min')
  BY <1>10, <1>11, <1>14, <1>15 DEF Course
<1>17. Way(N, m, D, F, min' + current', "Idle", <<>>, <<>>)
  <2>1. Goal("Idle", c + 1) = c + 1
    BY DEF Goal
  <2>2. Leads(m, <<>>, N[Goal("Idle", c + 1)], "Idle" # "Redo", D, F)
    BY <1>11, <2>1, LeadsNowhere
  <2> QED
    BY <1>10, <1>13, <2>2 DEF Way
<1>18. root # Null
  BY <1>1, <1>2 DEF Control
<1>19. Control(root, stack', min', current', "Idle", <<>>, <<>>)
  <2>1. stack' \in Seq(Seq(Action)) /\ stack' # <<>> /\ <<>> \in Seq(Action)
    BY <1>7, <1>9, EmptySeq DEF Transaction
  <2> QED
    BY <1>10, <1>18, <2>1 DEF Control
<1>20. Associates(H2, g, root, "Idle", <<>>, <<>>)
  <2>1. PICK G \in SUBSET Known(heap, root) :
           /\ root # Null => root \in G
           /\ \A p \in G : Kids(m, p) \subseteq G \cup InsertedBy(txActions)
    BY <1>1, <1>2 DEF Associates
  <2> DEFINE S == G \cup Associated
  <2>2. /\ DOMAIN m = D /\ \A p \in D : Kids(m, p) \subseteq D
    BY <1>13 DEF ContentOK
  <2>3. Associated \subseteq D /\ ClosedIn(m, Associated) /\ InsertedBy(txActions) \cap D \subseteq Associated
    BY ReachFacts DEF Associated, InsertedBy
  <2>4. G \subseteq D
    BY DEF Known
  <2>5. ClosedIn(m, S)
    BY <2>1, <2>2, <2>3, <2>4 DEF ClosedIn
  <2>6. Within(m, {root}) \subseteq S
    BY <1>18, <2>1, <2>5, WithinFacts
  <2>7. Within(m, {root}) \subseteq Known(g, root)
    BY <1>5, <2>6
  <2>8. DOMAIN doc.items = Within(m, {root})
    BY DocItems
  <2>9. ASSUME NEW k \in DOMAIN H2 PROVE DOMAIN H2[k].items \subseteq Known(g, root)
    <3>1. CASE k \in min' .. c
      <4>1. H2[k] = H[k] /\ k \in DOMAIN H
        BY <1>8, <1>11, <3>1 DEF Course
      <4>2. DOMAIN H[k].items \subseteq Known(heap, root)
        BY <1>1, <4>1 DEF Associates
      <4> QED
        BY <1>5, <4>1, <4>2
    <3>2. CASE k = c + 1
      BY <1>11, <2>7, <2>8, <3>2
    <3> QED
      BY <1>11, <1>12, <3>1, <3>2
  <2> QED
    BY <2>9 DEF Associates
<1>21. Core(H2, g, root, stack', min', current', "Idle", <<>>, <<>>)
  BY <1>1, <1>5, <1>6, <1>16, <1>17, <1>18, <1>19, <1>20 DEF Core, Fresh
<1>22. Core(H2, g, root', stack', min', current', mstate', txActions', todo')
  BY <1>2, <1>21
<1>23. After(H2)
  BY <1>3, <1>22, ReleaseCore DEF After, g
<1> QED
  BY <1>23 DEF H2

----------------------------------------------------------------------------
(***************************************************************************)
(* Another document.                                                       *)
(***************************************************************************)

\* A document of which no step is recorded.
LEMMA Alone ==
    ASSUME NEW h, HeapOK(h), LinksOK(h), Orphans(h),
           ContentOK(Contents(h), DOMAIN h, FreeIn(h)),
           NEW r, r # Null => r \in FreeIn(h), Within(Contents(h), {r}) \subseteq Known(h, r),
           NEW ms \in {"Idle", "Destroyed"}, Fresh(h, r, ms)
    PROVE  Core([k \in {0} |-> Doc(Contents(h), r)], h, r, <<>>, 0, 0, ms, <<>>, <<>>)
<1> DEFINE D == DOMAIN h
           F == FreeIn(h)
           m == Contents(h)
           H == [k \in {0} |-> Doc(m, r)]
           M == [k \in {0} |-> m]
<1>1. /\ <<>> \in Seq(Action) /\ <<>> \in Seq(Seq(Action)) /\ Len(<<>>) = 0
      /\ 0 .. 0 + Len(<<>>) = {0} /\ 1 .. Len(<<>>) = {}
  OBVIOUS
<1>2. DOMAIN M = {0} /\ DOMAIN H = {0} /\ M[0] = m /\ H[0] = Doc(m, r)
  OBVIOUS
<1>3. ContentOK(m, D, F)
  OBVIOUS
<1>4. Control(r, <<>>, 0, 0, ms, <<>>, <<>>)
  BY <1>1 DEF Control
<1> HIDE DEF M, H, m, D, F
<1>5. Course(H, M, D, F, r, <<>>, 0)
  BY <1>1, <1>2, <1>3 DEF Course
<1>6. Way(M, m, D, F, 0 + 0, ms, <<>>, <<>>)
  <2>1. Goal(ms, 0 + 0) = 0
    BY DEF Goal
  <2>2. Leads(m, <<>>, M[Goal(ms, 0 + 0)], ms # "Redo", D, F)
    BY <1>2, <2>1, LeadsNowhere
  <2> QED
    BY <1>3, <2>2 DEF Way
<1>7. Associates(H, h, r, ms, <<>>, <<>>)
  <2>1. DOMAIN H[0].items = Within(m, {r})
    BY <1>2, DocItems
  <2> QED
    BY <1>2, <2>1 DEF Associates, m
<1>8. Core(H, h, r, <<>>, 0, 0, ms, <<>>, <<>>)
  BY <1>4, <1>5, <1>6, <1>7 DEF Core, D, F, m
<1> QED
  BY <1>8 DEF H, m

\* The present document, alone.
Anew == [k \in {0} |-> Doc(Contents(heap), root)]

\* A heap without nodes.
LEMMA NoNodes ==
    ASSUME NEW h, DOMAIN h = {}, NEW ms \in {"Idle", "Destroyed"}
    PROVE  Core([k \in {0} |-> Doc(Contents(h), Null)], h, Null, <<>>, 0, 0, ms, <<>>, <<>>)
<1>1. HeapOK(h) /\ LinksOK(h) /\ Orphans(h) /\ Fresh(h, Null, ms)
  BY DEF HeapOK, LinksOK, Orphans, Fresh
<1>2. Contents(h) = [n \in {} |-> n]
  BY DEF Contents
<1>3. ContentOK(Contents(h), DOMAIN h, FreeIn(h))
  BY <1>2, NoContent
<1>4. Within(Contents(h), {Null}) \subseteq Known(h, Null)
  BY <1>2, WithinFacts
<1> QED
  BY <1>1, <1>3, <1>4, Alone

LEMMA InitCore ==
    ASSUME Init PROVE Before(Anew)
<1>1. /\ DOMAIN heap = {} /\ root = Null /\ stack = <<>> /\ min = 0 /\ current = 0
      /\ mstate = "Idle" /\ txActions = <<>> /\ todo = <<>>
  BY DEF Init
<1> QED
  BY <1>1, NoNodes DEF Before, Anew

\* What an idle model without steps has.
LEMMA IdleControl ==
    ASSUME NEW H, Before(H), mstate = "Idle", stack = <<>>
    PROVE  /\ todo = <<>> /\ txActions = <<>> /\ min = 0 /\ current = 0
           /\ ContentOK(Contents(heap), DOMAIN heap, FreeIn(heap))
<1>1. Control(root, stack, min, current, mstate, txActions, todo)
  BY DEF Before, Core
<1>2. current = 0 /\ min = 0
  BY <1>1 DEF Control
<1> QED
  BY <1>1, <1>2 DEF Control, Before, Core, Way

LEMMA LoadRootCore ==
    ASSUME IInv, NEW H, Before(H), NEW n \in Nodes, LoadRoot(n)
    PROVE  After(Anew')
<1> DEFINE D == DOMAIN heap
           m == Contents(heap)
<1>1. /\ mstate = "Idle" /\ root = Null /\ stack = <<>> /\ n \in D
      /\ root' = n /\ mstate' = mstate
      /\ UNCHANGED <<stack, min, current, txActions, todo>>
      /\ heap' = [x \in D |->
                    IF x \notin Reach(heap, {n}) THEN heap[x]
                    ELSE [heap[x] EXCEPT !.managed = TRUE,
                                         !.state = IF x = n THEN "Created" ELSE @]]
  BY DEF LoadRoot, engineVars, IInv
<1>2. /\ HeapOK(heap) /\ LinksOK(heap) /\ Orphans(heap)
      /\ \A x \in D : heap[x].state = "Created" /\ Children(heap, x) = {}
  BY <1>1 DEF Before, Core, Fresh
<1>3. \A x \in D : Kids(m, x) = {}
  BY <1>2, ContentsFacts
<1>4. DOMAIN m = D
  BY ContentsFacts
<1>5. Within(m, {n}) = {n}
  <2>1. ClosedIn(m, {n})
    BY <1>1, <1>3, <1>4 DEF ClosedIn
  <2>2. {n} \cap DOMAIN m = {n}
    BY <1>1, <1>4
  <2> HIDE DEF m
  <2>3. {n} \subseteq Within(m, {n})
    BY <2>2, WithinFacts
  <2>4. Within(m, {n}) \subseteq {n}
    BY <2>1, <2>2, WithinFacts
  <2> QED
    BY <2>3, <2>4
<1>6. Reach(heap, {n}) = {n}
  BY <1>5, ReachIsWithin
<1>7. /\ DOMAIN heap' = D
      /\ \A x \in D \ {n} : heap'[x] = heap[x]
      /\ heap'[n] = [heap[n] EXCEPT !.managed = TRUE, !.state = "Created"]
  BY <1>1, <1>6
<1>8. heap[n] \in NodeFields(n)
  BY <1>1, <1>2 DEF HeapOK
<1>9. /\ heap'[n] \in NodeFields(n) /\ heap'[n].managed /\ heap'[n].items = heap[n].items
      /\ heap'[n].state = heap[n].state /\ heap'[n].parent = heap[n].parent
  <2>1. heap[n].state = "Created"
    BY <1>1, <1>2
  <2> QED
    BY <1>7, <1>8, <2>1 DEF NodeFields, NodeState
<1>10. /\ HeapOK(heap') /\ Contents(heap') = m /\ FreeIn(heap') = FreeIn(heap)
       /\ Orphans(heap')
  <2>1. HeapOK(heap')
    BY <1>2, <1>7, <1>9 DEF HeapOK
  <2>2. \A x \in D : /\ heap'[x].items = heap[x].items
                     /\ heap'[x].state = heap[x].state
                     /\ heap'[x].parent = heap[x].parent
    BY <1>7, <1>9
  <2>3. Contents(heap') = m
    BY <1>7, <2>2 DEF Contents
  <2>4. FreeIn(heap') = FreeIn(heap) /\ Orphans(heap')
    BY <1>2, <1>7, <2>2 DEF FreeIn, Orphans
  <2> QED
    BY <2>1, <2>3, <2>4
<1>11. LinksOK(heap')
  <2>1. \A x \in D : Children(heap', x) = {}
    BY <1>2, <1>7, <1>9 DEF Children
  <2> QED
    BY <1>7, <2>1 DEF LinksOK
<1>12. n \in FreeIn(heap') /\ n # Null
  BY <1>1, <1>2, <1>10, NodeTreeAssumption DEF FreeIn
<1>13. Within(Contents(heap'), {n}) \subseteq Known(heap', n)
  <2>1. Within(Contents(heap'), {n}) = {n}
    BY <1>5, <1>10
  <2> QED
    BY <1>1, <1>7, <1>9, <2>1 DEF Known
<1>14. Fresh(heap', n, "Idle")
  BY <1>12 DEF Fresh
<1>15. /\ todo = <<>> /\ txActions = <<>> /\ min = 0 /\ current = 0
       /\ ContentOK(m, D, FreeIn(heap))
  BY <1>1, IdleControl
<1>16. ContentOK(Contents(heap'), DOMAIN heap', FreeIn(heap'))
  BY <1>7, <1>10, <1>15
<1> HIDE DEF m
<1>17. Core([k \in {0} |-> Doc(Contents(heap'), n)], heap', n, <<>>, 0, 0, "Idle", <<>>, <<>>)
  BY <1>10, <1>11, <1>12, <1>13, <1>14, <1>16, Alone
<1> QED
  BY <1>1, <1>15, <1>17 DEF After, Anew

\* A reset of which the client holds nothing leaves nothing.
LEMMA ResetEmpties ==
    ASSUME Plain, NEW H, Before(H), Reset
    PROVE  txActions = <<>> /\ DOMAIN heap' = {}
<1>1. /\ mstate = "Idle" /\ held = {} /\ root' = Null /\ stack' = <<>>
      /\ UNCHANGED <<held, txActions>>
      /\ Release(heap, [i \in {} |-> i])
  BY DEF Reset, Plain, Engine!ResetWindow
<1>2. txActions = <<>>
  BY <1>1 DEF Before, Core, Control
<1>3. Elements(<<>>) = {}
  <2>1. DOMAIN <<>> = {}
    OBVIOUS
  <2> QED
    BY <2>1 DEF Elements
<1>4. Owners' = {Null}
  BY <1>1, <1>2, <1>3 DEF Owners, HeldByActions
<1>5. Null \notin DOMAIN heap
  BY NodeTreeAssumption DEF Before, Core, HeapOK
<1>6. Reach(heap, Owners') = {}
  <2>1. ClosedIn(Contents(heap), {})
    BY DEF ClosedIn
  <2> QED
    BY <1>4, <1>5, <2>1, ReachFacts
<1> QED
  BY <1>1, <1>2, <1>6 DEF Release

LEMMA ResetCore ==
    ASSUME Plain, NEW H, Before(H), Reset PROVE After(Anew')
<1>1. /\ todo = <<>> /\ mstate = "Idle" /\ root' = Null
      /\ stack' = <<>> /\ min' = 0 /\ current' = 0
      /\ UNCHANGED <<mstate, txActions, todo>>
  BY DEF Reset, Ready, Engine!ResetWindow
<1> QED
  BY <1>1, ResetEmpties, NoNodes DEF After, Anew

LEMMA DestroyCore ==
    ASSUME NEW H, Before(H), Destroy PROVE After(Anew')
<1> DEFINE left == Reach(heap, held)
           e == [n \in {} |-> n]
           D == DOMAIN heap
           m == Contents(heap)
<1>1. /\ todo = <<>> /\ todo' = <<>> /\ mstate' = "Destroyed" /\ root' = Null /\ txActions' = <<>>
      /\ stack' = <<>> /\ min' = 0 /\ current' = 0
      /\ heap' = [n \in left |-> heap[n]]
  BY DEF Destroy, Ready, Engine!ResetWindow
<1>2. left \subseteq D /\ ClosedIn(m, left)
  BY ReachFacts
<1>3. /\ HeapOK(heap) /\ LinksOK(heap) /\ Orphans(heap) /\ ContentOK(m, D, FreeIn(heap))
  BY DEF Before, Core, Way
<1> HIDE DEF left
<1>4. /\ HeapOK(heap') /\ LinksOK(heap') /\ Orphans(heap')
      /\ FreeIn(heap') = FreeIn(heap) \cap left
      /\ Contents(heap') = Recast(m, left, e)
  <2>1. /\ HeapOK(heap) /\ LinksOK(heap) /\ Orphans(heap) /\ left \subseteq DOMAIN heap
        /\ ClosedIn(Contents(heap), left) /\ heap' = Only(heap, left)
    BY <1>1, <1>2, <1>3 DEF Only
  <2>2. /\ HeapOK(heap') /\ LinksOK(heap') /\ Orphans(heap')
        /\ FreeIn(heap') = FreeIn(heap) \cap left
        /\ Known(heap, Null) \cap left \subseteq Known(heap', Null)
        /\ Contents(heap') = Recast(Contents(heap), left, e)
    BY ONLY <2>1, OnlyFacts, SMTT(30)
  <2> QED
    BY <2>2
<1>5. DOMAIN heap' = left
  BY <1>1
<1>6. ContentOK(Contents(heap'), left, FreeIn(heap'))
  <2>1. left \ D = {} /\ ContentOK(e, left \ D, FreeIn(heap')) /\ FreeIn(heap') \cap D \subseteq FreeIn(heap)
    BY <1>2, <1>4, NoContent
  <2> HIDE DEF m, D, e
  <2>2. ContentOK(Recast(m, left, e), left, FreeIn(heap'))
    BY <1>2, <1>3, <2>1, RecastOK
  <2> QED
    BY <1>4, <2>2
<1>7. Within(Contents(heap'), {Null}) \subseteq Known(heap', Null)
  <2>1. Null \notin left
    BY <1>2, <1>3, NodeTreeAssumption DEF HeapOK
  <2>2. {Null} \cap DOMAIN Contents(heap') \subseteq {} /\ ClosedIn(Contents(heap'), {})
    BY <1>5, <2>1, ContentsFacts DEF ClosedIn
  <2>3. Within(Contents(heap'), {Null}) \subseteq {}
    BY <2>2, WithinFacts
  <2> QED
    BY <2>3
<1>8. Fresh(heap', Null, "Destroyed")
  BY DEF Fresh
<1>9. Core([k \in {0} |-> Doc(Contents(heap'), Null)], heap', Null, <<>>, 0, 0, "Destroyed", <<>>, <<>>)
  BY <1>4, <1>5, <1>6, <1>7, <1>8, Alone
<1> QED
  BY <1>1, <1>9 DEF After, Anew

----------------------------------------------------------------------------
(***************************************************************************)
(* Copies.                                                                 *)
(***************************************************************************)

\* A node is not owned by what it reaches.
LEMMA TopOfTree ==
    ASSUME NEW D, NEW F, NEW m, ContentOK(m, D, F), NEW n \in D,
           NEW q \in Within(m, {n})
    PROVE  n \notin Kids(m, q)
<1> DEFINE tree == Within(m, {n})
<1>1. DOMAIN m = D
  BY DEF ContentOK
<1>2. tree \subseteq DOMAIN m /\ n \in tree
  <2>1. n \in {n} \cap DOMAIN m
    BY <1>1
  <2> QED
    BY <2>1, WithinFacts
<1> HIDE DEF tree
<1>3. PICK z \in tree : \A x \in tree : z \notin Kids(m, x)
  BY <1>2 DEF ContentOK, Forest
<1>4. z = n
  BY <1>3, WithinParents DEF tree
<1> QED
  BY <1>3, <1>4 DEF tree

\* e has the copies of a tree with the root n: each has copies of what its
\* original has, and is not in G unless it is the copy of n.
Copies(m, tree, n, copy, e, G) ==
    /\ \A x \in tree : Kids(m, x) \subseteq tree \ {n}
    /\ \A x \in tree : copy[x] \in Nodes
    /\ \A x, y \in tree : copy[x] = copy[y] => x = y
    /\ \A x \in tree : x \in VectorNodes <=> copy[x] \in VectorNodes
    /\ e = [c \in {copy[x] : x \in tree} |-> e[c]]
    /\ \A x \in tree :
          e[copy[x]] = IF x \in VectorNodes
                       THEN [k \in 1 .. Len(m[x]) |-> copy[m[x][k]]] ELSE m[x]
    /\ \A x \in tree \ {n} : copy[x] \notin G

CopiedKids(m, tree, copy, e) ==
    \A x \in tree : Kids(e, copy[x]) = {copy[y] : y \in Kids(m, x)}

LEMMA CopyOK ==
    ASSUME NEW D, NEW F, NEW m, ContentOK(m, D, F),
           NEW tree, tree \subseteq D, NEW n \in tree,
           NEW copy, NEW e, NEW G, Copies(m, tree, n, copy, e, G)
    PROVE  ContentOK(e, DOMAIN e, G) /\ CopiedKids(m, tree, copy, e)
<1> DEFINE N == {copy[x] : x \in tree}
<1>0. /\ \A x \in tree : Kids(m, x) \subseteq tree \ {n}
      /\ \A x \in tree : copy[x] \in Nodes
      /\ \A x, y \in tree : copy[x] = copy[y] => x = y
      /\ \A x \in tree : x \in VectorNodes <=> copy[x] \in VectorNodes
      /\ e = [c \in N |-> e[c]]
      /\ \A x \in tree :
            e[copy[x]] = IF x \in VectorNodes
                         THEN [k \in 1 .. Len(m[x]) |-> copy[m[x][k]]] ELSE m[x]
      /\ \A x \in tree \ {n} : copy[x] \notin G
  BY DEF Copies
<1> USE <1>0
<1>1. ASSUME NEW x \in tree, x \in VectorNodes
      PROVE  /\ m[x] \in Seq(Nodes) /\ Len(m[x]) \in Nat /\ DOMAIN m[x] = 1 .. Len(m[x])
             /\ DOMAIN e[copy[x]] = DOMAIN m[x]
             /\ \A k \in DOMAIN m[x] : /\ e[copy[x]][k] = copy[m[x][k]]
                                       /\ m[x][k] \in tree \ {n}
             /\ e[copy[x]] \in Seq(Nodes)
  <2>1. m[x] \in Seq(Nodes)
    BY <1>1 DEF ContentOK
  <2>2. Len(m[x]) \in Nat /\ DOMAIN m[x] = 1 .. Len(m[x])
    BY <2>1, LenProperties
  <2>3. e[copy[x]] = [k \in 1 .. Len(m[x]) |-> copy[m[x][k]]]
    BY <1>1
  <2>4. \A k \in DOMAIN m[x] : m[x][k] \in tree \ {n}
    BY <1>1 DEF Kids, Elements
  <2>5. \A k \in 1 .. Len(m[x]) : copy[m[x][k]] \in Nodes
    BY <2>2, <2>4
  <2>6. e[copy[x]] \in Seq(Nodes)
    BY ONLY <2>2, <2>3, <2>5
  <2>7. /\ DOMAIN e[copy[x]] = DOMAIN m[x]
        /\ \A k \in DOMAIN m[x] : e[copy[x]][k] = copy[m[x][k]]
    BY ONLY <2>2, <2>3
  <2> QED
    BY <2>1, <2>2, <2>4, <2>6, <2>7
<1>2. ASSUME NEW x \in tree
      PROVE  Kids(e, copy[x]) = {copy[y] : y \in Kids(m, x)}
  <2>1. CASE x \in VectorNodes
    <3>1. copy[x] \in VectorNodes
      BY <2>1
    <3>2. Kids(e, copy[x]) = {e[copy[x]][k] : k \in DOMAIN e[copy[x]]}
      BY <3>1 DEF Kids, Elements
    <3>3. Kids(m, x) = {m[x][k] : k \in DOMAIN m[x]}
      BY <2>1 DEF Kids, Elements
    <3>4. DOMAIN e[copy[x]] = DOMAIN m[x]
      BY <1>1, <2>1
    <3>5. \A k \in DOMAIN m[x] : e[copy[x]][k] = copy[m[x][k]]
      BY <1>1, <2>1
    <3> QED
      BY ONLY <3>2, <3>3, <3>4, <3>5
  <2>2. CASE x \notin VectorNodes
    <3>1. copy[x] \notin VectorNodes
      BY <2>2
    <3> QED
      BY <2>2, <3>1 DEF Kids
  <2> QED
    BY <2>1, <2>2
<1>3. N \subseteq Nodes
  OBVIOUS
<1>4. \A c \in N : e[c] \in Seq(IF c \in VectorNodes THEN Nodes ELSE Bytes)
  <2>1. SUFFICES ASSUME NEW x \in tree
                 PROVE  e[copy[x]] \in Seq(IF copy[x] \in VectorNodes THEN Nodes ELSE Bytes)
    OBVIOUS
  <2>2. CASE x \in VectorNodes
    BY <1>1, <2>2
  <2>3. CASE x \notin VectorNodes
    <3>1. m[x] \in Seq(Bytes)
      BY <2>3 DEF ContentOK
    <3> QED
      BY <2>3, <3>1
  <2> QED
    BY <2>2, <2>3
<1>5. \A c \in N : Kids(e, c) \subseteq N \ G
  BY <1>2
<1>6. ASSUME NEW c \in N \cap VectorNodes, NEW d \in N \cap VectorNodes,
             NEW i \in DOMAIN e[c], NEW j \in DOMAIN e[d], e[c][i] = e[d][j]
      PROVE  c = d /\ i = j
  <2>1. PICK x \in tree : c = copy[x]
    OBVIOUS
  <2>2. PICK y \in tree : d = copy[y]
    OBVIOUS
  <2>3. x \in VectorNodes /\ y \in VectorNodes
    BY <2>1, <2>2
  <2>4. i \in DOMAIN m[x] /\ j \in DOMAIN m[y] /\ copy[m[x][i]] = copy[m[y][j]]
    <3>1. DOMAIN e[c] = DOMAIN m[x] /\ DOMAIN e[d] = DOMAIN m[y]
      BY <1>1, <2>1, <2>2, <2>3
    <3>2. e[c][i] = copy[m[x][i]] /\ e[d][j] = copy[m[y][j]]
      BY <1>1, <2>1, <2>2, <2>3, <3>1
    <3> QED
      BY <1>6, <3>1, <3>2
  <2>8. m[x][i] \in tree /\ m[y][j] \in tree
    BY <1>1, <2>3, <2>4
  <2>5. m[x][i] = m[y][j]
    BY <2>4, <2>8
  <2>6. x \in DOMAIN m \cap VectorNodes /\ y \in DOMAIN m \cap VectorNodes
    BY <2>3 DEF ContentOK
  <2>7. x = y /\ i = j
    BY <2>4, <2>5, <2>6 DEF ContentOK, Forest
  <2> QED
    BY <2>1, <2>2, <2>7
<1>7. ASSUME NEW S \in SUBSET N, S # {}
      PROVE  \E c \in S : \A d \in S : c \notin Kids(e, d)
  <2> DEFINE T == {x \in tree : copy[x] \in S}
  <2>1. T # {} /\ T \subseteq DOMAIN m
    BY <1>7 DEF ContentOK
  <2>2. PICK z \in T : \A x \in T : z \notin Kids(m, x)
    BY <2>1 DEF ContentOK, Forest
  <2>3. ASSUME NEW d \in S, copy[z] \in Kids(e, d) PROVE FALSE
    <3>1. PICK x \in tree : d = copy[x]
      OBVIOUS
    <3>4. copy[z] \in {copy[y] : y \in Kids(m, x)}
      BY <1>2, <2>3, <3>1
    <3>2. PICK y \in Kids(m, x) : copy[z] = copy[y]
      BY <3>4
    <3>3. z = y
      BY <3>2
    <3> QED
      BY <2>2, <3>1, <3>2, <3>3
  <2> QED
    BY <2>2, <2>3
<1>8. DOMAIN e = N
  OBVIOUS
<1>9. Forest(e)
  BY <1>6, <1>7, <1>8 DEF Forest
<1>10. CopiedKids(m, tree, copy, e)
  BY <1>2 DEF CopiedKids
<1> QED
  BY <1>3, <1>4, <1>5, <1>8, <1>9, <1>10 DEF ContentOK

LEMMA CloneCore ==
    ASSUME Plain, IInv, NEW H, Before(H), NEW n \in Nodes, Clone(n)
    PROVE  After(H)
<1> DEFINE D == DOMAIN heap
           F == FreeIn(heap)
           m == Contents(heap)
           tree == Reach(heap, {n})
           g == heap'
<1>1. PICK copy \in [tree -> Nodes \ DOMAIN heap], home \in [tree \ {n} -> tree],
           p \in Uninit :
         /\ \A x \in tree : x \in VectorNodes <=> copy[x] \in VectorNodes
         /\ \A x \in tree : Children(heap, x) \subseteq tree
         /\ \A x, y \in tree : x # y => copy[x] # copy[y]
         /\ \A x \in tree \ {n} : x \in Children(heap, home[x])
         /\ heap' = Cloned(tree, n, copy, home, p)
  BY DEF Clone
<1>2. /\ HeapOK(heap) /\ LinksOK(heap) /\ Orphans(heap) /\ Fresh(heap, root, mstate)
      /\ ContentOK(m, D, F)
  BY DEF Before, Core, Way
<1>3. n \in D /\ tree \subseteq D /\ n \in tree
  <2>1. n \in D
    BY DEF Clone, OnTree, Reach, IInv
  <2>2. n \in {n} \cap DOMAIN heap
    BY <2>1
  <2> QED
    BY <2>1, <2>2, ReachFacts
<1>4. /\ DOMAIN m = D /\ \A x \in D : m[x] = heap[x].items
      /\ \A x \in D : Kids(m, x) = Children(heap, x)
      /\ tree = Within(m, {n})
  BY ContentsFacts, ReachIsWithin
<1> HIDE DEF tree, m
<1>5. \A x \in tree : Kids(m, x) \subseteq tree \ {n}
  <2>1. \A x \in tree : n \notin Kids(m, x)
    BY <1>2, <1>3, <1>4, TopOfTree
  <2>2. \A x \in tree : Children(heap, x) \subseteq tree
    BY <1>1
  <2>3. \A x \in tree : Kids(m, x) = Children(heap, x)
    BY <1>3, <1>4
  <2> QED
    BY ONLY <2>1, <2>2, <2>3
<1> DEFINE N == {copy[x] : x \in tree}
           e == [c \in DOMAIN g \ D |-> g[c].items]
           Items(x) == IF x \in VectorNodes
                       THEN [k \in 1 .. Len(heap[x].items) |-> copy[heap[x].items[k]]]
                       ELSE heap[x].items
<1>6. /\ DOMAIN g = D \cup N
      /\ \A c \in D : g[c] = heap[c]
      /\ N \cap D = {}
  BY <1>1 DEF Cloned
<1>7. ASSUME NEW x \in tree
      PROVE  g[copy[x]] = IF x = n THEN CopyOf(x, Items(x), p, "Created")
                          ELSE CopyOf(x, Items(x), copy[home[x]], "Active")
  <2> DEFINE o == CHOOSE y \in tree : copy[y] = copy[x]
  <2>1. o \in tree /\ copy[o] = copy[x]
    OBVIOUS
  <2>2. o = x
    BY <1>1, <2>1
  <2>3. copy[x] \in DOMAIN g /\ copy[x] \notin D
    BY <1>6
  <2>4. g[copy[x]] = IF o = n THEN CopyOf(o, Items(o), p, "Created")
                     ELSE CopyOf(o, Items(o), copy[home[o]], "Active")
    BY <1>1, <2>3 DEF Cloned
  <2> QED
    BY <2>2, <2>4
<1>8. ASSUME NEW x \in tree
      PROVE  /\ g[copy[x]].items = Items(x)
             /\ g[copy[x]].parent = IF x = n THEN p ELSE copy[home[x]]
             /\ g[copy[x]].state = IF x = n THEN "Created" ELSE "Active"
  <2> HIDE DEF Items, g
  <2>1. CASE x = n
    <3>1. g[copy[x]] = CopyOf(x, Items(x), p, "Created")
      BY <1>7, <2>1
    <3> QED
      BY <2>1, <3>1 DEF CopyOf
  <2>2. CASE x # n
    <3>1. g[copy[x]] = CopyOf(x, Items(x), copy[home[x]], "Active")
      BY <1>7, <2>2
    <3> QED
      BY <2>2, <3>1 DEF CopyOf
  <2> QED
    BY <2>1, <2>2
<1>9. HeapOK(g)
  BY CloneStep DEF Good, NodesGood
<1>10. DOMAIN g \ D = N
  BY <1>6
<1> HIDE DEF N, g
<1>11. /\ N \cap FreeIn(g) = {copy[n]}
       /\ \A x \in tree \ {n} : copy[x] \notin FreeIn(g)
  <2>1. \A x \in tree : copy[x] \in N /\ copy[x] \in DOMAIN g
    BY <1>6 DEF N
  <2>2. \A x \in tree : copy[x] \in FreeIn(g) <=> x = n
    <3>1. \A x \in tree : g[copy[x]].state = "Created" <=> x = n
      BY <1>8
    <3> QED
      BY <2>1, <3>1 DEF FreeIn
  <2>3. N \cap FreeIn(g) \subseteq {copy[n]}
    BY <2>2 DEF N
  <2> QED
    BY <1>3, <2>1, <2>2, <2>3
<1>12. /\ ContentOK(e, N, FreeIn(g))
       /\ \A x \in tree : Kids(e, copy[x]) = {copy[y] : y \in Kids(m, x)}
  <2>1. e = [c \in N |-> e[c]]
    BY <1>10
  <2>2. \A x \in tree :
           e[copy[x]] = IF x \in VectorNodes
                        THEN [k \in 1 .. Len(m[x]) |-> copy[m[x][k]]] ELSE m[x]
    <3>1. SUFFICES ASSUME NEW x \in tree
                   PROVE  e[copy[x]] = IF x \in VectorNodes
                             THEN [k \in 1 .. Len(m[x]) |-> copy[m[x][k]]] ELSE m[x]
      OBVIOUS
    <3>2. m[x] = heap[x].items /\ e[copy[x]] = g[copy[x]].items
      BY <1>3, <1>4, <1>10 DEF N
    <3>3. e[copy[x]] = Items(x)
      BY <1>8, <3>2
    <3> HIDE DEF e
    <3> QED
      BY <3>2, <3>3
  <2>3. /\ \A x \in tree : copy[x] \in Nodes
        /\ \A x, y \in tree : copy[x] = copy[y] => x = y
    BY <1>1
  <2>4. \A x \in tree : x \in VectorNodes <=> copy[x] \in VectorNodes
    BY <1>1
  <2>5. DOMAIN e = N
    BY <1>10
  <2> HIDE DEF e
  <2>6. Copies(m, tree, n, copy, e, FreeIn(g))
    BY <1>5, <1>11, <2>1, <2>2, <2>3, <2>4 DEF Copies, N
  <2>7. ContentOK(e, N, FreeIn(g)) /\ CopiedKids(m, tree, copy, e)
    BY <1>2, <1>3, <2>5, <2>6, CopyOK
  <2> QED
    BY <2>7 DEF CopiedKids
<1>13. /\ \A c \in D : Children(g, c) = Children(heap, c)
       /\ \A x \in tree : Children(g, copy[x]) = {copy[y] : y \in Kids(m, x)}
  <2>1. \A c \in D : Children(g, c) = Children(heap, c)
    BY <1>6 DEF Children
  <2>2. ASSUME NEW x \in tree
        PROVE  Children(g, copy[x]) = Kids(e, copy[x])
    <3>1. e[copy[x]] = g[copy[x]].items
      BY <1>10 DEF N
    <3> QED
      BY <3>1 DEF Children, Kids
  <2> QED
    BY <1>12, <2>1, <2>2
<1>14. LinksOK(g)
  <2>1. ASSUME NEW c \in D, NEW d \in Children(g, c)
        PROVE  d \in DOMAIN g /\ g[d].parent = c /\ g[d].state = "Active"
    BY <1>2, <1>6, <1>13 DEF LinksOK
  <2>2. ASSUME NEW x \in tree, NEW y \in Kids(m, x)
        PROVE  copy[y] \in DOMAIN g /\ g[copy[y]].parent = copy[x] /\ g[copy[y]].state = "Active"
    <3>1. y \in tree \ {n}
      BY <1>5
    <3>2. home[y] \in tree /\ y \in Kids(m, home[y])
      BY <1>1, <1>3, <1>4, <3>1
    <3>3. home[y] = x
      BY <1>2, <1>3, <3>2, OneParent
    <3> QED
      BY <1>6, <1>8, <3>1, <3>3 DEF N
  <2>3. ASSUME NEW c \in N, NEW d \in Children(g, c)
        PROVE  d \in DOMAIN g /\ g[d].parent = c /\ g[d].state = "Active"
    <3>1. PICK x \in tree : c = copy[x]
      BY DEF N
    <3>2. d \in {copy[y] : y \in Kids(m, x)}
      BY <1>13, <3>1
    <3>3. PICK y \in Kids(m, x) : d = copy[y]
      BY <3>2
    <3> QED
      BY <2>2, <3>1, <3>3
  <2> QED
    BY <1>6, <2>1, <2>3 DEF LinksOK
<1>15. Orphans(g)
  <2>1. g[copy[n]].parent \in {Null, Wild}
    BY <1>3, <1>8 DEF Plain
  <2> QED
    BY <1>2, <1>6, <1>11, <2>1 DEF Orphans, FreeIn
<1>16. Fresh(g, root, mstate)
  <2>1. SUFFICES ASSUME root = Null, mstate # "Destroyed", NEW c \in DOMAIN g
                 PROVE  g[c].state = "Created" /\ Children(g, c) = {}
    BY DEF Fresh
  <2>2. \A x \in D : heap[x].state = "Created" /\ Children(heap, x) = {}
    BY <1>2, <2>1 DEF Fresh
  <2>3. CASE c \in D
    BY <1>6, <1>13, <2>2, <2>3
  <2>4. CASE c \in N
    <3>1. PICK x \in tree : c = copy[x]
      BY <2>4 DEF N
    <3>2. Kids(m, x) = {}
      BY <1>3, <1>4, <2>2
    <3>3. Children(g, c) = {}
      BY <1>13, <3>1, <3>2
    <3>4. ClosedIn(m, {n})
      BY <1>3, <1>4, <2>2 DEF ClosedIn
    <3>5. {n} \cap DOMAIN m \subseteq {n}
      OBVIOUS
    <3>6. tree \subseteq {n}
      BY <1>4, <3>4, <3>5, WithinFacts
    <3> QED
      BY <1>8, <3>1, <3>3, <3>6
  <2> QED
    BY <1>6, <2>3, <2>4
<1>17. Core(H, heap, root, stack, min, current, mstate, txActions, todo)
  BY DEF Before
<1>18. /\ DOMAIN heap \subseteq DOMAIN g
       /\ \A x \in DOMAIN heap : g[x] = heap[x]
       /\ e = [c \in DOMAIN g \ DOMAIN heap |-> g[c].items]
       /\ ContentOK(e, DOMAIN g \ DOMAIN heap, FreeIn(g))
  BY <1>6, <1>10, <1>12
<1> HIDE DEF e
<1>19. Core(H, g, root, stack, min, current, mstate, txActions, todo)
  BY <1>9, <1>14, <1>15, <1>16, <1>17, <1>18, Grow
<1>20. UNCHANGED <<root, stack, min, current, mstate, txActions, todo>>
  BY DEF Clone, engineVars
<1> QED
  BY <1>19, <1>20 DEF After, g

----------------------------------------------------------------------------
(***************************************************************************)
(* All steps.                                                              *)
(***************************************************************************)

\* A question that is asked, or an edit that fails, changes nothing.
LEMMA QuietCore ==
    ASSUME NEW H, Before(H), NEW n \in Nodes, EditUnmanaged(n) \/ AskDangling(n) \/ AskDestroyed(n)
    PROVE  After(H) /\ fault' \in {"null model", "dangling parent", "freed model"}
<1>1. /\ UNCHANGED <<heap, root, stack, min, current, mstate, txActions, todo>>
      /\ fault' \in {"null model", "dangling parent", "freed model"}
  BY DEF EditUnmanaged, AskDangling, AskDestroyed, nodeVars, engineVars
<1> QED
  BY <1>1 DEF Before, After

LEMMA ReleaseFault ==
    ASSUME NEW h, NEW ix, Release(h, ix) PROVE fault' \in {fault, "no engine"}
BY DEF Release, AfterDeath

\* No step goes wrong by an index.
LEMMA ClientCore ==
    ASSUME Plain, IInv, NEW H, Before(H), ClientStep
    PROVE  /\ After(H)
           /\ fault' \in {fault, "no engine", "null model", "dangling parent", "freed model"}
<1>1. ASSUME NEW n \in Nodes, Create(n) \/ Drop(n) \/ Clone(n)
      PROVE  After(H) /\ fault' \in {fault, "no engine"}
  <2>1. Create(n) \/ Clone(n) => fault' = fault
    BY DEF Create, Clone
  <2>2. Drop(n) => fault' \in {fault, "no engine"}
    BY ReleaseFault DEF Drop
  <2> QED
    BY <1>1, <2>1, <2>2, CreateCore, DropCore, CloneCore
<1>2. ASSUME NEW n \in Nodes,
             \/ VectorInsert(n) \/ VectorRemove(n)
             \/ BytesInsert(n) \/ BytesRemove(n) \/ BytesReplace(n)
      PROVE  After(H) /\ fault' \in {fault, "no engine"}
  BY <1>2, VectorInsertCore, VectorRemoveCore, BytesInsertCore, BytesRemoveCore,
     BytesReplaceCore
<1>3. ASSUME NEW n \in Nodes \cup {Null}
      PROVE  ~VectorMove(n) /\ ~BytesReplaceBeyond(n) /\ ~SetRoot(n)
  BY DEF Plain, VectorMove, BytesReplaceBeyond, SetRoot
<1>4. ASSUME \/ BeginTransaction \/ CommitNothing \/ AbortTransaction
             \/ Undo \/ Redo
      PROVE  After(H) /\ fault' = fault
  <2>1. fault' = fault
    BY <1>4 DEF BeginTransaction, CommitNothing, AbortTransaction, Undo, Redo
  <2> QED
    BY <1>4, <2>1, BeginCore, CommitNothingCore, AbortCore, UndoCore, RedoCore
<1>5. ASSUME NEW n \in Nodes, EditUnmanaged(n) \/ AskDangling(n) \/ AskDestroyed(n)
      PROVE  After(H) /\ fault' \in {"null model", "dangling parent", "freed model"}
  BY <1>5, QuietCore
<1>6. CASE \E n \in Nodes :
              \/ Create(n) \/ Drop(n) \/ Clone(n)
              \/ VectorInsert(n) \/ VectorRemove(n)
              \/ BytesInsert(n) \/ BytesRemove(n) \/ BytesReplace(n)
              \/ EditUnmanaged(n) \/ AskDangling(n) \/ AskDestroyed(n)
  BY <1>1, <1>2, <1>5, <1>6
<1>7. CASE \/ BeginTransaction \/ CommitNothing \/ AbortTransaction
           \/ Undo \/ Redo
  BY <1>4, <1>7
<1> QED
  BY <1>3, <1>6, <1>7 DEF ClientStep

LEMMA NewDocumentCore ==
    ASSUME Plain, IInv, NEW H, Before(H), NewDocument
    PROVE  After(Anew') /\ fault' \in {fault, "no engine"}
<1>1. After(Anew')
  BY LoadRootCore, ResetCore, DestroyCore DEF NewDocument
<1>2. ASSUME NEW n \in Nodes, LoadRoot(n) PROVE fault' = fault
  BY <1>2 DEF LoadRoot
<1>3. Reset => fault' \in {fault, "no engine"}
  BY ReleaseFault DEF Reset
<1>4. Destroy => fault' \in {fault, "no engine"}
  BY DEF Destroy, AfterDeath
<1> QED
  BY <1>1, <1>2, <1>3, <1>4 DEF NewDocument

LEMMA LibraryFault ==
    ASSUME LibraryStep, ~ExecuteOutOfRange PROVE fault' \in {fault, "no engine"}
<1>1. ExecuteNext
  BY DEF LibraryStep, ExecuteAction, AbortReturns, UndoReturns, RedoReturns
<1> QED
  BY <1>1, ReleaseFault DEF ExecuteNext

\* The documents of the steps, and how each action changes them.
TreeInv ==
    /\ \E H : Before(H)
    /\ fault # "out of range"

LEMMA TreeInvInit == Init => TreeInv
<1>1. Init => fault = "none"
  BY DEF Init
<1> QED
  BY <1>1, InitCore DEF TreeInv

LEMMA TreeInvStep ==
    ASSUME Plain, IInv, TreeInv, [Next]_vars PROVE TreeInv'
<1>1. PICK H : Before(H)
  BY DEF TreeInv
<1>2. fault # "out of range"
  BY DEF TreeInv
<1>3. ASSUME NEW G, After(G) PROVE \E H_1 : Before(H_1)'
  BY <1>3 DEF After, Before
<1>4. CASE NewDocument
  BY <1>1, <1>2, <1>3, <1>4, NewDocumentCore DEF TreeInv
<1>5. CASE Commit
  <2>1. fault' \in {fault, "no engine"}
    BY <1>5, ReleaseFault DEF Commit
  <2> QED
    BY <1>1, <1>2, <1>3, <1>5, <2>1, CommitCore DEF TreeInv
<1>6. CASE ClientStep
  BY <1>1, <1>2, <1>3, <1>6, ClientCore DEF TreeInv
<1>7. CASE LibraryStep
  BY <1>1, <1>2, <1>3, <1>7, LibraryCore, LibraryFault DEF TreeInv
<1>8. CASE UNCHANGED vars
  <2>1. UNCHANGED <<heap, root, stack, min, current, mstate, txActions, todo, fault>>
    BY <1>8 DEF vars, engineVars
  <2>2. After(H)
    BY <1>1, <2>1 DEF Before, After
  <2> QED
    BY <1>2, <1>3, <2>1, <2>2 DEF TreeInv
<1> QED
  BY <1>4, <1>5, <1>6, <1>7, <1>8 DEF Next

LEMMA TreeInvAlways == Plain => (Spec => []TreeInv)
<1> SUFFICES ASSUME Plain PROVE Spec => []TreeInv
  OBVIOUS
<1>1. IInv /\ TreeInv /\ [Next]_vars => TreeInv'
  BY TreeInvStep
<1> QED
  BY TreeInvInit, InvAlways, <1>1, PTL DEF Spec

\* A forest, with a root that is free, is what TreeConsistent asks for.
LEMMA CoreConsistent ==
    ASSUME NEW H, Before(H) PROVE TreeConsistent
<1> DEFINE D == DOMAIN heap
           F == FreeIn(heap)
           m == Contents(heap)
<1>1. LinksOK(heap) /\ ContentOK(m, D, F) /\ (root # Null => root \in F)
  BY DEF Before, Core, Way
<1>2. /\ \A x \in D : m[x] = heap[x].items /\ Kids(m, x) = Children(heap, x)
      /\ DOMAIN m = D
  BY ContentsFacts
<1>3. OnTree \subseteq D /\ ClosedIn(m, OnTree)
  BY ReachFacts DEF OnTree
<1>4. Null \notin D
  BY <1>1, NodeTreeAssumption DEF ContentOK
<1> HIDE DEF m, F
<1>5. ASSUME NEW p \in OnTree \cap VectorNodes, NEW i \in DOMAIN heap[p].items
      PROVE  /\ heap[p].items[i] \in OnTree \ {root}
             /\ heap[heap[p].items[i]].parent = p
             /\ heap[heap[p].items[i]].state = "Active"
             /\ \A j \in DOMAIN heap[p].items \ {i} : heap[p].items[j] # heap[p].items[i]
  <2> DEFINE x == heap[p].items[i]
  <2>1. p \in D /\ x \in Children(heap, p)
    BY <1>3 DEF Children, Elements
  <2>2. x \in D /\ heap[x].parent = p /\ heap[x].state = "Active"
    BY <1>1, <2>1 DEF LinksOK
  <2>3. x \in Kids(m, p)
    BY <1>2, <2>1
  <2>4. x \in OnTree
    BY <1>2, <1>3, <2>1, <2>2, <2>3 DEF ClosedIn
  <2>5. x # root
    BY <1>1, <1>4, <2>1, <2>2, <2>3 DEF ContentOK
  <2>6. \A j \in DOMAIN heap[p].items \ {i} : heap[p].items[j] # x
    <3>1. p \in DOMAIN m \cap VectorNodes /\ m[p] = heap[p].items
      BY <1>2, <2>1
    <3>2. \A j \in DOMAIN m[p] : m[p][j] = m[p][i] => j = i
      BY <1>1, <3>1 DEF ContentOK, Forest
    <3> QED
      BY <3>1, <3>2
  <2> QED
    BY <2>2, <2>4, <2>5, <2>6
<1> QED
  BY <1>5 DEF TreeConsistent

\* Between any two actions of any transaction, abort, undo or redo the document
\* is a tree whose vectors, parent pointers and states agree (addChild,
\* removeChild, VectorInsDelAction::execute): for every number of nodes, every
\* limit of the engine, and clients that do nothing else but what is Plain.
THEOREM TreeAlwaysConsistent == Plain => (Spec => []TreeConsistent)
<1> SUFFICES ASSUME Plain PROVE Spec => []TreeConsistent
  OBVIOUS
<1>1. TreeInv => TreeConsistent
  BY CoreConsistent DEF TreeInv
<1> QED
  BY TreeInvAlways, <1>1, PTL

\* The recorded actions fit the vectors they are executed on, in both
\* directions and whatever was undone, redone, aborted, committed or trimmed
\* between: execute, which checks no index, needs to check none.
THEOREM NeverOutOfRange == Plain => (Spec => []NoOutOfRange)
<1> SUFFICES ASSUME Plain PROVE Spec => []NoOutOfRange
  OBVIOUS
<1>1. TreeInv => NoOutOfRange
  BY DEF TreeInv, NoOutOfRange
<1> QED
  BY TreeInvAlways, <1>1, PTL

----------------------------------------------------------------------------
(***************************************************************************)
(* The index.                                                              *)
(***************************************************************************)

\* No node has the id of another one, and the nodes do not outlive their model.
OwnIds == Calls \cap {"clone", "destroy"} = {}

\* Every id of h is found in ix, and none is above top.
Indexed(h, ix, top) ==
    \A n \in DOMAIN h :
        h[n].id # 0 => h[n].id <= top /\ h[n].id \in DOMAIN ix /\ ix[h[n].id] = n

\* ~Node takes out its own id only.
LEMMA ReleaseIndexed ==
    ASSUME NEW h, NEW ix, NEW top, Indexed(h, ix, top), Release(h, ix)
    PROVE  Indexed(heap', index', top)
<1> DEFINE alive == Reach(h, Owners')
           freed == {h[n].id : n \in DOMAIN h \ alive}
<1>1. /\ heap' = [n \in alive |-> h[n]]
      /\ index' = [i \in DOMAIN ix \ freed |-> ix[i]]
  BY DEF Release
<1>2. alive \subseteq DOMAIN h
  BY ReachFacts
<1> HIDE DEF alive
<1>3. ASSUME NEW n \in DOMAIN heap', heap'[n].id # 0
      PROVE  /\ heap'[n].id <= top /\ heap'[n].id \in DOMAIN index'
             /\ index'[heap'[n].id] = n
  <2>1. n \in alive /\ n \in DOMAIN h /\ heap'[n] = h[n]
    BY <1>1, <1>2
  <2>2. h[n].id <= top /\ h[n].id \in DOMAIN ix /\ ix[h[n].id] = n
    BY <1>3, <2>1 DEF Indexed
  <2>3. ASSUME NEW k \in DOMAIN h \ alive, h[k].id = h[n].id PROVE FALSE
    <3>1. ix[h[k].id] = k
      BY <1>3, <2>1, <2>3 DEF Indexed
    <3> QED
      BY <2>1, <2>2, <2>3, <3>1
  <2>4. h[n].id \notin freed
    BY <2>3
  <2> QED
    BY <1>1, <2>1, <2>2, <2>4
<1> QED
  BY <1>3 DEF Indexed

\* Executing an action gives no node another id.
LEMMA ExecutedIndexed ==
    ASSUME NEW h, HeapOK(h), NEW ix, NEW top, Indexed(h, ix, top), NEW a, NEW undo
    PROVE  Indexed(Executed(h, a, undo), ix, top)
<1> DEFINE g == Executed(h, a, undo)
<1>1. DOMAIN g = DOMAIN h
  BY DEF Executed
<1>2. ASSUME NEW n \in DOMAIN h PROVE g[n].id = h[n].id
  <2>1. h[n] \in NodeFields(n)
    BY DEF HeapOK
  <2>2. \/ g[n] = Removed(h[n], h[a.parent].managed)
        \/ g[n] = Added(h[n], a.parent)
        \/ g[n] = [h[n] EXCEPT !.items = NewItems(h[a.parent].items, a, undo)]
        \/ g[n] = h[n]
    BY DEF Executed
  <2> HIDE DEF g
  <2> QED
    BY <2>1, <2>2 DEF Removed, Added, NodeFields
<1> HIDE DEF g
<1>3. Indexed(g, ix, top)
  BY <1>1, <1>2 DEF Indexed
<1> QED
  BY <1>3 DEF g

\* addId gives a node that has no id one above all that were given out before.
LEMMA NewIds ==
    ASSUME IInv, NEW v \in Visits, NEW f \in Numberings(v)
    PROVE  /\ \A n \in Associated : f[n] \in Nat \ {0} /\ Numbered(f)[n].id = f[n]
           /\ \A n \in Associated : heap[n].id # 0 => f[n] = heap[n].id
           /\ \A n \in Associated : heap[n].id = 0 => maxId < f[n]
           /\ \A m, n \in Associated :
                 m # n /\ heap[m].id = 0 /\ heap[n].id = 0 => f[m] # f[n]
<1>1. \A n \in Associated : f[n] \in Nat \ {0} /\ Numbered(f)[n].id = f[n]
  BY NumberedFacts
<1>2. maxId \in Nat
  BY DEF IInv, StateOK
<1>3. ASSUME NEW n \in Associated
      PROVE  /\ heap[n].id # 0 => f[n] = heap[n].id
             /\ heap[n].id = 0 =>
                   f[n] - 1 \in Greatest({maxId} \cup {f[m] : m \in {l \in Associated : v[l] < v[n]}})
  BY DEF Numberings
<1>4. ASSUME NEW n \in Associated, heap[n].id = 0
      PROVE  /\ maxId < f[n]
             /\ \A m \in Associated : v[m] < v[n] => f[m] < f[n]
  BY <1>1, <1>2, <1>3, <1>4 DEF Greatest
<1>5. ASSUME NEW m \in Associated, NEW n \in Associated, m # n,
             heap[m].id = 0, heap[n].id = 0
      PROVE  f[m] # f[n]
  <2>1. v[m] \in Nat /\ v[n] \in Nat /\ v[m] # v[n]
    <3>1. Associated \subseteq Nodes
      BY ReachFacts DEF Associated, IInv, HeapOK
    <3>2. Cardinality(Associated) \in Nat
      BY <3>1, NodeTreeAssumption, FS_Subset, FS_CardinalityType
    <3> QED
      BY <1>5, <3>2 DEF Visits
  <2>2. v[m] < v[n] \/ v[n] < v[m]
    BY <2>1
  <2>3. f[m] < f[n] \/ f[n] < f[m]
    BY <1>4, <1>5, <2>2
  <2> QED
    BY <1>1, <2>3
<1> QED
  BY <1>1, <1>3, <1>4, <1>5

LEMMA NumberedIndexed ==
    ASSUME IInv, Indexed(heap, index, maxId), NEW v \in Visits, NEW f \in Numberings(v),
           NEW ix \in Indexings(v, f), NEW top \in Nat, maxId <= top,
           \A n \in Associated : f[n] <= top
    PROVE  Indexed(Numbered(f), ix, top)
<1> DEFINE h == Numbered(f)
           new == {f[n] : n \in Associated} \ DOMAIN index
           First(i) == {n \in Associated :
                           f[n] = i /\ \A m \in Associated : f[m] = i => v[n] <= v[m]}
<1>1. DOMAIN h = DOMAIN heap /\ maxId \in Nat
  BY NumberedFacts DEF IInv, StateOK
<1>2. /\ \A n \in Associated : f[n] \in Nat \ {0} /\ h[n].id = f[n]
      /\ \A n \in Associated : heap[n].id # 0 => f[n] = heap[n].id
      /\ \A n \in Associated : heap[n].id = 0 => maxId < f[n]
      /\ \A m, n \in Associated :
            m # n /\ heap[m].id = 0 /\ heap[n].id = 0 => f[m] # f[n]
  BY NewIds
<1>3. Associated \subseteq DOMAIN heap
  BY ReachFacts DEF Associated
<1>4. \A n \in DOMAIN heap \ Associated : h[n].id = heap[n].id
  BY DEF Numbered
<1>5. PICK e \in [new -> Associated] :
         /\ \A i \in new : e[i] \in First(i)
         /\ ix = [i \in DOMAIN index \cup new |-> IF i \in new THEN e[i] ELSE index[i]]
  BY DEF Indexings
<1>6. \A i \in new : e[i] \in Associated /\ f[e[i]] = i
  BY <1>5
<1> HIDE DEF h
<1>7. \A i \in DOMAIN index : i \in Nat /\ i <= maxId
  <2>1. ASSUME NEW i \in DOMAIN index PROVE i \in Nat /\ i <= maxId
    <3>1. index[i] \in DOMAIN heap /\ heap[index[i]].id = i /\ i # 0 /\ i \in Nat
      BY DEF IInv, IndexOK
    <3> QED
      BY <3>1 DEF Indexed
  <2> QED
    BY <2>1
<1>8. ASSUME NEW n \in DOMAIN heap, heap[n].id # 0
      PROVE  /\ h[n].id <= top
             /\ h[n].id \in DOMAIN ix /\ ix[h[n].id] = n
  <2>1. h[n].id = heap[n].id
    BY <1>2, <1>4, <1>8
  <2>2. /\ heap[n].id <= maxId /\ heap[n].id \in DOMAIN index /\ index[heap[n].id] = n
        /\ heap[n].id \notin new
    BY <1>8 DEF Indexed
  <2>3. heap[n].id <= top
    BY <1>1, <1>7, <2>2
  <2> QED
    BY <1>5, <2>1, <2>2, <2>3
<1>9. ASSUME NEW n \in Associated, heap[n].id = 0
      PROVE  /\ h[n].id <= top
             /\ h[n].id \in DOMAIN ix /\ ix[h[n].id] = n
  <2>1. h[n].id = f[n] /\ f[n] \in Nat /\ maxId < f[n] /\ f[n] <= top
    BY <1>2, <1>9
  <2>2. f[n] \notin DOMAIN index
    BY <1>1, <1>7, <2>1
  <2>3. f[n] \in new
    BY <2>2
  <2>4. e[f[n]] \in Associated /\ f[e[f[n]]] = f[n] /\ e[f[n]] \in DOMAIN heap
    BY <1>3, <1>6, <2>3
  <2>5. heap[e[f[n]]].id = 0
    <3>1. SUFFICES ASSUME heap[e[f[n]]].id # 0 PROVE FALSE
      OBVIOUS
    <3>2. f[n] = heap[e[f[n]]].id
      BY <1>2, <2>4, <3>1
    <3>3. f[n] <= maxId
      BY <2>4, <3>1, <3>2 DEF Indexed
    <3> QED
      BY <1>1, <2>1, <3>3
  <2>6. e[f[n]] = n
    BY <1>2, <1>9, <2>4, <2>5
  <2>7. f[n] \in DOMAIN ix /\ ix[f[n]] = e[f[n]]
    BY <1>5, <2>3
  <2> QED
    BY <2>1, <2>6, <2>7
<1>10. \A n \in DOMAIN heap : heap[n].id # 0 \/ n \in Associated \/ h[n].id = 0
  BY <1>4
<1>11. Indexed(h, ix, top)
  BY <1>1, <1>8, <1>9, <1>10 DEF Indexed
<1> QED
  BY <1>11 DEF h

\* Every id that was given out and is not dead is found.
IdsInv == Indexed(heap, index, maxId)

LEMMA IdsInvInit == Init => IdsInv
BY DEF Init, IdsInv, Indexed

LEMMA EditIndexed ==
    ASSUME IInv, IdsInv, NEW a, Edit(a) PROVE IdsInv'
<1>1. CASE Executable(heap, a, FALSE)
  <2>1. Release(Executed(heap, a, FALSE), index) /\ maxId' = maxId
    BY <1>1 DEF Edit
  <2>2. Indexed(Executed(heap, a, FALSE), index, maxId)
    BY ExecutedIndexed DEF IInv, IdsInv
  <2> QED
    BY <2>1, <2>2, ReleaseIndexed DEF IdsInv
<1>2. CASE ~Executable(heap, a, FALSE)
  BY <1>2 DEF Edit, IdsInv, nodeVars
<1> QED
  BY <1>1, <1>2

LEMMA IdsInvStep ==
    ASSUME Plain, OwnIds, IInv, TreeInv, IdsInv, [Next]_vars PROVE IdsInv'
<1>1. ASSUME NEW n \in Nodes PROVE LoadRoot(n) => IdsInv'
  <2>1. SUFFICES ASSUME LoadRoot(n) PROVE IdsInv'
    OBVIOUS
  <2>2. DOMAIN heap' = DOMAIN heap /\ index' = index /\ maxId' = maxId
    BY <2>1 DEF LoadRoot
  <2>3. ASSUME NEW m \in DOMAIN heap PROVE heap'[m].id = heap[m].id
    <3>1. heap[m] \in NodeFields(m)
      BY DEF IInv, HeapOK
    <3>2. \/ heap'[m] = heap[m]
          \/ heap'[m] = [heap[m] EXCEPT !.managed = TRUE,
                                        !.state = IF m = n THEN "Created" ELSE @]
      BY <2>1 DEF LoadRoot
    <3> QED
      BY <3>1, <3>2 DEF NodeFields
  <2> QED
    BY <2>2, <2>3 DEF IdsInv, Indexed
<1>2. ~Destroy /\ \A n \in Nodes : ~Clone(n)
  BY DEF OwnIds, Destroy, Clone
<1>3. Reset => IdsInv'
  <2>1. SUFFICES ASSUME Reset PROVE IdsInv'
    OBVIOUS
  <2>2. DOMAIN heap' = {}
    BY <2>1, ResetEmpties DEF TreeInv
  <2> QED
    BY <2>2 DEF IdsInv, Indexed
<1>4. Commit => IdsInv'
  <2>1. SUFFICES ASSUME Commit PROVE IdsInv'
    OBVIOUS
  <2>2. PICK v, f, ix :
           /\ v \in Visits /\ f \in Numberings(v) /\ ix \in Indexings(v, f)
           /\ maxId' \in Nat /\ maxId <= maxId'
           /\ \A n \in Associated : f[n] <= maxId'
           /\ Release(Numbered(f), ix)
    BY <2>1, CommitChoice
  <2>3. Indexed(Numbered(f), ix, maxId')
    BY <2>2, NumberedIndexed DEF IdsInv
  <2> QED
    BY <2>2, <2>3, ReleaseIndexed DEF IdsInv
<1>5. ASSUME NEW n \in Nodes PROVE Create(n) => IdsInv'
  <2>1. SUFFICES ASSUME Create(n) PROVE IdsInv'
    OBVIOUS
  <2>2. /\ index' = index /\ maxId' = maxId
        /\ DOMAIN heap' = DOMAIN heap \cup {n} /\ n \notin DOMAIN heap
        /\ \A m \in DOMAIN heap : heap'[m] = heap[m]
        /\ heap'[n].id = 0
    BY <2>1 DEF Create
  <2> QED
    BY <2>2 DEF IdsInv, Indexed
<1>6. ASSUME NEW n \in Nodes PROVE Drop(n) => IdsInv'
  BY ReleaseIndexed DEF Drop, IdsInv
<1>7. ASSUME NEW n \in Nodes,
             \/ VectorInsert(n) \/ VectorRemove(n)
             \/ BytesInsert(n) \/ BytesRemove(n) \/ BytesReplace(n)
      PROVE  IdsInv'
  <2>1. PICK a : Edit(a)
    BY <1>7 DEF VectorInsert, VectorRemove, BytesInsert, BytesRemove, BytesReplace
  <2> QED
    BY <2>1, EditIndexed
<1>8. ASSUME NEW n \in Nodes \cup {Null}
      PROVE  ~VectorMove(n) /\ ~BytesReplaceBeyond(n) /\ ~SetRoot(n)
  BY DEF Plain, VectorMove, BytesReplaceBeyond, SetRoot
<1>9. ASSUME UNCHANGED <<heap, index, maxId>> PROVE IdsInv'
  BY <1>9 DEF IdsInv, Indexed
<1>10. ASSUME \/ BeginTransaction \/ CommitNothing \/ AbortTransaction
              \/ Undo \/ Redo \/ ExecuteOutOfRange \/ UNCHANGED vars
              \/ \E n \in Nodes : EditUnmanaged(n) \/ AskDangling(n) \/ AskDestroyed(n)
       PROVE  UNCHANGED <<heap, index, maxId>>
  BY <1>10 DEF BeginTransaction, CommitNothing, AbortTransaction, Undo, Redo,
               ExecuteOutOfRange, EditUnmanaged, AskDangling, AskDestroyed, vars, nodeVars
<1>11. ExecuteNext => IdsInv'
  <2>1. SUFFICES ASSUME ExecuteNext PROVE IdsInv'
    OBVIOUS
  <2>2. /\ Release(Executed(heap, Head(todo), mstate # "Redo"), index)
        /\ maxId' = maxId
    BY <2>1 DEF ExecuteNext
  <2>3. Indexed(Executed(heap, Head(todo), mstate # "Redo"), index, maxId)
    BY ExecutedIndexed DEF IInv, IdsInv
  <2> QED
    BY <2>2, <2>3, ReleaseIndexed DEF IdsInv
<1>12. NewDocument => IdsInv'
  BY <1>1, <1>2, <1>3 DEF NewDocument
<1>13. ClientStep => IdsInv'
  BY <1>2, <1>5, <1>6, <1>7, <1>8, <1>9, <1>10 DEF ClientStep
<1>14. LibraryStep => IdsInv'
  BY <1>9, <1>10, <1>11 DEF LibraryStep, ExecuteAction, AbortReturns, UndoReturns,
                            RedoReturns
<1> QED
  BY <1>4, <1>9, <1>10, <1>12, <1>13, <1>14 DEF Next

LEMMA IdsInvAlways == Plain /\ OwnIds => (Spec => []IdsInv)
<1> SUFFICES ASSUME Plain, OwnIds PROVE Spec => []IdsInv
  OBVIOUS
<1>1. IInv /\ TreeInv /\ IdsInv /\ [Next]_vars => IdsInv'
  BY IdsInvStep
<1>2. Spec => []TreeInv
  BY TreeInvAlways
<1> QED
  BY IdsInvInit, InvAlways, <1>1, <1>2, PTL DEF Spec

\* At rest the tree is the document of the current step.
LEMMA AtRest ==
    ASSUME NEW H, Before(H), mstate = "Idle"
    PROVE  /\ min + current \in DOMAIN H
           /\ H[min + current] = Doc(Contents(heap), root)
           /\ OnTree = DOMAIN H[min + current].items
           /\ OnTree \subseteq Known(heap, root)
<1> DEFINE c == min + current
           m == Contents(heap)
<1>1. PICK M : /\ Course(H, M, DOMAIN heap, FreeIn(heap), root, stack, min)
               /\ Way(M, m, DOMAIN heap, FreeIn(heap), c, mstate, txActions, todo)
  BY DEF Before, Core
<1>2. Control(root, stack, min, current, mstate, txActions, todo)
  BY DEF Before, Core
<1>3. todo = <<>>
  BY <1>2 DEF Control
<1>4. c \in min .. min + Len(stack)
  <2>1. Len(stack) \in Nat /\ min \in Nat /\ current \in Nat /\ current <= Len(stack)
    BY <1>2 DEF Control
  <2> QED
    BY <2>1
<1> HIDE DEF c, m
<1>5. m = M[c]
  BY <1>1, <1>3, RestWay
<1>6. c \in DOMAIN H /\ H[c] = Doc(m, root)
  BY <1>1, <1>4, <1>5 DEF Course
<1>7. DOMAIN H[c].items = Within(m, {root})
  BY <1>6, DocItems
<1>8. OnTree = Within(m, {root})
  BY ReachIsWithin DEF OnTree, m
<1>9. DOMAIN H[c].items \subseteq Known(heap, root)
  BY <1>6 DEF Before, Core, Associates
<1> QED
  BY <1>6, <1>7, <1>8, <1>9 DEF c, m

\* Every id that was given out is found until its node dies, and at rest every
\* node of the tree but the root has one: addId in commit and removeId in ~Node
\* stay in step through abort, undo, redo, truncation, trimming and reset, when
\* no node is cloned and the model is not destroyed.
THEOREM IndexAlwaysComplete == Plain /\ OwnIds => (Spec => []IndexComplete)
<1> SUFFICES ASSUME Plain, OwnIds PROVE Spec => []IndexComplete
  OBVIOUS
<1>1. TreeInv /\ IdsInv => IndexComplete
  <2> SUFFICES ASSUME TreeInv, IdsInv PROVE IndexComplete
    OBVIOUS
  <2>1. \A n \in DOMAIN heap :
           heap[n].id # 0 => heap[n].id \in DOMAIN index /\ index[heap[n].id] = n
    BY DEF IdsInv, Indexed
  <2>2. TreeIndexed
    <3>1. mstate = "Idle" => OnTree \subseteq Known(heap, root)
      BY AtRest DEF TreeInv
    <3> QED
      BY <2>1, <3>1 DEF TreeIndexed, Known
  <2> QED
    BY <2>1, <2>2 DEF IndexComplete
<1>2. Spec => []TreeInv
  BY TreeInvAlways
<1>3. Spec => []IdsInv
  BY IdsInvAlways
<1> QED
  BY <1>1, <1>2, <1>3, PTL

(***************************************************************************)
(* The marks: _state and _model of a node, by which isDetached() and       *)
(* isWritable() judge it.                                                  *)
(***************************************************************************)

RecordedIn(st, tx) ==
    Elements(tx) \cup UNION {Elements(st[k]) : k \in 1 .. Len(st)}

\* What the marks of h say of the nodes on no tree of it, where T has the tops of
\* the trees and R the recorded actions.  A child points to a parent; a node that
\* has its model is free no more, unless it is a top; actions are recorded of
\* nodes with a model; a node without its model owns only such nodes, none of
\* which was ever inserted by itself; and unless nodes are cloned, a free one owns
\* nothing.
Marks(h, T, R) ==
    /\ \A n \in DOMAIN h : h[n].state = "Active" => h[n].parent \in Nodes
    /\ \A n \in DOMAIN h : h[n].managed /\ h[n].state = "Created" => n \in T
    /\ \A a \in R : Refs(a) \subseteq DOMAIN h /\ h[a.parent].managed
    /\ \A p \in DOMAIN h : ~h[p].managed =>
          \A x \in Children(h, p) :
             ~h[x].managed /\ \A a \in R : x \notin QueryInserted(a)
    /\ "clone" \notin Calls =>
          \A n \in DOMAIN h \ T : h[n].state = "Created" => Children(h, n) = {}

LEMMA MarksFewer ==
    ASSUME NEW h, NEW T, NEW R, Marks(h, T, R), NEW T2, T \subseteq T2,
           NEW R2, R2 \subseteq R
    PROVE  Marks(h, T2, R2)
BY DEF Marks

\* What dies is marked no more.
LEMMA MarksShrink ==
    ASSUME NEW h, NEW T, NEW R, Marks(h, T, R), NEW A, A \subseteq DOMAIN h,
           \A a \in R : Refs(a) \subseteq A,
           \A p \in A : Children(h, p) \subseteq A,
           NEW g, g = [n \in A |-> h[n]]
    PROVE  Marks(g, T, R)
<1>1. DOMAIN g = A /\ \A n \in A : g[n] = h[n] /\ Children(g, n) = Children(h, n)
  BY DEF Children
<1>2. \A a \in R : a.parent \in A
  BY DEF Refs
<1> QED
  BY ONLY Marks(h, T, R), A \subseteq DOMAIN h, <1>1, <1>2,
          \A a \in R : Refs(a) \subseteq A, \A p \in A : Children(h, p) \subseteq A
     DEF Marks

LEMMA ReleaseMarks ==
    ASSUME NEW h, NEW ix, Release(h, ix), LinksOK(heap'), NEW T, NEW R, Marks(h, T, R),
           \A a \in R : Refs(a) \subseteq Owners'
    PROVE  Marks(heap', T, R)
<1> DEFINE A == Reach(h, Owners')
<1>1. heap' = [n \in A |-> h[n]]
  BY DEF Release
<1>2. A \subseteq DOMAIN h /\ Owners' \cap DOMAIN h \subseteq A
  BY ReachFacts
<1> HIDE DEF A
<1>3. \A a \in R : Refs(a) \subseteq A
  BY <1>2 DEF Marks
<1>4. \A p \in A : Children(h, p) \subseteq A
  <2>1. \A p \in A : Children(heap', p) = Children(h, p)
    BY <1>1 DEF Children
  <2> QED
    BY <1>1, <2>1 DEF LinksOK
<1> QED
  BY <1>1, <1>2, <1>3, <1>4, MarksShrink

\* addChild and removeChild change the marks of the children of nodes that have
\* their model.
LEMMA ExecutedMarks ==
    ASSUME NEW h, HeapOK(h), NEW a, a.parent \in DOMAIN h, h[a.parent].managed,
           NEW undo
    PROVE  LET g == Executed(h, a, undo)
           IN  /\ DOMAIN g = DOMAIN h
               /\ \A n \in DOMAIN h :
                     /\ g[n].managed = h[n].managed
                     /\ n # a.parent => Children(g, n) = Children(h, n)
                     /\ g[n].state = "Active" =>
                           \/ g[n].parent = a.parent
                           \/ g[n].parent = h[n].parent /\ h[n].state = "Active"
                     /\ g[n].state = "Created" => h[n].state = "Created"
<1> DEFINE g == Executed(h, a, undo)
<1>1. DOMAIN g = DOMAIN h
  BY DEF Executed
<1>2. ASSUME NEW n \in DOMAIN h
      PROVE  /\ g[n].managed = h[n].managed
             /\ n # a.parent => g[n].items = h[n].items
             /\ g[n].state = "Active" =>
                   \/ g[n].parent = a.parent
                   \/ g[n].parent = h[n].parent /\ h[n].state = "Active"
             /\ g[n].state = "Created" => h[n].state = "Created"
  <2>1. h[n] \in NodeFields(n)
    BY DEF HeapOK
  <2> HIDE DEF g
  <2>2. CASE g[n] = Removed(h[n], h[a.parent].managed)
    BY <2>1, <2>2 DEF Removed, NodeFields, NodeState
  <2>3. CASE g[n] = Added(h[n], a.parent)
    <3>1. g[n].managed = h[n].managed /\ g[n].items = h[n].items
      BY <2>1, <2>3 DEF Added, NodeFields
    <3>2. g[n].state = "Active"
      BY <2>1, <2>3 DEF Added, NodeFields
    <3>3. g[n].parent = a.parent
      BY <2>1, <2>3 DEF Added, NodeFields
    <3> QED
      BY <3>1, <3>2, <3>3
  <2>4. CASE /\ n = a.parent
             /\ g[n] = [h[n] EXCEPT !.items = NewItems(h[a.parent].items, a, undo)]
    BY <2>1, <2>4 DEF NodeFields
  <2>5. CASE g[n] = h[n]
    BY <2>5
  <2> QED
    BY <2>2, <2>3, <2>4, <2>5 DEF Executed, g
<1>3. \A n \in DOMAIN h : n # a.parent => Children(g, n) = Children(h, n)
  BY <1>2 DEF Children
<1> QED
  BY <1>1, <1>2, <1>3

LEMMA MarksExecuted ==
    ASSUME NEW h, HeapOK(h), LinksOK(h), NEW T, NEW R, Marks(h, T, R),
           NEW a \in R, NEW undo
    PROVE  Marks(Executed(h, a, undo), T, R)
<1> DEFINE g == Executed(h, a, undo)
<1>1. a.parent \in DOMAIN h /\ h[a.parent].managed /\ a.parent \in Nodes
  BY DEF Marks, Refs, HeapOK
<1>2. /\ DOMAIN g = DOMAIN h
      /\ \A n \in DOMAIN h :
            /\ g[n].managed = h[n].managed
            /\ n # a.parent => Children(g, n) = Children(h, n)
            /\ g[n].state = "Active" =>
                  \/ g[n].parent = a.parent
                  \/ g[n].parent = h[n].parent /\ h[n].state = "Active"
            /\ g[n].state = "Created" => h[n].state = "Created"
  BY <1>1, ExecutedMarks
<1> HIDE DEF g
<1>3. \A n \in DOMAIN g : g[n].state = "Active" => g[n].parent \in Nodes
  BY <1>1, <1>2 DEF Marks
<1>4. \A n \in DOMAIN g : g[n].managed /\ g[n].state = "Created" => n \in T
  BY <1>2 DEF Marks
<1>5. \A b \in R : Refs(b) \subseteq DOMAIN g /\ g[b.parent].managed
  BY <1>2 DEF Marks, Refs
<1>6. ASSUME NEW p \in DOMAIN g, ~g[p].managed, NEW x \in Children(g, p)
      PROVE  ~g[x].managed /\ \A b \in R : x \notin QueryInserted(b)
  <2>1. p \in DOMAIN h /\ ~h[p].managed /\ x \in Children(h, p)
    BY <1>1, <1>2, <1>6
  <2>2. ~h[x].managed /\ \A b \in R : x \notin QueryInserted(b)
    BY <2>1 DEF Marks
  <2> QED
    BY <1>2, <2>1, <2>2 DEF LinksOK
<1>7. ASSUME "clone" \notin Calls, NEW n \in DOMAIN g \ T, g[n].state = "Created"
      PROVE  Children(g, n) = {}
  BY <1>1, <1>2, <1>7 DEF Marks
<1> QED
  BY <1>3, <1>4, <1>5, <1>6, <1>7 DEF Marks, g

(***************************************************************************)
(* One step per action, again.                                             *)
(***************************************************************************)
Tops == IF mstate = "Destroyed" THEN Nodes ELSE {root}
Rec == RecordedIn(stack, txActions)

MarksInv ==
    /\ Marks(heap, Tops, Rec)
    /\ mstate = "Destroyed" => "destroy" \in Calls

LEMMA RecordedFacts ==
    ASSUME NEW a, NEW st, NEW tx
    PROVE  Recorded(a, st, tx) <=> a \in RecordedIn(st, tx)
BY DEF Recorded, RecordedIn

\* What is recorded is owned.
LEMMA RecOwned == \A a \in Rec : Refs(a) \subseteq Owners
<1>1. ASSUME NEW a \in Elements(txActions) PROVE Refs(a) \subseteq Owners
  BY DEF Owners, HeldByActions
<1>2. ASSUME NEW k \in 1 .. Len(stack), NEW a \in Elements(stack[k])
      PROVE  Refs(a) \subseteq Owners
  <2>1. stack[k] \in Elements(stack)
    BY DEF Elements
  <2> QED
    BY <2>1 DEF Owners, HeldByActions
<1> QED
  BY <1>1, <1>2 DEF Rec, RecordedIn

\* A step that ends with Release, and with no more tops and no other actions than
\* are spoken of.
LEMMA EndMarks ==
    ASSUME NEW H, After(H), NEW h, NEW ix, Release(h, ix),
           NEW T, NEW R, Marks(h, T, R), T \subseteq Tops', Rec' \subseteq R,
           mstate' = "Destroyed" => "destroy" \in Calls
    PROVE  MarksInv'
<1>1. Marks(h, Tops', Rec')
  BY MarksFewer
<1>2. \A a \in Rec' : Refs(a) \subseteq Owners'
  <2>1. (\A a \in Rec : Refs(a) \subseteq Owners)'
    BY RecOwned, PTL
  <2> QED
    BY <2>1
<1>3. LinksOK(heap')
  BY DEF After, Core
<1>4. Marks(heap', Tops', Rec')
  BY <1>1, <1>2, <1>3, ReleaseMarks
<1> QED
  BY <1>4 DEF MarksInv

LEMMA QuietMarks ==
    ASSUME MarksInv, UNCHANGED <<heap, root, stack, txActions>>,
           mstate' = "Destroyed" <=> mstate = "Destroyed"
    PROVE  MarksInv'
BY DEF MarksInv, Tops, Rec

LEMMA CreateMarks ==
    ASSUME Plain, NEW H, Before(H), MarksInv, NEW n \in Nodes, Create(n)
    PROVE  MarksInv'
<1>1. PICK p \in Uninit :
         heap' = [m \in DOMAIN heap \cup {n} |->
                     IF m \in DOMAIN heap THEN heap[m]
                     ELSE [items |-> <<>>, parent |-> p, state |-> "Created",
                           managed |-> FALSE, id |-> 0]]
  BY DEF Create
<1>2. /\ n \notin DOMAIN heap
      /\ Tops' = Tops /\ Rec' = Rec /\ mstate' = mstate
  BY DEF Create, engineVars, Tops, Rec
<1>3. /\ DOMAIN heap' = DOMAIN heap \cup {n}
      /\ \A m \in DOMAIN heap : heap'[m] = heap[m]
      /\ heap'[n].items = <<>> /\ heap'[n].state = "Created" /\ ~heap'[n].managed
  BY <1>1, <1>2
<1>4. DOMAIN heap'[n].items = {}
  <2>1. DOMAIN <<>> = {}
    OBVIOUS
  <2> QED
    BY <1>3, <2>1
<1>5. /\ \A m \in DOMAIN heap : Children(heap', m) = Children(heap, m)
      /\ Children(heap', n) = {}
  BY <1>3, <1>4 DEF Children, Elements
<1>6. \A p1 \in DOMAIN heap : Children(heap, p1) \subseteq DOMAIN heap
  BY DEF Before, Core, LinksOK
<1>7. Marks(heap, Tops, Rec)
  BY DEF MarksInv
<1>8. \A a \in Rec : a.parent \in DOMAIN heap
  BY <1>7 DEF Marks, Refs
<1>9. Marks(heap', Tops, Rec)
  BY ONLY <1>3, <1>5, <1>6, <1>7, <1>8 DEF Marks
<1> QED
  BY <1>2, <1>9 DEF MarksInv

LEMMA DropMarks ==
    ASSUME NEW H, After(H), MarksInv, NEW n \in Nodes, Drop(n) PROVE MarksInv'
<1>1. Release(heap, index) /\ Tops' = Tops /\ Rec' = Rec /\ mstate' = mstate
  BY DEF Drop, engineVars, Tops, Rec
<1> QED
  BY <1>1, EndMarks DEF MarksInv

\* The first root is the only node with a model.
LEMMA LoadRootMarks ==
    ASSUME NEW H, Before(H), MarksInv, NEW n \in Nodes, LoadRoot(n) PROVE MarksInv'
<1>1. /\ mstate = "Idle" /\ root = Null /\ stack = <<>> /\ n \in held
      /\ root' = n /\ mstate' = mstate /\ stack' = stack /\ txActions' = txActions
      /\ heap' = [x \in DOMAIN heap |->
                    IF x \notin Reach(heap, {n}) THEN heap[x]
                    ELSE [heap[x] EXCEPT !.managed = TRUE,
                                         !.state = IF x = n THEN "Created" ELSE @]]
  BY DEF LoadRoot, engineVars
<1>2. /\ HeapOK(heap) /\ txActions = <<>>
      /\ \A x \in DOMAIN heap : heap[x].state = "Created" /\ Children(heap, x) = {}
  BY <1>1 DEF Before, Core, Control, Fresh
<1>3. Reach(heap, {n}) \subseteq {n}
  <2>1. ClosedIn(Contents(heap), {n})
    BY <1>2, ContentsFacts DEF ClosedIn
  <2> QED
    BY <2>1, ReachFacts
<1>4. \A x \in DOMAIN heap : ~heap[x].managed
  <2>1. Null \notin DOMAIN heap
    BY <1>2, NodeTreeAssumption DEF HeapOK
  <2> QED
    BY <1>1, <1>2, <2>1 DEF MarksInv, Marks, Tops
<1>5. Rec' = {} /\ Tops' = {n}
  <2>1. Elements(<<>>) = {} /\ 1 .. Len(<<>>) = {}
    BY DEF Elements
  <2> QED
    BY <1>1, <1>2, <2>1 DEF Rec, RecordedIn, Tops
<1>6. /\ DOMAIN heap' = DOMAIN heap
      /\ \A x \in DOMAIN heap : heap'[x].state = "Created" /\ heap'[x].items = heap[x].items
      /\ \A x \in DOMAIN heap \ {n} : heap'[x] = heap[x]
  <2>1. \A x \in DOMAIN heap \ {n} : heap'[x] = heap[x]
    BY <1>1, <1>3
  <2>2. ASSUME n \in DOMAIN heap
        PROVE  heap'[n].state = "Created" /\ heap'[n].items = heap[n].items
    <3>1. heap[n] \in NodeFields(n) /\ heap[n].state = "Created"
      BY <1>2, <2>2 DEF HeapOK
    <3>2. \/ heap'[n] = heap[n]
          \/ heap'[n] = [heap[n] EXCEPT !.managed = TRUE, !.state = "Created"]
      BY <1>1, <2>2
    <3> QED
      BY <3>1, <3>2 DEF NodeFields
  <2> QED
    BY <1>1, <1>2, <2>1, <2>2
<1>7. \A x \in DOMAIN heap : Children(heap', x) = {}
  BY <1>2, <1>6 DEF Children
<1>8. Marks(heap', {n}, {})
  BY <1>4, <1>6, <1>7 DEF Marks
<1> QED
  BY <1>1, <1>5, <1>8 DEF MarksInv

\* A transaction records actions of nodes with a model, and what they insert was
\* free before.
LEMMA MarksRecorded ==
    ASSUME NEW h, LinksOK(h), NEW T, NEW R, Marks(h, T, R), NEW a,
           Refs(a) \subseteq DOMAIN h, h[a.parent].managed,
           QueryInserted(a) \subseteq FreeIn(h)
    PROVE  Marks(h, T, R \cup {a})
<1>1. \A p \in DOMAIN h : \A x \in Children(h, p) : x \notin QueryInserted(a)
  BY DEF LinksOK, FreeIn
<1> QED
  BY <1>1 DEF Marks

LEMMA EditMarks ==
    ASSUME NEW H, Before(H), After(H), MarksInv, NEW a, a.parent \in Editable, Edit(a),
           Refs(a) \subseteq DOMAIN heap, QueryInserted(a) \subseteq FreeIn(heap)
    PROVE  MarksInv'
<1>1. CASE Executable(heap, a, FALSE)
  <2>1. /\ txActions' = Append(txActions, a)
        /\ UNCHANGED <<mstate, root, stack>>
        /\ Release(Executed(heap, a, FALSE), index)
    BY <1>1 DEF Edit, engineVars
  <2>2. /\ HeapOK(heap) /\ LinksOK(heap) /\ txActions \in Seq(Action)
        /\ Marks(heap, Tops, Rec) /\ heap[a.parent].managed
    BY DEF Before, Core, Control, MarksInv, Editable
  <2>3. Marks(heap, Tops, Rec \cup {a})
    BY <2>2, MarksRecorded
  <2>4. Marks(Executed(heap, a, FALSE), Tops, Rec \cup {a})
    BY <2>2, <2>3, MarksExecuted
  <2>5. Rec' \subseteq Rec \cup {a} /\ Tops' = Tops
    <3>1. Elements(txActions') \subseteq Elements(txActions) \cup {a}
      BY <2>1, <2>2, AppendProperties DEF Elements
    <3> QED
      BY <2>1, <3>1 DEF Rec, RecordedIn, Tops
  <2> QED
    BY <2>1, <2>4, <2>5, EndMarks DEF MarksInv
<1>2. CASE ~Executable(heap, a, FALSE)
  BY <1>2, QuietMarks DEF Edit, nodeVars, engineVars
<1> QED
  BY <1>1, <1>2

LEMMA ExecuteNextMarks ==
    ASSUME NEW H, Before(H), After(H), MarksInv, ExecuteNext, todo # <<>>,
           Rec' \subseteq Rec, mstate' = "Destroyed" <=> mstate = "Destroyed"
    PROVE  MarksInv'
<1> DEFINE a == Head(todo)
           g == Executed(heap, a, mstate # "Redo")
<1>1. /\ HeapOK(heap) /\ LinksOK(heap)
      /\ Control(root, stack, min, current, mstate, txActions, todo)
  BY DEF Before, Core
<1>2. Release(g, index) /\ root' = root
  BY DEF ExecuteNext
<1>3. a \in Rec
  <2>1. todo \in Seq(Action) /\ Len(todo) \in Nat /\ a = todo[1] /\ 1 \in 1 .. Len(todo)
    BY <1>1 DEF Control
  <2>2. Recorded(todo[1], stack, txActions)
    BY <1>1, <2>1 DEF Control
  <2> QED
    BY <2>1, <2>2, RecordedFacts DEF Rec
<1>4. Marks(g, Tops, Rec)
  BY <1>1, <1>3, MarksExecuted DEF MarksInv
<1>5. Tops' = Tops
  BY <1>2 DEF Tops
<1> HIDE DEF g
<1> QED
  BY <1>2, <1>4, <1>5, EndMarks DEF MarksInv

LEMMA LibraryMarks ==
    ASSUME IInv, NEW H, Before(H), MarksInv, LibraryStep PROVE MarksInv'
<1>1. After(H) /\ ~ExecuteOutOfRange
  BY LibraryCore
<1>2. Elements(<<>>) = {}
  BY DEF Elements
<1>3. Control(root, stack, min, current, mstate, txActions, todo)
  BY DEF Before, Core
<1>4. CASE ExecuteAction
  <2>1. ExecuteNext /\ todo # <<>> /\ mstate' = mstate /\ Rec' = Rec
    BY <1>4 DEF ExecuteAction, engineVars, Rec
  <2> QED
    BY <1>1, <2>1, ExecuteNextMarks
<1>5. CASE AbortReturns
  <2>1. ExecuteNext /\ todo # <<>> /\ mstate' = "Idle" /\ mstate # "Destroyed"
    BY <1>5 DEF AbortReturns
  <2>2. Rec' \subseteq Rec
    BY <1>2, <1>5 DEF AbortReturns, engineVars, Rec, RecordedIn
  <2> QED
    BY <1>1, <2>1, <2>2, ExecuteNextMarks
<1>6. CASE UndoReturns
  <2>1. ExecuteNext /\ todo # <<>> /\ mstate' = "Idle" /\ mstate # "Destroyed" /\ Rec' = Rec
    BY <1>6 DEF UndoReturns, Engine!StepBack, Rec
  <2> QED
    BY <1>1, <2>1, ExecuteNextMarks
<1>7. CASE RedoReturns
  <2>1. ExecuteNext /\ todo # <<>> /\ mstate' = "Idle" /\ mstate # "Destroyed" /\ Rec' = Rec
    BY <1>7 DEF RedoReturns, Engine!StepForward, Rec
  <2> QED
    BY <1>1, <2>1, ExecuteNextMarks
<1> QED
  BY <1>1, <1>4, <1>5, <1>6, <1>7 DEF LibraryStep

LEMMA DestroyMarks ==
    ASSUME NEW H, Before(H), MarksInv, Destroy PROVE MarksInv'
<1> DEFINE left == Reach(heap, held)
<1>1. /\ mstate' = "Destroyed" /\ txActions' = <<>> /\ stack' = <<>>
      /\ heap' = [n \in left |-> heap[n]] /\ "destroy" \in Calls /\ mstate # "Destroyed"
  BY DEF Destroy, Engine!ResetWindow
<1>2. Rec' = {} /\ Tops' = Nodes
  <2>1. Elements(<<>>) = {} /\ 1 .. Len(<<>>) = {}
    BY DEF Elements
  <2> QED
    BY <1>1, <2>1 DEF Rec, RecordedIn, Tops
<1>3. HeapOK(heap) /\ LinksOK(heap) /\ (root # Null => root \in FreeIn(heap))
  BY DEF Before, Core
<1>4. Marks(heap, Nodes, {})
  <2>1. DOMAIN heap \subseteq Nodes /\ Null \notin Nodes
    BY <1>3, NodeTreeAssumption DEF HeapOK
  <2>2. Marks(heap, {root}, Rec)
    BY <1>1 DEF MarksInv, Tops
  <2> QED
    BY <2>1, <2>2 DEF Marks
<1>5. left \subseteq DOMAIN heap /\ \A p \in left : Children(heap, p) \subseteq left
  <2>1. left \subseteq DOMAIN heap /\ ClosedIn(Contents(heap), left)
    BY ReachFacts
  <2> QED
    BY <1>3, <2>1, ContentsFacts DEF ClosedIn, LinksOK
<1> HIDE DEF left
<1>6. Marks(heap', Nodes, {})
  BY <1>1, <1>4, <1>5, MarksShrink
<1> QED
  BY <1>1, <1>2, <1>6 DEF MarksInv

LEMMA ResetMarks ==
    ASSUME Plain, NEW H, Before(H), MarksInv, Reset PROVE MarksInv'
<1>1. stack' = <<>> /\ mstate' = mstate /\ txActions' = txActions /\ mstate = "Idle"
  BY DEF Reset, Engine!ResetWindow
<1>2. txActions = <<>> /\ DOMAIN heap' = {}
  BY ResetEmpties
<1>3. Rec' = {}
  <2>1. Elements(<<>>) = {} /\ 1 .. Len(<<>>) = {}
    BY DEF Elements
  <2> QED
    BY <1>1, <1>2, <2>1 DEF Rec, RecordedIn
<1> QED
  BY <1>1, <1>2, <1>3 DEF MarksInv, Marks

\* A client inserts nodes that it holds and that are free, and removes children.
LEMMA EditsMarks ==
    ASSUME IInv, NEW H, Before(H), After(H), MarksInv, NEW p \in Nodes,
           \/ VectorInsert(p) \/ VectorRemove(p)
           \/ BytesInsert(p) \/ BytesRemove(p) \/ BytesReplace(p)
    PROVE  MarksInv'
<1>1. DOMAIN heap \subseteq Nodes /\ LinksOK(heap) /\ held \subseteq DOMAIN heap
  BY DEF Before, Core, HeapOK, IInv
<1>2. CASE VectorInsert(p)
  <2>1. p \in VectorNodes \cap Editable
    BY <1>2 DEF VectorInsert
  <2> DEFINE free == {n \in held \ {root} :
                         heap[n].state = "Created" /\ p \notin Reach(heap, {n})}
  <2>2. PICK nodes \in Runs(free), i \in 0 .. MaxItems :
           Edit([type |-> "VectorInsert", parent |-> p, index |-> i, items |-> nodes])
    BY <1>2 DEF VectorInsert
  <2> DEFINE a == [type |-> "VectorInsert", parent |-> p, index |-> i, items |-> nodes]
  <2>3. Elements(nodes) \subseteq FreeIn(heap)
    <3>1. nodes \in Seq(free)
      <4> HIDE DEF free
      <4> QED
        BY RunsType
    <3>2. free \subseteq FreeIn(heap)
      BY <1>1 DEF FreeIn
    <3> HIDE DEF free
    <3> QED
      BY <3>1, <3>2 DEF Elements
  <2>4. p \in DOMAIN heap
    BY <2>1, EditableFacts
  <2>5. Refs(a) \subseteq DOMAIN heap /\ QueryInserted(a) \subseteq FreeIn(heap)
    BY <2>3, <2>4 DEF Refs, QueryInserted, FreeIn
  <2>6. Edit(a) /\ a.parent \in Editable
    BY <2>1, <2>2
  <2> HIDE DEF a
  <2> QED
    BY <2>5, <2>6, EditMarks
<1>3. CASE VectorRemove(p)
  <2>1. p \in VectorNodes \cap Editable
    BY <1>3 DEF VectorRemove
  <2>2. PICK i \in 0 .. MaxItems, count \in 0 .. MaxItems :
           /\ ValidRemove(i, count, Len(heap[p].items))
           /\ Edit([type |-> "VectorRemove", parent |-> p, index |-> i,
                    items |-> Slice(heap[p].items, i, count)])
    BY <1>3 DEF VectorRemove
  <2> DEFINE s == Slice(heap[p].items, i, count)
             a == [type |-> "VectorRemove", parent |-> p, index |-> i, items |-> s]
  <2>3. p \in DOMAIN heap /\ heap[p].items \in Seq(Nodes)
    BY <2>1, EditableFacts
  <2>4. Elements(s) \subseteq Children(heap, p)
    <3>1. i + count <= Len(heap[p].items) /\ i \in Nat /\ count \in Nat
      BY <2>2, <2>3, DocumentAssumption DEF ValidRemove
    <3>2. Elements(s) \subseteq Elements(heap[p].items)
      BY <2>3, <3>1, SplitFacts
    <3> QED
      BY <2>1, <3>2 DEF Children
  <2>5. Refs(a) \subseteq DOMAIN heap /\ QueryInserted(a) \subseteq FreeIn(heap)
    BY <1>1, <2>3, <2>4 DEF Refs, QueryInserted, LinksOK
  <2>6. Edit(a) /\ a.parent \in Editable
    BY <2>1, <2>2
  <2> HIDE DEF a
  <2> QED
    BY <2>5, <2>6, EditMarks
<1>4. CASE BytesInsert(p) \/ BytesRemove(p) \/ BytesReplace(p)
  <2>1. p \in Editable
    BY <1>4 DEF BytesInsert, BytesRemove, BytesReplace
  <2>2. PICK a : /\ a.type \in {"BytesInsert", "BytesRemove", "BytesReplace"}
                 /\ a.parent = p /\ p \in Editable
                 /\ Edit(a)
    <3>1. CASE BytesInsert(p)
      <4>1. PICK i \in 0 .. MaxItems, bytes \in Runs(Bytes) :
               Edit([type |-> "BytesInsert", parent |-> p, index |-> i, items |-> bytes])
        BY <3>1 DEF BytesInsert
      <4> DEFINE b == [type |-> "BytesInsert", parent |-> p, index |-> i, items |-> bytes]
      <4>2. b.type = "BytesInsert" /\ b.parent = p /\ Edit(b)
        BY <4>1
      <4> HIDE DEF b
      <4> QED
        BY <2>1, <4>2
    <3>2. CASE BytesRemove(p)
      <4>1. PICK i, size \in 0 .. MaxItems :
               Edit([type |-> "BytesRemove", parent |-> p, index |-> i,
                     items |-> Slice(heap[p].items, i, size)])
        BY <3>2 DEF BytesRemove
      <4> DEFINE b == [type |-> "BytesRemove", parent |-> p, index |-> i,
                       items |-> Slice(heap[p].items, i, size)]
      <4>2. b.type = "BytesRemove" /\ b.parent = p /\ Edit(b)
        BY <4>1
      <4> HIDE DEF b
      <4> QED
        BY <2>1, <4>2
    <3>3. CASE BytesReplace(p)
      <4>1. PICK i \in 0 .. MaxItems, bytes \in Runs(Bytes) :
               Edit([type |-> "BytesReplace", parent |-> p, index |-> i, items |-> bytes,
                     old |-> Slice(heap[p].items, i, Len(bytes))])
        BY <3>3 DEF BytesReplace
      <4> DEFINE b == [type |-> "BytesReplace", parent |-> p, index |-> i, items |-> bytes,
                       old |-> Slice(heap[p].items, i, Len(bytes))]
      <4>2. b.type = "BytesReplace" /\ b.parent = p /\ Edit(b)
        BY <4>1
      <4> HIDE DEF b
      <4> QED
        BY <2>1, <4>2
    <3> QED
      BY <1>4, <3>1, <3>2, <3>3
  <2>3. Refs(a) \subseteq DOMAIN heap /\ QueryInserted(a) \subseteq FreeIn(heap)
    BY <2>2, EditableFacts DEF Refs, QueryInserted
  <2> QED
    BY <2>2, <2>3, EditMarks
<1> QED
  BY <1>2, <1>3, <1>4

\* What an action inserts is free no more, nor is it when it was inserted on a path.
LEMMA MoveInserted ==
    ASSUME NEW D, NEW F, NEW m, NEW a, NEW t, NEW undo \in BOOLEAN,
           Move(m, a, t, undo, D, F), ~undo
    PROVE  QueryInserted(a) \subseteq D \ F
<1>1. CASE a.type = "VectorInsert"
  <2>1. a \in Action /\ a.type # "VectorMove" /\ a.parent \in D /\ ContentOK(t, D, F)
    BY MoveItems
  <2>2. a.parent \in VectorNodes
    BY <1>1, <2>1, ActionFacts
  <2>3. ~Erases(a, undo)
    BY <1>1, ErasesFacts
  <2>4. Kids(t, a.parent) = Kids(m, a.parent) \cup Elements(a.items)
    BY <2>2, <2>3, MoveKids
  <2>5. Kids(t, a.parent) \subseteq D \ F
    BY <2>1 DEF ContentOK
  <2> QED
    BY <1>1, <2>4, <2>5 DEF QueryInserted
<1>2. CASE a.type # "VectorInsert"
  BY <1>2 DEF QueryInserted
<1> QED
  BY <1>1, <1>2

LEMMA LeadsInserted ==
    ASSUME NEW q \in Seq(Action), NEW s, NEW t, NEW undo \in BOOLEAN, ~undo,
           NEW D, NEW F, Leads(s, q, t, undo, D, F), NEW a \in Elements(q)
    PROVE  QueryInserted(a) \subseteq D \ F
<1>1. PICK w : \A i \in 1 .. Len(q) : Move(w[i - 1], q[i], w[i], undo, D, F)
  BY DEF Leads
<1>2. PICK i \in 1 .. Len(q) : a = q[i]
  BY DEF Elements
<1>3. Move(w[i - 1], a, w[i], undo, D, F)
  BY <1>1, <1>2
<1> QED
  BY <1>3, MoveInserted

\* commit gives a model to what was inserted, with all that it owns: nothing that
\* is free, and no child of another node without a model.
LEMMA CommitMarks ==
    ASSUME IInv, NEW H, Before(H), NEW H2, After(H2), MarksInv, Commit
    PROVE  MarksInv'
<1> DEFINE D == DOMAIN heap
           F == FreeIn(heap)
           m == Contents(heap)
           from == UNION {QueryInserted(a) : a \in Elements(txActions)}
<1>1. PICK v, f, ix : f \in Numberings(v) /\ Release(Numbered(f), ix)
  BY CommitChoice
<1>3. /\ mstate = "Transaction" /\ mstate' = "Idle" /\ todo = <<>> /\ root' = root
      /\ txActions' = <<>> /\ Engine!CommitWindow(txActions)
  BY DEF Commit, Ready
<1>4. /\ HeapOK(heap) /\ LinksOK(heap) /\ txActions \in Seq(Action)
      /\ \E s : Leads(s, txActions, m, FALSE, D, F)
      /\ ContentOK(m, D, F)
  <2>1. PICK M : Way(M, m, D, F, min + current, mstate, txActions, todo)
    BY DEF Before, Core
  <2> QED
    BY <1>3, <2>1 DEF Before, Core, Control, Way
<1>5. from \subseteq D \ F
  <2>1. PICK s : Leads(s, txActions, m, FALSE, D, F)
    BY <1>4
  <2> HIDE DEF m, D, F
  <2>2. \A a \in Elements(txActions) : QueryInserted(a) \subseteq D \ F
    BY <1>4, <2>1, LeadsInserted
  <2> QED
    BY <2>2
<1>6. DOMAIN m = D /\ \A p \in D : Kids(m, p) = Children(heap, p)
  BY ContentsFacts
<1>7. Associated = Reach(heap, from) /\ Associated \subseteq D
  BY ReachFacts DEF Associated
<1>8. ClosedIn(m, Associated) /\ from \subseteq Associated
  BY <1>5, <1>7, ReachFacts
<1> HIDE DEF from, m, D, F
<1>9. Associated \cap F = {}
  <2>1. ClosedIn(m, Associated \ F)
    BY <1>4, <1>6, <1>8 DEF ClosedIn, ContentOK
  <2>2. Associated \subseteq Associated \ F
    BY <1>5, <1>7, <1>8, <2>1, ReachFacts DEF m, D
  <2> QED
    BY <2>2
<1>10. ASSUME NEW p \in D \ Associated, NEW x \in Kids(m, p), x \in Associated
       PROVE  x \in from
  <2>1. SUFFICES ASSUME x \notin from PROVE FALSE
    OBVIOUS
  <2>2. ClosedIn(m, Associated \ {x})
    <3>1. \A q \in D : x \in Kids(m, q) => q = p
      BY <1>4, <1>10, OneParent
    <3> QED
      BY <1>6, <1>8, <1>10, <3>1 DEF ClosedIn
  <2>3. Associated \subseteq Associated \ {x}
    BY <1>5, <1>7, <1>8, <2>1, <2>2, ReachFacts DEF m, D
  <2> QED
    BY <1>10, <2>3
<1> DEFINE g == Numbered(f)
<1>11. /\ DOMAIN g = D
       /\ \A n \in D : /\ Children(g, n) = Children(heap, n)
                        /\ g[n].parent = heap[n].parent /\ g[n].state = heap[n].state
       /\ \A n \in D : g[n].managed => heap[n].managed \/ n \in Associated
       /\ \A n \in D : heap[n].managed \/ n \in Associated => g[n].managed
  <2>1. /\ DOMAIN g = D
        /\ \A n \in D : /\ g[n].items = heap[n].items
                         /\ g[n].parent = heap[n].parent /\ g[n].state = heap[n].state
    BY <1>1, NumberedKeeps DEF D
  <2>2. ASSUME NEW n \in D PROVE g[n].managed <=> heap[n].managed \/ n \in Associated
    <3>1. heap[n] \in NodeFields(n)
      BY <1>4 DEF HeapOK, D
    <3>2. CASE n \in Associated
      <4>1. g[n] = [heap[n] EXCEPT !.managed = TRUE, !.id = f[n]]
        BY <3>2 DEF Numbered, D
      <4> QED
        BY <3>1, <3>2, <4>1 DEF NodeFields
    <3>3. CASE n \notin Associated
      BY <3>3 DEF Numbered, D
    <3> QED
      BY <3>2, <3>3
  <2>3. \A n \in D : Children(g, n) = Children(heap, n)
    BY <2>1 DEF Children
  <2> QED
    BY <2>1, <2>2, <2>3
<1> HIDE DEF g
<1>12. Marks(g, Tops, Rec)
  <2>1. Marks(heap, Tops, Rec)
    BY DEF MarksInv
  <2>2. \A n \in DOMAIN g : g[n].state = "Active" => g[n].parent \in Nodes
    BY <1>11, <2>1 DEF Marks, D
  <2>3. \A n \in DOMAIN g : g[n].managed /\ g[n].state = "Created" => n \in Tops
    BY <1>9, <1>11, <2>1 DEF Marks, D, F, FreeIn
  <2>4. \A a \in Rec : Refs(a) \subseteq DOMAIN g /\ g[a.parent].managed
    BY <1>11, <2>1 DEF Marks, D, Refs
  <2>5. ASSUME NEW p \in DOMAIN g, ~g[p].managed, NEW x \in Children(g, p)
        PROVE  ~g[x].managed /\ \A a \in Rec : x \notin QueryInserted(a)
    <3>1. p \in D /\ ~heap[p].managed /\ p \notin Associated /\ x \in Children(heap, p)
      BY <1>11, <2>5
    <3>2. ~heap[x].managed /\ \A a \in Rec : x \notin QueryInserted(a)
      BY <2>1, <3>1 DEF Marks, D
    <3>3. x \in D
      BY <1>4, <3>1 DEF LinksOK, D
    <3>4. x \notin from
      BY <3>2 DEF from, Rec, RecordedIn
    <3>5. x \notin Associated
      BY <1>6, <1>10, <3>1, <3>4
    <3> QED
      BY <1>11, <3>2, <3>3, <3>5
  <2>6. ASSUME "clone" \notin Calls, NEW n \in DOMAIN g \ Tops, g[n].state = "Created"
        PROVE  Children(g, n) = {}
    BY <1>11, <2>1, <2>6 DEF Marks, D
  <2> QED
    BY <2>2, <2>3, <2>4, <2>5, <2>6 DEF Marks
<1>13. Rec' \subseteq Rec /\ Tops' = Tops
  <2>1. PICK d \in Nat :
           /\ d <= current
           /\ stack' \in Seq(Transaction) /\ Len(stack') = current + 1 - d
           /\ \A i \in 1 .. current - d : stack'[i] = stack[i + d]
           /\ stack'[current + 1 - d] = txActions
    BY <1>3, EngineCommitted
  <2>2. current \in Nat /\ current <= Len(stack) /\ Len(stack) \in Nat
    BY DEF IInv, StateOK
  <2>3. ASSUME NEW k \in 1 .. Len(stack') PROVE Elements(stack'[k]) \subseteq Rec
    <3>1. CASE k = current + 1 - d
      BY <2>1, <3>1 DEF Rec, RecordedIn
    <3>2. CASE k # current + 1 - d
      <4>1. k \in 1 .. current - d /\ k + d \in 1 .. Len(stack)
        BY <2>1, <2>2, <3>2
      <4> QED
        BY <2>1, <4>1 DEF Rec, RecordedIn
    <3> QED
      BY <3>1, <3>2
  <2>4. Elements(<<>>) = {}
    BY DEF Elements
  <2> QED
    BY <1>3, <2>3, <2>4 DEF Rec, RecordedIn, Tops
<1> QED
  BY <1>1, <1>3, <1>12, <1>13, EndMarks DEF g, MarksInv

\* Copies have no model, and own copies.
LEMMA CloneMarks ==
    ASSUME NEW H, Before(H), After(H), MarksInv, NEW n \in Nodes, Clone(n)
    PROVE  MarksInv'
<1> DEFINE D == DOMAIN heap
           tree == Reach(heap, {n})
<1>1. PICK copy \in [tree -> Nodes \ D], home \in [tree \ {n} -> tree], p \in Uninit :
         /\ \A x \in tree : x \in VectorNodes <=> copy[x] \in VectorNodes
         /\ \A x \in tree : Children(heap, x) \subseteq tree
         /\ \A x, y \in tree : x # y => copy[x] # copy[y]
         /\ heap' = Cloned(tree, n, copy, home, p)
  BY DEF Clone
<1>2. "clone" \in Calls /\ Tops' = Tops /\ Rec' = Rec /\ mstate' = mstate
  BY DEF Clone, engineVars, Tops, Rec
<1>3. DOMAIN heap' = D \cup {copy[x] : x \in tree} /\ \A c \in D : heap'[c] = heap[c]
  BY <1>1 DEF Cloned
<1> HIDE DEF tree
<1>4. ASSUME NEW c \in DOMAIN heap' \ D
      PROVE  /\ ~heap'[c].managed
             /\ heap'[c].state = "Active" => heap'[c].parent \in Nodes
             /\ Children(heap', c) \cap D = {}
  <2>1. PICK x \in tree : copy[x] = c /\ x = CHOOSE y \in tree : copy[y] = c
    <3>1. PICK x \in tree : copy[x] = c
      BY <1>3
    <3>2. \A y \in tree : copy[y] = c => y = x
      BY <1>1, <3>1
    <3> QED
      BY <3>1, <3>2
  <2> DEFINE s == heap[x].items
             items == IF x \in VectorNodes
                      THEN [k \in 1 .. Len(s) |-> copy[s[k]]] ELSE s
  <2>2. heap'[c] = IF x = n THEN CopyOf(x, items, p, "Created")
                   ELSE CopyOf(x, items, copy[home[x]], "Active")
    BY <1>1, <1>3, <2>1 DEF Cloned
  <2> HIDE DEF items
  <2>3. /\ ~heap'[c].managed /\ heap'[c].items = items
        /\ heap'[c].state = "Active" => x # n /\ heap'[c].parent = copy[home[x]]
    <3>1. CASE x = n
      BY <2>2, <3>1 DEF CopyOf
    <3>2. CASE x # n
      BY <2>2, <3>2 DEF CopyOf
    <3> QED
      BY <3>1, <3>2
  <2>4. x # n => copy[home[x]] \in Nodes
    BY <1>1
  <2>5. Children(heap', c) \cap D = {}
    <3>1. CASE c \in VectorNodes
      <4>1. x \in VectorNodes
        BY <1>1, <2>1, <3>1
      <4>2. x \in D /\ heap[x].items \in Seq(Nodes)
        BY <4>1, ReachFacts DEF tree, Before, Core, HeapOK, NodeFields
      <4>3. ASSUME NEW k \in 1 .. Len(s) PROVE copy[s[k]] \notin D
        <5>1. s[k] \in Children(heap, x)
          BY <4>1, <4>2, <4>3 DEF Children, Elements
        <5> QED
          BY <1>1, <5>1
      <4>4. items = [k \in 1 .. Len(s) |-> copy[s[k]]]
        BY <4>1 DEF items
      <4> HIDE DEF s
      <4> QED
        BY <2>3, <3>1, <4>3, <4>4 DEF Children, Elements
    <3>2. CASE c \notin VectorNodes
      BY <3>2 DEF Children
    <3> QED
      BY <3>1, <3>2
  <2> QED
    BY <2>3, <2>4, <2>5
<1>5. /\ LinksOK(heap') /\ LinksOK(heap)
      /\ \A c \in D : Children(heap', c) = Children(heap, c)
  BY <1>3 DEF Before, After, Core, Children
<1>6. Marks(heap, Tops, Rec)
  BY DEF MarksInv
<1>7. \A m \in DOMAIN heap' : heap'[m].state = "Active" => heap'[m].parent \in Nodes
  BY <1>3, <1>4, <1>6 DEF Marks
<1>8. \A m \in DOMAIN heap' : heap'[m].managed /\ heap'[m].state = "Created" => m \in Tops
  BY <1>3, <1>4, <1>6 DEF Marks
<1>9. \A a \in Rec : Refs(a) \subseteq D /\ Refs(a) \subseteq DOMAIN heap' /\ heap'[a.parent].managed
  BY <1>3, <1>6 DEF Marks, Refs
<1>10. ASSUME NEW q \in DOMAIN heap', ~heap'[q].managed, NEW x \in Children(heap', q)
       PROVE  ~heap'[x].managed /\ \A a \in Rec : x \notin QueryInserted(a)
  <2>1. CASE q \in D
    <3>1. x \in D /\ ~heap[q].managed /\ x \in Children(heap, q)
      BY <1>3, <1>5, <1>10, <2>1 DEF LinksOK
    <3> QED
      BY <1>3, <1>6, <2>1, <3>1 DEF Marks
  <2>2. CASE q \notin D
    <3>1. x \in DOMAIN heap' \ D
      BY <1>4, <1>5, <1>10, <2>2 DEF LinksOK
    <3>2. \A a \in Rec : QueryInserted(a) \subseteq Refs(a)
      BY DEF QueryInserted, Refs
    <3> QED
      BY <1>4, <1>9, <3>1, <3>2
  <2> QED
    BY <2>1, <2>2
<1>11. Marks(heap', Tops, Rec)
  BY <1>2, <1>7, <1>8, <1>9, <1>10 DEF Marks
<1> QED
  BY <1>2, <1>11 DEF MarksInv

LEMMA MarksInvInit == Init => MarksInv
BY DEF Init, MarksInv, Marks, Rec, RecordedIn, Elements

LEMMA MarksInvStep ==
    ASSUME Plain, IInv, TreeInv, TreeInv', MarksInv, [Next]_vars PROVE MarksInv'
<1>1. PICK H : Before(H)
  BY DEF TreeInv
<1>2. \E H2 : After(H2)
  BY DEF TreeInv, Before, After
<1>3. PICK H2 : After(H2)
  BY <1>2
<1>4. NewDocument => MarksInv'
  BY <1>1, LoadRootMarks, ResetMarks, DestroyMarks DEF NewDocument
<1>5. Commit => MarksInv'
  BY <1>1, <1>3, CommitMarks
<1>6. LibraryStep => MarksInv'
  BY <1>1, LibraryMarks
<1>7. ASSUME ClientStep PROVE \E H1 : Before(H1) /\ After(H1)
  BY <1>1, <1>7, ClientCore
<1>8. ASSUME ClientStep PROVE MarksInv'
  <2>1. PICK H1 : Before(H1) /\ After(H1)
    BY <1>7, <1>8
  <2>2. ASSUME NEW n \in Nodes PROVE ~VectorMove(n) /\ ~BytesReplaceBeyond(n)
    BY DEF Plain, VectorMove, BytesReplaceBeyond
  <2>3. \A n \in Nodes \cup {Null} : ~SetRoot(n)
    BY DEF Plain, SetRoot
  <2>4. ASSUME NEW n \in Nodes PROVE Create(n) \/ Drop(n) => MarksInv'
    BY <2>1, CreateMarks, DropMarks
  <2>5. ASSUME NEW n \in Nodes,
               \/ VectorInsert(n) \/ VectorRemove(n)
               \/ BytesInsert(n) \/ BytesRemove(n) \/ BytesReplace(n)
        PROVE  MarksInv'
    BY <2>1, <2>5, EditsMarks
  <2>6. ASSUME NEW n \in Nodes, Clone(n) PROVE MarksInv'
    BY <2>1, <2>6, CloneMarks
  <2>7. ASSUME \/ BeginTransaction \/ CommitNothing \/ AbortTransaction
               \/ Undo \/ Redo \/ \E n \in Nodes : EditUnmanaged(n) \/ AskDangling(n) \/ AskDestroyed(n)
        PROVE  MarksInv'
    <3>1. /\ UNCHANGED <<heap, root, stack, txActions>>
          /\ mstate' = "Destroyed" <=> mstate = "Destroyed"
      BY <2>7 DEF BeginTransaction, CommitNothing, AbortTransaction, Undo, Redo,
                  EditUnmanaged, AskDangling, AskDestroyed, nodeVars, engineVars
    <3> QED
      BY <3>1, QuietMarks
  <2> QED
    BY <1>8, <2>2, <2>3, <2>4, <2>5, <2>6, <2>7 DEF ClientStep
<1>9. UNCHANGED vars => MarksInv'
  BY QuietMarks DEF vars, engineVars
<1> QED
  BY <1>4, <1>5, <1>6, <1>8, <1>9 DEF Next

LEMMA MarksInvAlways == Plain => (Spec => []MarksInv)
<1> SUFFICES ASSUME Plain PROVE Spec => []MarksInv
  OBVIOUS
<1>1. IInv /\ TreeInv /\ TreeInv' /\ MarksInv /\ [Next]_vars => MarksInv'
  BY MarksInvStep
<1>2. Spec => []TreeInv
  BY TreeInvAlways
<1> QED
  BY MarksInvInit, InvAlways, <1>1, <1>2, PTL DEF Spec

(***************************************************************************)
(* isDetached() and isWritable() tell where a node stands.                 *)
(***************************************************************************)

LEMMA OnTreeFacts ==
    ASSUME NEW H, Before(H)
    PROVE  /\ OnTree \subseteq DOMAIN heap
           /\ \A n \in OnTree :
                 /\ Children(heap, n) \subseteq OnTree
                 /\ n = root => heap[n].state = "Created" /\ heap[n].parent \in {Null, Wild}
                 /\ n # root => /\ heap[n].state = "Active" /\ heap[n].parent \in OnTree
                                /\ n \in Children(heap, heap[n].parent)
           /\ root # Null => root \in OnTree
<1> DEFINE m == Contents(heap)
<1>1. /\ LinksOK(heap) /\ Orphans(heap) /\ (root # Null => root \in FreeIn(heap))
      /\ Null \notin DOMAIN heap
  BY NodeTreeAssumption DEF Before, Core, HeapOK
<1>2. /\ OnTree = Within(m, {root}) /\ OnTree \subseteq DOMAIN heap /\ ClosedIn(m, OnTree)
      /\ {root} \cap DOMAIN heap \subseteq OnTree
  BY ReachFacts, ReachIsWithin DEF OnTree
<1>3. DOMAIN m = DOMAIN heap /\ \A n \in DOMAIN heap : Kids(m, n) = Children(heap, n)
  BY ContentsFacts
<1> HIDE DEF m
<1>4. ASSUME NEW n \in OnTree PROVE Children(heap, n) \subseteq OnTree
  BY <1>1, <1>2, <1>3 DEF ClosedIn, LinksOK
<1>5. ASSUME NEW n \in OnTree, n = root
      PROVE  heap[n].state = "Created" /\ heap[n].parent \in {Null, Wild}
  BY <1>1, <1>2, <1>5 DEF FreeIn, Orphans
<1>6. ASSUME NEW n \in OnTree, n # root
      PROVE  /\ heap[n].state = "Active" /\ heap[n].parent \in OnTree
             /\ n \in Children(heap, heap[n].parent)
  <2>1. PICK q \in OnTree : n \in Kids(m, q)
    BY <1>2, <1>6, WithinParents
  <2>2. q \in DOMAIN heap /\ n \in Children(heap, q)
    BY <1>2, <1>3, <2>1
  <2>3. heap[n].state = "Active" /\ heap[n].parent = q
    BY <1>1, <2>2 DEF LinksOK
  <2> QED
    BY <2>2, <2>3
<1>7. root # Null => root \in OnTree
  BY <1>1, <1>2 DEF FreeIn
<1> QED
  BY <1>2, <1>4, <1>5, <1>6, <1>7

\* The parents above a node that can be asked are all there and own it.
LEMMA AttachedFacts ==
    ASSUME NEW H, Before(H), NEW n \in DOMAIN heap \ Reach(heap, Outlived),
           heap[n].parent \in Nodes
    PROVE  /\ heap[n].parent \in DOMAIN heap \ Reach(heap, Outlived)
           /\ n \in Children(heap, heap[n].parent)
<1> DEFINE Late == Reach(heap, Outlived)
<1>1. Outlived \subseteq Late
  BY ReachFacts DEF Outlived
<1>2. heap[n].parent \in DOMAIN heap /\ n \in Children(heap, heap[n].parent)
  BY <1>1 DEF Outlived
<1>3. \A p \in Late : Children(heap, p) \cap DOMAIN heap \subseteq Late
  BY ReachFacts, ContentsFacts DEF ClosedIn
<1> QED
  BY <1>2, <1>3

\* The climb of isDetached() stays on the tree, or off it, and ends at a node that
\* was marked when it was removed.
LEMMA DetachedHolds ==
    ASSUME OwnIds, NEW H, Before(H), MarksInv PROVE DetachedMatchesTree
<1> DEFINE D == DOMAIN heap
           G == ActiveIn(heap)
<1>1. /\ HeapOK(heap) /\ Forest(Contents(heap))
      /\ G \subseteq D /\ Null \notin D /\ Wild \notin D /\ Null \notin Nodes /\ Wild \notin Nodes
  BY NodeTreeAssumption DEF Before, Core, Way, ContentOK, HeapOK, ActiveIn
<1>2. Marks(heap, {root}, Rec) /\ "clone" \notin Calls
  BY DEF MarksInv, Tops, OwnIds
<1>3. SUFFICES ASSUME NEW n \in Attached, heap[n].state # "Created"
               PROVE  IsDetached(heap, n) <=> n \notin OnTree
  BY DEF DetachedMatchesTree
<1>4. n \in D /\ n \notin Reach(heap, Outlived) /\ DetachedTop(heap, n) \in D
  BY <1>3 DEF Attached, Intact, Ends
<1> HIDE DEF G
<1>5. CASE n \in OnTree
  <2> DEFINE S == OnTree \cup {Wild}
  <2>1. Upward(heap, G, S)
    <3>1. \A x \in S : Goes(heap, G, x) =>
             /\ heap[x].parent \in S
             /\ heap[x].parent \in DOMAIN heap => x \in Children(heap, heap[x].parent)
      BY <1>1, OnTreeFacts DEF Goes
    <3> QED
      BY <3>1 DEF Upward
  <2>2. Climb(heap, n, G) \in S
    BY <1>1, <1>5, <2>1, ClimbTop
  <2>3. DetachedTop(heap, n) \in OnTree
    BY <1>1, <1>4, <2>2 DEF DetachedTop, G
  <2>4. heap[DetachedTop(heap, n)].state # "Detached"
    BY <2>3, OnTreeFacts
  <2> QED
    BY <1>5, <2>4 DEF IsDetached
<1>6. CASE n \notin OnTree
  <2> DEFINE S == {x \in D \ Reach(heap, Outlived) :
                      x \notin OnTree /\ heap[x].state # "Created"} \cup {Wild}
  <2>1. ASSUME NEW x \in S, Goes(heap, G, x)
        PROVE  /\ heap[x].parent \in S
               /\ x \in Children(heap, heap[x].parent)
    <3>1. x \in D /\ x \notin Reach(heap, Outlived) /\ x \notin OnTree
          /\ heap[x].state = "Active"
      BY <1>1, <2>1 DEF Goes, G, ActiveIn
    <3>2. heap[x].parent \in Nodes
      BY <1>2, <3>1 DEF Marks
    <3>3. /\ heap[x].parent \in D \ Reach(heap, Outlived)
          /\ x \in Children(heap, heap[x].parent)
      BY <3>1, <3>2, AttachedFacts
    <3>4. heap[x].parent \notin OnTree
      BY <3>1, <3>3, OnTreeFacts
    <3>5. heap[heap[x].parent].state # "Created"
      <4>1. heap[x].parent # root
        BY <1>1, <3>3, <3>4, OnTreeFacts
      <4> QED
        BY <1>2, <3>3, <4>1 DEF Marks
    <3> QED
      BY <3>3, <3>4, <3>5
  <2>2. Upward(heap, G, S)
    BY <2>1 DEF Upward
  <2>3. n \in S
    BY <1>3, <1>4, <1>6
  <2> HIDE DEF S
  <2>4. Climb(heap, n, G) \in S /\ ~Goes(heap, G, Climb(heap, n, G))
    BY <1>1, <2>2, <2>3, ClimbTop
  <2>5. DetachedTop(heap, n) \in S /\ ~Goes(heap, G, DetachedTop(heap, n))
    BY <2>4 DEF DetachedTop, G
  <2> DEFINE t == DetachedTop(heap, n)
  <2>6. heap[t].state # "Created"
    BY <1>1, <1>4, <2>5 DEF S
  <2>7. heap[t].state # "Active"
    <3>1. SUFFICES ASSUME heap[t].state = "Active" PROVE FALSE
      OBVIOUS
    <3>2. heap[t].parent \in Nodes
      BY <1>2, <1>4, <3>1 DEF Marks
    <3> QED
      BY <1>1, <1>4, <2>5, <3>1, <3>2 DEF Goes, G, ActiveIn
  <2>8. heap[t].state \in NodeState
    BY <1>1, <1>4 DEF HeapOK, NodeFields
  <2> QED
    BY <1>6, <2>6, <2>7, <2>8 DEF IsDetached, NodeState
<1> QED
  BY <1>5, <1>6

\* The climb of isWritable() ends at a node with a model, on the tree or off it.
LEMMA WritableHolds ==
    ASSUME NEW H, Before(H), MarksInv PROVE WritableMatchesTree
<1> DEFINE D == DOMAIN heap
           G == Managed(heap)
<1>1. /\ HeapOK(heap) /\ Forest(Contents(heap))
      /\ G \subseteq D /\ Null \notin D /\ Wild \notin D /\ Null \notin Nodes /\ Wild \notin Nodes
  BY NodeTreeAssumption DEF Before, Core, Way, ContentOK, HeapOK, Managed
<1>2. Marks(heap, Tops, Rec)
  BY DEF MarksInv
<1>3. mstate = "Idle" => \A n \in OnTree : heap[n].managed
  BY AtRest DEF Known
<1>4. SUFFICES ASSUME mstate # "Destroyed", NEW n \in Attached, heap[n].managed
               PROVE  Writable(n) <=> ModelWritable /\ n \in OnTree
  BY <1>3 DEF WritableMatchesTree
<1>5. n \in D /\ n \notin Reach(heap, Outlived) /\ WritableTop(heap, n) \in D
  BY <1>4 DEF Attached, Intact, Ends
<1> DEFINE t == WritableTop(heap, n)
<1> HIDE DEF G
<1>6. CASE n \in OnTree
  <2> DEFINE S == {x \in OnTree : heap[x].managed} \cup {Wild}
  <2>1. ASSUME NEW x \in S, Goes(heap, G, x)
        PROVE  /\ heap[x].parent \in S
               /\ heap[x].parent \in D => x \in Children(heap, heap[x].parent)
    <3>1. x \in OnTree /\ x \in D /\ heap[x].managed /\ heap[x].parent # Null
      BY <1>1, <2>1, OnTreeFacts DEF Goes
    <3>2. CASE x = root
      BY <1>1, <3>1, <3>2, OnTreeFacts
    <3>3. CASE x # root
      <4>1. /\ heap[x].parent \in OnTree /\ heap[x].parent \in D
            /\ x \in Children(heap, heap[x].parent)
        BY <3>1, <3>3, OnTreeFacts
      <4>2. heap[heap[x].parent].managed
        BY <1>2, <3>1, <4>1 DEF Marks
      <4> QED
        BY <4>1, <4>2
    <3> QED
      BY <3>2, <3>3
  <2>2. Upward(heap, G, S)
    BY <2>1 DEF Upward
  <2>3. n \in S
    BY <1>4, <1>6
  <2> HIDE DEF S
  <2>4. Climb(heap, n, G) \in S
    BY <1>1, <2>2, <2>3, ClimbTop
  <2>5. t \in OnTree /\ heap[t].managed
    BY <1>1, <1>5, <2>4 DEF WritableTop, G, S
  <2>6. heap[t].state # "Detached"
    BY <2>5, OnTreeFacts
  <2> QED
    BY <1>6, <2>5, <2>6 DEF Writable, IsWritable
<1>7. CASE n \notin OnTree
  <2> DEFINE S == {x \in D \ Reach(heap, Outlived) :
                      x \notin OnTree /\ heap[x].managed} \cup {Wild}
  <2>1. ASSUME NEW x \in S, Goes(heap, G, x)
        PROVE  /\ heap[x].parent \in S
               /\ heap[x].parent \in D => x \in Children(heap, heap[x].parent)
    <3>1. /\ x \in D /\ x \notin Reach(heap, Outlived) /\ x \notin OnTree
          /\ heap[x].managed /\ heap[x].parent # Null
      BY <1>1, <2>1 DEF Goes
    <3>2. heap[x].parent \in Nodes \cup {Wild}
      BY <1>1, <3>1 DEF HeapOK, NodeFields
    <3>3. CASE heap[x].parent = Wild
      BY <1>1, <3>3
    <3>4. CASE heap[x].parent \in Nodes
      <4>1. /\ heap[x].parent \in D \ Reach(heap, Outlived)
            /\ x \in Children(heap, heap[x].parent)
        BY <3>1, <3>4, AttachedFacts
      <4>2. heap[x].parent \notin OnTree
        BY <3>1, <4>1, OnTreeFacts
      <4>3. heap[heap[x].parent].managed
        BY <1>2, <3>1, <4>1 DEF Marks
      <4> QED
        BY <4>1, <4>2, <4>3
    <3> QED
      BY <3>2, <3>3, <3>4
  <2>2. Upward(heap, G, S)
    BY <2>1 DEF Upward
  <2>3. n \in S
    BY <1>4, <1>5, <1>7
  <2> HIDE DEF S
  <2>4. Climb(heap, n, G) \in S /\ ~Goes(heap, G, Climb(heap, n, G))
    BY <1>1, <2>2, <2>3, ClimbTop
  <2>5. t \in D /\ t \notin OnTree /\ heap[t].managed /\ ~Goes(heap, G, t)
    BY <1>1, <1>5, <2>4 DEF WritableTop, G, S
  <2>6. heap[t].parent = Null
    BY <2>5 DEF Goes, G, Managed
  <2>7. heap[t].state # "Active"
    BY <1>1, <1>2, <2>5, <2>6 DEF Marks
  <2>8. heap[t].state = "Created" => ~ModelWritable
    <3>1. SUFFICES ASSUME heap[t].state = "Created" PROVE mstate = "Destroyed"
      BY DEF ModelWritable
    <3>2. t \in Tops
      BY <1>2, <2>5, <3>1 DEF Marks
    <3>3. t # root
      BY <1>1, <2>5, OnTreeFacts
    <3> QED
      BY <3>2, <3>3 DEF Tops
  <2>9. heap[t].state \in NodeState
    BY <1>1, <1>5 DEF HeapOK, NodeFields
  <2> QED
    BY <1>7, <2>5, <2>7, <2>8, <2>9 DEF Writable, IsWritable, NodeState
<1> QED
  BY <1>6, <1>7

\* As long as the client does only what is Plain, isWritable() of a node with a
\* model is true exactly inside of a transaction on the nodes of the tree, and at
\* rest every node of the tree has its model (NodePrivate::propagate in
\* commitTransaction): whatever was undone, redone, aborted or cloned, while the model lives.
THEOREM WritableAlwaysMatches == Plain => (Spec => []WritableMatchesTree)
<1> SUFFICES ASSUME Plain PROVE Spec => []WritableMatchesTree
  OBVIOUS
<1>1. TreeInv /\ MarksInv => WritableMatchesTree
  BY WritableHolds DEF TreeInv
<1>2. Spec => []TreeInv
  BY TreeInvAlways
<1>3. Spec => []MarksInv
  BY MarksInvAlways
<1> QED
  BY <1>1, <1>2, <1>3, PTL

\* isDetached() of a node that was on the tree tells whether it is off it, however
\* often it was removed and put back, of a client that does only what is Plain,
\* clones no node and destroys no model.
THEOREM DetachedAlwaysMatches == Plain /\ OwnIds => (Spec => []DetachedMatchesTree)
<1> SUFFICES ASSUME Plain, OwnIds PROVE Spec => []DetachedMatchesTree
  OBVIOUS
<1>1. TreeInv /\ MarksInv => DetachedMatchesTree
  BY DetachedHolds DEF TreeInv
<1>2. Spec => []TreeInv
  BY TreeInvAlways
<1>3. Spec => []MarksInv
  BY MarksInvAlways
<1> QED
  BY <1>1, <1>2, <1>3, PTL

----------------------------------------------------------------------------
(***************************************************************************)
(* That Document implements UndoHistory: undo, redo and abort bring back   *)
(* the documents that were committed.  The documents by step number, which *)
(* are there by the invariant, are those of the history variable.          *)
(***************************************************************************)

\* The content of a tree is its document.
LEMMA ReachedDoc ==
    ASSUME NEW h, NEW r
    PROVE  [root |-> r, items |-> [n \in Reach(h, {r}) |-> h[n].items]] = Doc(Contents(h), r)
<1> DEFINE m == Contents(h)
<1>1. Reach(h, {r}) = Within(m, {r}) /\ Reach(h, {r}) \subseteq DOMAIN h
  BY ReachIsWithin, ReachFacts
<1>2. \A n \in DOMAIN h : m[n] = h[n].items
  BY ContentsFacts
<1> HIDE DEF m
<1>3. [n \in Reach(h, {r}) |-> h[n].items] = [n \in Within(m, {r}) |-> m[n]]
  BY <1>1, <1>2
<1> QED
  BY <1>3 DEF Doc, m

LEMMA ContentIsDoc ==
    /\ Content = Doc(Contents(heap), root)
    /\ Content' = Doc(Contents(heap'), root')
BY ReachedDoc DEF Content, OnTree

\* The history variable has the documents of the steps.
HistoryInv == Before(hist)

LEMMA HistoryInit == HInit => HistoryInv
<1> SUFFICES ASSUME HInit PROVE HistoryInv
  OBVIOUS
<1>1. hist = Anew
  BY ContentIsDoc DEF HInit, Anew
<1> QED
  BY <1>1, InitCore DEF HInit, HistoryInv

LEMMA HistorySimple == HNext => Next
BY DEF HNext, Next

\* What commit does to the step numbers.
LEMMA CommitSteps ==
    ASSUME IInv, Commit
    PROVE  /\ min' \in min .. min + current
           /\ min' + current' = min + current + 1
<1>1. PICK d \in Nat : d <= current /\ min' = min + d /\ current' = current + 1 - d
  BY EngineCommitted DEF Commit
<1>2. min \in Nat /\ current \in Nat
  BY DEF IInv, StateOK
<1> QED
  BY <1>1, <1>2

LEMMA HistoryStep ==
    ASSUME Plain, IInv, HistoryInv, [HNext]_hvars PROVE HistoryInv'
<1>1. Before(hist)
  BY DEF HistoryInv
<1>2. After(hist') => HistoryInv'
  BY DEF After, Before, HistoryInv
<1>3. CASE NewDocument /\ hist' = [k \in {0} |-> Content']
  <2>1. hist' = Anew'
    BY <1>3, ContentIsDoc DEF Anew
  <2> QED
    BY <1>1, <1>2, <1>3, <2>1, NewDocumentCore
<1>4. CASE /\ Commit
           /\ hist' = [k \in min' .. Engine!currentStep' |->
                          IF k <= Engine!currentStep THEN hist[k] ELSE Content]
  <2>1. Engine!currentStep' = min + current + 1 /\ Engine!currentStep = min + current
    BY <1>4, CommitSteps DEF Engine!currentStep
  <2>2. hist' = Extended(hist, min', min + current, Doc(Contents(heap), root))
    BY <1>4, <2>1, ContentIsDoc DEF Extended
  <2> QED
    BY <1>1, <1>2, <1>4, <2>2, CommitCore
<1>5. CASE ClientStep /\ UNCHANGED hist
  BY <1>1, <1>2, <1>5, ClientCore
<1>6. CASE LibraryStep /\ UNCHANGED hist
  BY <1>1, <1>2, <1>6, LibraryCore
<1>7. CASE UNCHANGED hvars
  <2>1. UNCHANGED <<heap, root, stack, min, current, mstate, txActions, todo, hist>>
    BY <1>7 DEF hvars, vars, engineVars
  <2> QED
    BY <1>1, <2>1 DEF Before, HistoryInv
<1> QED
  BY <1>3, <1>4, <1>5, <1>6, <1>7 DEF HNext

LEMMA SimpleAlways == HSpec => Spec
<1>1. HInit => Init
  BY DEF HInit
<1>2. [HNext]_hvars => [Next]_vars
  BY HistorySimple DEF hvars
<1> QED
  BY <1>1, <1>2, PTL DEF HSpec, Spec

LEMMA HistoryAlways == Plain => (HSpec => []HistoryInv)
<1> SUFFICES ASSUME Plain PROVE HSpec => []HistoryInv
  OBVIOUS
<1>1. IInv /\ HistoryInv /\ [HNext]_hvars => HistoryInv'
  BY HistoryStep
<1> QED
  BY HistoryInit, SimpleAlways, InvAlways, <1>1, PTL DEF HSpec

\* At rest the content is the one of the current step.
Rests ==
    mstate = "Idle" =>
        Engine!currentStep \in DOMAIN hist /\ Content = hist[Engine!currentStep]

LEMMA RestContent == HistoryInv => Rests
BY AtRest, ContentIsDoc DEF HistoryInv, Rests, Engine!currentStep

LEMMA RestContentNext == HistoryInv' => Rests'
BY RestContent, PTL

\* Model::undo, redo and abortTransaction bring back the document that was
\* committed at the step they return to, whatever was edited, undone, redone,
\* aborted, truncated and trimmed between, for any nodes and any limit.
THEOREM RestBringsBack == Plain => (HSpec => []AtRestRestored)
<1> SUFFICES ASSUME Plain PROVE HSpec => []AtRestRestored
  OBVIOUS
<1>1. HistoryInv => AtRestRestored
  BY RestContent DEF AtRestRestored, Rests
<1> QED
  BY HistoryAlways, <1>1, PTL

----------------------------------------------------------------------------
(***************************************************************************)
(* The refinement.                                                         *)
(***************************************************************************)
Resting == mstate = "Idle"

\* A step that leaves the history alone is one of the abstract ones.
LEMMA KeepingImplements ==
    ASSUME HistoryInv, HistoryInv', hist' = hist,
           NEW pos, pos = Engine!currentStep, pos \in Int,
           \/ mstate' = mstate /\ Engine!currentStep' = pos
           \/ /\ mstate = "Idle" /\ mstate' # "Idle"
              /\ heap' = heap /\ root' = root /\ Engine!currentStep' = pos
           \/ /\ mstate # "Idle" /\ mstate' = "Idle"
              /\ Engine!currentStep' \in {pos - 1, pos, pos + 1}
    PROVE  [History!Next]_(History!docVars)
<1>1. Rests /\ Rests'
  BY RestContent, RestContentNext
<1>2. CASE mstate' = mstate /\ Engine!currentStep' = pos /\ mstate = "Idle"
  <2>1. Content' = Content
    BY <1>1, <1>2 DEF Rests
  <2>2. (mstate = "Idle") = TRUE /\ (mstate' = "Idle") = TRUE
    BY <1>2
  <2> QED
    BY <1>2, <2>1, <2>2 DEF History!docVars
<1>3. CASE mstate' = mstate /\ Engine!currentStep' = pos /\ mstate # "Idle"
  BY <1>3 DEF History!Next, History!Wander
<1>4. CASE /\ mstate = "Idle" /\ mstate' # "Idle"
           /\ heap' = heap /\ root' = root /\ Engine!currentStep' = pos
  <2>1. Content' = Content
    BY <1>4 DEF Content, OnTree
  <2> QED
    BY <1>4, <2>1 DEF History!Next, History!Enter
<1>5. CASE /\ mstate # "Idle" /\ mstate' = "Idle"
           /\ Engine!currentStep' \in {pos - 1, pos, pos + 1}
  <2>1. Engine!currentStep' \in DOMAIN hist /\ Content' = hist[Engine!currentStep']
    BY <1>1, <1>5 DEF Rests
  <2> QED
    BY <1>5, <2>1 DEF History!Next, History!Return
<1> QED
  BY <1>2, <1>3, <1>4, <1>5

LEMMA CommitRecords ==
    ASSUME IInv, HistoryInv, HistoryInv', Commit,
           hist' = [k \in min' .. Engine!currentStep' |->
                       IF k <= Engine!currentStep THEN hist[k] ELSE Content]
    PROVE  History!Record
<1> DEFINE pos == Engine!currentStep
<1>1. /\ min' \in min .. pos /\ Engine!currentStep' = pos + 1 /\ pos \in Nat
  BY CommitSteps DEF Engine!currentStep, IInv, StateOK
<1>2. mstate = "Transaction" /\ mstate' = "Idle"
  BY DEF Commit
<1> HIDE DEF pos
<1>3. hist' = [k \in min' .. pos + 1 |-> IF k <= pos THEN hist[k] ELSE Content]
  BY <1>1 DEF pos
<1>4. Content' = Content
  <2>1. Content' = hist'[pos + 1]
    BY <1>1, <1>2, RestContentNext DEF Rests, pos
  <2>2. pos + 1 \in min' .. pos + 1 /\ ~(pos + 1 <= pos) /\ min \in Int
    BY <1>1 DEF IInv, StateOK
  <2> QED
    BY <1>3, <2>1, <2>2
<1>5. min' \in DOMAIN hist /\ min' <= pos
  <2>1. DOMAIN hist = min .. min + Len(stack)
    BY DEF HistoryInv, Before, Core, Course
  <2>2. min \in Nat /\ current \in Nat /\ current <= Len(stack) /\ Len(stack) \in Nat
        /\ pos = min + current
    BY DEF IInv, StateOK, pos, Engine!currentStep
  <2> QED
    BY <1>1, <2>1, <2>2
<1> QED
  BY <1>1, <1>2, <1>3, <1>4, <1>5 DEF History!Record, pos

LEMMA RestartImplements ==
    ASSUME "destroy" \notin Calls, HistoryInv, NewDocument,
           hist' = [k \in {0} |-> Content']
    PROVE  History!Restart
<1>1. Before(hist)
  BY DEF HistoryInv
<1>2. ~Destroy
  BY DEF Destroy
<1>3. ASSUME NEW n \in Nodes, LoadRoot(n)
      PROVE  mstate = "Idle" /\ mstate' = "Idle" /\ min' = 0 /\ current' = 0
  BY <1>1, <1>3, IdleControl DEF LoadRoot, engineVars
<1>4. Reset => mstate = "Idle" /\ mstate' = "Idle" /\ min' = 0 /\ current' = 0
  BY DEF Reset, Engine!ResetWindow
<1>5. mstate = "Idle" /\ mstate' = "Idle" /\ min' = 0 /\ current' = 0
  BY <1>2, <1>3, <1>4 DEF NewDocument
<1> QED
  BY <1>5 DEF History!Restart, Engine!currentStep

\* The steps of the client that begin or end a call, and the others.
LEMMA ClientTurns ==
    ASSUME ClientStep
    PROVE  /\ min' = min /\ current' = current
           /\ \/ mstate' = mstate
              \/ mstate = "Idle" /\ mstate' # "Idle" /\ heap' = heap /\ root' = root
              \/ mstate # "Idle" /\ mstate' = "Idle"
<1>1. ASSUME NEW a, Edit(a) PROVE UNCHANGED <<mstate, min, current>>
  BY <1>1 DEF Edit, engineVars
<1>2. ASSUME NEW n, Create(n) \/ Drop(n) \/ Clone(n) \/ EditUnmanaged(n)
                    \/ AskDangling(n) \/ AskDestroyed(n) \/ SetRoot(n) \/ BytesReplaceBeyond(n)
      PROVE  UNCHANGED <<mstate, min, current>>
  BY <1>2 DEF Create, Drop, Clone, EditUnmanaged, AskDangling, AskDestroyed, SetRoot,
              BytesReplaceBeyond, engineVars
<1>3. ASSUME NEW n, \/ VectorInsert(n) \/ VectorRemove(n) \/ VectorMove(n)
                    \/ BytesInsert(n) \/ BytesRemove(n) \/ BytesReplace(n)
      PROVE  UNCHANGED <<mstate, min, current>>
  BY <1>1, <1>3 DEF VectorInsert, VectorRemove, VectorMove, BytesInsert, BytesRemove,
                    BytesReplace
<1>4. CASE BeginTransaction \/ Undo \/ Redo
  BY <1>4 DEF BeginTransaction, Undo, Redo, nodeVars, engineVars
<1>5. CASE CommitNothing \/ AbortTransaction
  BY <1>5 DEF CommitNothing, AbortTransaction, engineVars
<1>6. CASE UNCHANGED <<mstate, min, current>>
  BY <1>6
<1> QED
  BY <1>2, <1>3, <1>4, <1>5, <1>6 DEF ClientStep

LEMMA LibraryTurns ==
    ASSUME IInv, LibraryStep
    PROVE  \/ mstate' = mstate /\ min' = min /\ current' = current
           \/ /\ mstate # "Idle" /\ mstate' = "Idle" /\ min' = min
              /\ current' \in {current - 1, current, current + 1}
<1>1. ExecuteAction \/ ExecuteOutOfRange
         => mstate' = mstate /\ min' = min /\ current' = current
  BY DEF ExecuteAction, ExecuteOutOfRange, engineVars
<1>2. AbortReturns => /\ mstate # "Idle" /\ mstate' = "Idle" /\ min' = min
                      /\ current' = current
  BY DEF AbortReturns, engineVars
<1>3. UndoReturns => /\ mstate # "Idle" /\ mstate' = "Idle" /\ min' = min
                     /\ current' = current - 1
  BY DEF UndoReturns, Engine!StepBack
<1>4. RedoReturns => /\ mstate # "Idle" /\ mstate' = "Idle" /\ min' = min
                     /\ current' = current + 1
  BY DEF RedoReturns, Engine!StepForward
<1> QED
  BY <1>1, <1>2, <1>3, <1>4 DEF LibraryStep

LEMMA StepImplementsHistory ==
    ASSUME "destroy" \notin Calls, IInv, HistoryInv, HistoryInv', [HNext]_hvars
    PROVE  [History!Next]_(History!docVars)
<1> DEFINE pos == Engine!currentStep
<1>1. pos = min + current /\ Engine!currentStep' = min' + current' /\ pos \in Int
      /\ min \in Int /\ current \in Int
  BY DEF Engine!currentStep, IInv, StateOK
<1> HIDE DEF pos
<1>2. pos = Engine!currentStep
  BY DEF pos
<1>3. CASE NewDocument /\ hist' = [k \in {0} |-> Content']
  BY <1>3, RestartImplements DEF History!Next
<1>4. CASE /\ Commit
           /\ hist' = [k \in min' .. Engine!currentStep' |->
                          IF k <= Engine!currentStep THEN hist[k] ELSE Content]
  BY <1>4, CommitRecords DEF History!Next
<1>5. CASE ClientStep /\ UNCHANGED hist
  <2>1. Engine!currentStep' = pos
    BY <1>1, <1>5, ClientTurns
  <2> QED
    BY <1>1, <1>2, <1>5, <2>1, ClientTurns, KeepingImplements
<1>6. CASE LibraryStep /\ UNCHANGED hist
  <2>1. CASE mstate' = mstate /\ min' = min /\ current' = current
    <3>1. Engine!currentStep' = pos
      BY <1>1, <2>1
    <3> QED
      BY <1>1, <1>2, <1>6, <2>1, <3>1, KeepingImplements
  <2>2. CASE /\ mstate # "Idle" /\ mstate' = "Idle" /\ min' = min
             /\ current' \in {current - 1, current, current + 1}
    <3>2. current' = current - 1 \/ current' = current \/ current' = current + 1
      BY <2>2
    <3>3. Engine!currentStep' = min + current'
      BY <1>1, <2>2
    <3>4. \/ Engine!currentStep' = pos - 1 \/ Engine!currentStep' = pos
          \/ Engine!currentStep' = pos + 1
      BY ONLY <1>1, <3>2, <3>3
    <3>1. Engine!currentStep' \in {pos - 1, pos, pos + 1}
      BY <3>4
    <3> QED
      BY <1>1, <1>2, <1>6, <2>2, <3>1, KeepingImplements
  <2> QED
    BY <1>6, <2>1, <2>2, LibraryTurns
<1>7. CASE UNCHANGED hvars
  <2>1. UNCHANGED <<heap, root, min, current, mstate, hist>>
    BY <1>7 DEF hvars, vars, engineVars
  <2>2. Engine!currentStep' = pos
    BY <1>1, <2>1
  <2> QED
    BY <1>1, <1>2, <2>1, <2>2, KeepingImplements
<1> QED
  BY <1>3, <1>4, <1>5, <1>6, <1>7 DEF HNext

LEMMA InitImplementsHistory == HInit => History!Init
BY DEF HInit, Init, History!Init, Engine!currentStep

\* Document implements UndoHistory: undo, redo and abort are moves of a cursor
\* over the documents that commit recorded, one step at a time, and nothing
\* else that the client does at rest changes the document (Model,
\* StandardStorageEngine, the execute functions of the actions).
THEOREM DocumentImplementsUndoHistory ==
    Plain /\ "destroy" \notin Calls => (HSpec => ImplementsUndoHistory)
<1> SUFFICES ASSUME Plain, "destroy" \notin Calls PROVE HSpec => ImplementsUndoHistory
  OBVIOUS
<1>1. IInv /\ HistoryInv /\ HistoryInv' /\ [HNext]_hvars
         => [History!Next]_(History!docVars)
  BY StepImplementsHistory
<1>2. HSpec => []HistoryInv
  BY HistoryAlways
<1> QED
  BY InitImplementsHistory, SimpleAlways, InvAlways, <1>1, <1>2, PTL
     DEF HSpec, ImplementsUndoHistory, History!Spec
=============================================================================
