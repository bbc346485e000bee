---------------------------- MODULE SpliceProofs ----------------------------
(***************************************************************************)
(* Lemmas about the operations of Splice: what they return, and that those *)
(* an action executes forwards and backwards undo each other.  Before them *)
(* stands how one goes step by step through an interval, which is what the *)
(* proofs about documents and streams have instead of induction.           *)
(***************************************************************************)
EXTENDS Splice, SequenceTheorems, WellFoundedInduction, TLAPS

----------------------------------------------------------------------------
(***************************************************************************)
(* Going step by step through an interval.                                 *)
(***************************************************************************)
LEMMA LeastElement ==
    ASSUME NEW T, T \subseteq Nat, T # {}
    PROVE  \E x \in T : \A y \in T : x <= y
<1> DEFINE R == OpToRel(<, Nat)
<1>1. IsWellFoundedOn(R, Nat) /\ \A x, y \in Nat : y < x => <<y, x>> \in R
  BY NatLessThanWellFounded DEF OpToRel
<1> HIDE DEF R
<1>2. \E x \in T : \A y \in T : ~ (<<y, x>> \in R)
  BY ONLY <1>1, T \subseteq Nat, T # {}, WFMin, ZenonT(30)
<1>3. PICK x \in T : \A y \in T : ~ (<<y, x>> \in R)
  BY <1>2
<1>4. ASSUME NEW y \in T PROVE x <= y
  <2>1. y \in Nat /\ x \in Nat
    OBVIOUS
  <2>2. ~ (y < x)
    BY <1>1, <1>3, <2>1
  <2> QED
    BY <2>1, <2>2
<1> QED
  BY <1>4

LEMMA Upwards ==
    ASSUME NEW lo \in Nat, NEW hi \in Nat, NEW c \in lo .. hi, NEW T, c \in T,
           \A k \in lo .. hi - 1 : k \in T => k + 1 \in T
    PROVE  \A k \in c .. hi : k \in T
<1> DEFINE Bad == {k \in c .. hi : k \notin T}
<1>1. ASSUME Bad # {} PROVE FALSE
  <2>1. Bad \subseteq Nat
    OBVIOUS
  <2>2. PICK x \in Bad : \A y \in Bad : x <= y
    <3> HIDE DEF Bad
    <3> QED
      BY <1>1, <2>1, LeastElement
  <2>3. x \in c .. hi /\ x \notin T /\ x # c
    OBVIOUS
  <2>4. x - 1 \in c .. hi /\ x - 1 \in lo .. hi - 1 /\ ~ (x <= x - 1) /\ (x - 1) + 1 = x
    BY <2>3
  <2>5. x - 1 \in T
    BY <2>2, <2>4
  <2> QED
    BY <2>3, <2>4, <2>5
<1> QED
  BY <1>1

LEMMA Downwards ==
    ASSUME NEW lo \in Nat, NEW hi \in Nat, NEW c \in lo .. hi, NEW T, c \in T,
           \A k \in lo .. hi - 1 : k + 1 \in T => k \in T
    PROVE  \A k \in lo .. c : k \in T
<1> DEFINE Bad == {d \in 0 .. c - lo : c - d \notin T}
<1>1. ASSUME Bad # {} PROVE FALSE
  <2>1. Bad \subseteq Nat
    OBVIOUS
  <2>2. PICK x \in Bad : \A y \in Bad : x <= y
    <3> HIDE DEF Bad
    <3> QED
      BY <1>1, <2>1, LeastElement
  <2>3. x \in 0 .. c - lo /\ c - x \notin T /\ x # 0
    OBVIOUS
  <2>4. x - 1 \in 0 .. c - lo /\ ~ (x <= x - 1)
    BY <2>3
  <2>5. c - (x - 1) \in T
    BY <2>2, <2>4
  <2>6. c - x \in lo .. hi - 1 /\ (c - x) + 1 = c - (x - 1)
    BY <2>3
  <2> QED
    BY <2>3, <2>5, <2>6
<1>2. ASSUME NEW k \in lo .. c PROVE k \in T
  <2>1. c - k \in 0 .. c - lo /\ c - (c - k) = k
    OBVIOUS
  <2>2. c - k \notin Bad
    BY <1>1
  <2> QED
    BY <2>1, <2>2
<1> QED
  BY <1>2

\* What holds somewhere and is passed on in both directions holds everywhere.
LEMMA Everywhere ==
    ASSUME NEW lo \in Nat, NEW hi \in Nat, NEW c \in lo .. hi, NEW T, c \in T,
           \A k \in lo .. hi - 1 : k \in T <=> k + 1 \in T
    PROVE  \A k \in lo .. hi : k \in T
<1>1. \A k \in c .. hi : k \in T
  BY Upwards
<1>2. \A k \in lo .. c : k \in T
  BY Downwards
<1>3. ASSUME NEW k \in lo .. hi PROVE k \in T
  <2>1. k \in c .. hi \/ k \in lo .. c
    OBVIOUS
  <2> QED
    BY <1>1, <1>2, <2>1
<1> QED
  BY <1>3

----------------------------------------------------------------------------
\* What Slice takes out of a vector (the _children of a removal, the
\* _oldBytes of a replacement).
LEMMA SliceFacts ==
    ASSUME NEW S, NEW s \in Seq(S), NEW i \in Nat, NEW n \in Nat,
           i + n <= Len(s)
    PROVE  /\ Slice(s, i, n) \in Seq(S)
           /\ Len(Slice(s, i, n)) = n
           /\ \A k \in 1 .. n : Slice(s, i, n)[k] = s[i + k]
<1>1. \A k \in i + 1 .. i + n : s[k] \in S
  BY LenProperties, ElementOfSeq
<1> QED
  BY <1>1, SubSeqProperties DEF Slice

\* The elements of a vector before and after position i.
LEMMA Halves ==
    ASSUME NEW S, NEW s \in Seq(S), NEW i \in Nat, NEW j \in Nat,
           i <= Len(s), j <= Len(s)
    PROVE  /\ SubSeq(s, 1, i) \in Seq(S)
           /\ Len(SubSeq(s, 1, i)) = i
           /\ \A k \in 1 .. i : SubSeq(s, 1, i)[k] = s[k]
           /\ SubSeq(s, j + 1, Len(s)) \in Seq(S)
           /\ Len(SubSeq(s, j + 1, Len(s))) = Len(s) - j
           /\ \A k \in 1 .. Len(s) - j : SubSeq(s, j + 1, Len(s))[k] = s[j + k]
<1>1. /\ \A k \in 1 .. i : s[k] \in S
      /\ \A k \in j + 1 .. Len(s) : s[k] \in S
      /\ Len(s) \in Nat
  BY LenProperties, ElementOfSeq
<1>2. /\ SubSeq(s, 1, i) \in Seq(S)
      /\ Len(SubSeq(s, 1, i)) = i
      /\ \A k \in 1 .. i : SubSeq(s, 1, i)[k] = s[k]
  BY <1>1, SubSeqProperties
<1>3. /\ SubSeq(s, j + 1, Len(s)) \in Seq(S)
      /\ Len(SubSeq(s, j + 1, Len(s))) = Len(s) - j
      /\ \A k \in 1 .. Len(s) - j : SubSeq(s, j + 1, Len(s))[k] = s[j + k]
  BY <1>1, SubSeqProperties
<1> QED
  BY <1>2, <1>3

\* std::vector::insert.
LEMMA InsertedFacts ==
    ASSUME NEW S, NEW s \in Seq(S), NEW t \in Seq(S), NEW i \in Nat,
           i <= Len(s)
    PROVE  /\ Inserted(s, i, t) \in Seq(S)
           /\ Len(Inserted(s, i, t)) = Len(s) + Len(t)
           /\ \A k \in 1 .. Len(s) + Len(t) :
                 Inserted(s, i, t)[k] =
                    IF k <= i THEN s[k]
                    ELSE IF k <= i + Len(t) THEN t[k - i] ELSE s[k - Len(t)]
<1> DEFINE front == SubSeq(s, 1, i)
           back == SubSeq(s, i + 1, Len(s))
<1>1. /\ front \in Seq(S) /\ Len(front) = i
      /\ \A k \in 1 .. i : front[k] = s[k]
      /\ back \in Seq(S) /\ Len(back) = Len(s) - i
      /\ \A k \in 1 .. Len(s) - i : back[k] = s[i + k]
      /\ Len(s) \in Nat /\ Len(t) \in Nat
  BY Halves, LenProperties
<1> HIDE DEF front, back
<1>2. /\ front \o t \in Seq(S)
      /\ Len(front \o t) = i + Len(t)
      /\ \A k \in 1 .. i + Len(t) :
            (front \o t)[k] = IF k <= i THEN s[k] ELSE t[k - i]
  <2>1. /\ front \o t \in Seq(S)
        /\ Len(front \o t) = Len(front) + Len(t)
        /\ \A k \in 1 .. Len(front) + Len(t) :
              (front \o t)[k] = IF k <= Len(front) THEN front[k] ELSE t[k - Len(front)]
    BY <1>1, ConcatProperties
  <2> QED
    BY <1>1, <2>1
<1>3. /\ (front \o t) \o back \in Seq(S)
      /\ Len((front \o t) \o back) = Len(s) + Len(t)
      /\ \A k \in 1 .. Len(s) + Len(t) :
            ((front \o t) \o back)[k] =
               IF k <= i + Len(t) THEN (front \o t)[k] ELSE back[k - (i + Len(t))]
  <2> DEFINE u == front \o t
  <2>1. u \in Seq(S) /\ Len(u) = i + Len(t)
    BY <1>2
  <2>5. back \in Seq(S)
    BY <1>1
  <2> HIDE DEF u
  <2>2. /\ u \o back \in Seq(S)
        /\ Len(u \o back) = Len(u) + Len(back)
        /\ \A k \in 1 .. Len(u) + Len(back) :
              (u \o back)[k] = IF k <= Len(u) THEN u[k] ELSE back[k - Len(u)]
    BY ONLY <2>1, <2>5, ConcatProperties, ZenonT(30)
  <2>3. Len(u) + Len(back) = Len(s) + Len(t)
    BY <1>1, <2>1
  <2>4. /\ u \o back \in Seq(S)
        /\ Len(u \o back) = Len(s) + Len(t)
        /\ \A k \in 1 .. Len(s) + Len(t) :
              (u \o back)[k] =
                 IF k <= i + Len(t) THEN u[k] ELSE back[k - (i + Len(t))]
    BY <2>1, <2>2, <2>3
  <2> QED
    BY <2>4 DEF u
<1>4. ASSUME NEW k \in 1 .. Len(s) + Len(t)
      PROVE  ((front \o t) \o back)[k] =
                IF k <= i THEN s[k]
                ELSE IF k <= i + Len(t) THEN t[k - i] ELSE s[k - Len(t)]
  <2>1. CASE k <= i + Len(t)
    <3>1. k \in 1 .. i + Len(t)
      BY <1>1, <2>1
    <3>2. (front \o t)[k] = IF k <= i THEN s[k] ELSE t[k - i]
      BY <1>2, <3>1
    <3>3. ((front \o t) \o back)[k] = (front \o t)[k]
      BY <1>3, <2>1
    <3> QED
      BY <2>1, <3>2, <3>3
  <2>2. CASE ~(k <= i + Len(t))
    <3>1. k - (i + Len(t)) \in 1 .. Len(s) - i
      BY <1>1, <2>2
    <3>2. i + (k - (i + Len(t))) = k - Len(t)
      BY <1>1
    <3>3. ((front \o t) \o back)[k] = back[k - (i + Len(t))]
      BY <1>3, <2>2
    <3>4. back[k - (i + Len(t))] = s[i + (k - (i + Len(t)))]
      BY <1>1, <3>1
    <3>5. ~(k <= i)
      BY <1>1, <2>2
    <3> QED
      BY <2>2, <3>2, <3>3, <3>4, <3>5
  <2> QED
    BY <2>1, <2>2
<1> QED
  BY <1>3, <1>4 DEF Inserted, front, back

\* std::vector::erase.
LEMMA ErasedFacts ==
    ASSUME NEW S, NEW s \in Seq(S), NEW i \in Nat, NEW n \in Nat,
           i + n <= Len(s)
    PROVE  /\ Erased(s, i, n) \in Seq(S)
           /\ Len(Erased(s, i, n)) = Len(s) - n
           /\ \A k \in 1 .. Len(s) - n :
                 Erased(s, i, n)[k] = IF k <= i THEN s[k] ELSE s[k + n]
<1> DEFINE front == SubSeq(s, 1, i)
           back == SubSeq(s, i + n + 1, Len(s))
<1>1. /\ front \in Seq(S) /\ Len(front) = i
      /\ \A k \in 1 .. i : front[k] = s[k]
      /\ back \in Seq(S) /\ Len(back) = Len(s) - (i + n)
      /\ \A k \in 1 .. Len(s) - (i + n) : back[k] = s[i + n + k]
      /\ Len(s) \in Nat
  BY Halves, LenProperties
<1> HIDE DEF front, back
<1>2. /\ front \o back \in Seq(S)
      /\ Len(front \o back) = Len(s) - n
      /\ \A k \in 1 .. Len(s) - n :
            (front \o back)[k] = IF k <= i THEN front[k] ELSE back[k - i]
  BY <1>1, ConcatProperties
<1>3. ASSUME NEW k \in 1 .. Len(s) - n
      PROVE  (front \o back)[k] = IF k <= i THEN s[k] ELSE s[k + n]
  <2>1. CASE k <= i
    BY <1>1, <1>2, <2>1
  <2>2. CASE ~(k <= i)
    <3>1. k - i \in 1 .. Len(s) - (i + n) /\ i + n + (k - i) = k + n
      BY <1>1, <2>2
    <3> QED
      BY <1>1, <1>2, <2>2, <3>1
  <2> QED
    BY <2>1, <2>2
<1> QED
  BY <1>2, <1>3 DEF Erased, front, back

\* std::copy over a part of the vector.
LEMMA OverwrittenFacts ==
    ASSUME NEW S, NEW s \in Seq(S), NEW t \in Seq(S), NEW i \in Nat,
           i + Len(t) <= Len(s)
    PROVE  /\ Overwritten(s, i, t) \in Seq(S)
           /\ Len(Overwritten(s, i, t)) = Len(s)
           /\ \A k \in 1 .. Len(s) :
                 Overwritten(s, i, t)[k] =
                    IF k \in i + 1 .. i + Len(t) THEN t[k - i] ELSE s[k]
<1>1. Len(s) \in Nat /\ Len(t) \in Nat
  BY LenProperties
<1>2. ASSUME NEW k \in 1 .. Len(s)
      PROVE  (IF k \in i + 1 .. i + Len(t) THEN t[k - i] ELSE s[k]) \in S
  <2>1. CASE k \in i + 1 .. i + Len(t)
    <3>1. k - i \in 1 .. Len(t)
      BY <1>1, <2>1
    <3> QED
      BY <2>1, <3>1, ElementOfSeq
  <2>2. CASE k \notin i + 1 .. i + Len(t)
    BY <2>2, ElementOfSeq
  <2> QED
    BY <2>1, <2>2
<1> QED
  BY <1>1, <1>2 DEF Overwritten

\* std::rotate within the vector, and arrayMove where it is defined.
LEMMA RotatedType ==
    ASSUME NEW S, NEW s \in Seq(S), NEW first \in Nat, NEW middle \in Nat,
           NEW last \in Nat,
           first <= middle, middle <= last, last <= Len(s)
    PROVE  Rotated(s, first, middle, last) \in Seq(S)
<1>1. Len(s) \in Nat
  BY LenProperties
<1>2. \A m, n \in Int : 1 <= m /\ n <= Len(s) => SubSeq(s, m, n) \in Seq(S)
  <2>1. ASSUME NEW m \in Int, NEW n \in Int, 1 <= m, n <= Len(s)
        PROVE  SubSeq(s, m, n) \in Seq(S)
    <3>1. \A k \in m .. n : s[k] \in S
      BY <1>1, <2>1, ElementOfSeq
    <3> QED
      BY <3>1, SubSeqProperties
  <2> QED
    BY <2>1
<1>3. /\ SubSeq(s, 1, first) \in Seq(S)
      /\ SubSeq(s, middle + 1, last) \in Seq(S)
      /\ SubSeq(s, first + 1, middle) \in Seq(S)
      /\ SubSeq(s, last + 1, Len(s)) \in Seq(S)
  BY <1>1, <1>2
<1> QED
  BY <1>3, ConcatProperties DEF Rotated

\* Where the elements of two sequences are after they were joined.
JoinedAs(r, s, t, S) ==
    /\ r \in Seq(S)
    /\ Len(r) = Len(s) + Len(t)
    /\ \A k \in 1 .. Len(s) : r[k] = s[k]
    /\ \A k \in 1 .. Len(t) : r[Len(s) + k] = t[k]

LEMMA Joined ==
    ASSUME NEW S, NEW s \in Seq(S), NEW t \in Seq(S), NEW r, r = s \o t
    PROVE  JoinedAs(r, s, t, S)
<1>1. Len(s) \in Nat /\ Len(t) \in Nat
  BY LenProperties
<1>2. /\ r \in Seq(S) /\ Len(r) = Len(s) + Len(t)
      /\ \A k \in 1 .. Len(s) + Len(t) :
            r[k] = IF k <= Len(s) THEN s[k] ELSE t[k - Len(s)]
  BY ConcatProperties
<1>3. ASSUME NEW k \in 1 .. Len(s) PROVE r[k] = s[k]
  BY <1>1, <1>2
<1>4. ASSUME NEW k \in 1 .. Len(t) PROVE r[Len(s) + k] = t[k]
  <2>1. /\ Len(s) + k \in 1 .. Len(s) + Len(t) /\ ~(Len(s) + k <= Len(s))
        /\ Len(s) + k - Len(s) = k
    BY <1>1
  <2> QED
    BY ONLY <1>2, <2>1
<1> QED
  BY <1>2, <1>3, <1>4 DEF JoinedAs

\* The part of a sequence between two positions.
LEMMA PartFacts ==
    ASSUME NEW S, NEW s \in Seq(S), NEW m \in Nat, NEW n \in Nat,
           m <= n, n <= Len(s)
    PROVE  /\ SubSeq(s, m + 1, n) \in Seq(S)
           /\ Len(SubSeq(s, m + 1, n)) = n - m
           /\ \A k \in 1 .. n - m : SubSeq(s, m + 1, n)[k] = s[m + k]
<1>1. Len(s) \in Nat
  BY LenProperties
<1>2. \A k \in m + 1 .. n : s[k] \in S
  BY <1>1, ElementOfSeq
<1>3. /\ SubSeq(s, m + 1, n) \in Seq(S)
      /\ Len(SubSeq(s, m + 1, n)) = IF m + 1 <= n THEN n - (m + 1) + 1 ELSE 0
      /\ \A k \in 1 .. n - (m + 1) + 1 : SubSeq(s, m + 1, n)[k] = s[m + 1 + k - 1]
  <2>1. m + 1 \in Int /\ n \in Int
    OBVIOUS
  <2> QED
    BY ONLY <1>2, <2>1, m \in Nat, n \in Nat, SubSeqProperties
<1>4. (IF m + 1 <= n THEN n - (m + 1) + 1 ELSE 0) = n - m
  OBVIOUS
<1>5. ASSUME NEW k \in 1 .. n - m PROVE SubSeq(s, m + 1, n)[k] = s[m + k]
  <2>1. k \in 1 .. n - (m + 1) + 1 /\ m + 1 + k - 1 = m + k
    OBVIOUS
  <2> QED
    BY ONLY <1>3, <2>1
<1> QED
  BY ONLY <1>3, <1>4, <1>5

RotatedAs(r, s, first, middle, last, S) ==
    /\ r \in Seq(S) /\ Len(r) = Len(s)
    /\ \A k \in 1 .. first : r[k] = s[k]
    /\ \A k \in 1 .. last - middle : r[first + k] = s[middle + k]
    /\ \A k \in 1 .. middle - first : r[first + (last - middle) + k] = s[first + k]
    /\ \A k \in last + 1 .. Len(s) : r[k] = s[k]

LEMMA RotatedFacts ==
    ASSUME NEW S, NEW s \in Seq(S), NEW first \in Nat, NEW middle \in Nat,
           NEW last \in Nat,
           first <= middle, middle <= last, last <= Len(s),
           NEW r, r = Rotated(s, first, middle, last)
    PROVE  RotatedAs(r, s, first, middle, last, S)
<1> DEFINE a == SubSeq(s, 1, first)
           b == SubSeq(s, middle + 1, last)
           c == SubSeq(s, first + 1, middle)
           d == SubSeq(s, last + 1, Len(s))
<1>1. Len(s) \in Nat
  BY LenProperties
<1>2. /\ a \in Seq(S) /\ Len(a) = first
      /\ \A k \in 1 .. first : a[k] = s[k]
  BY <1>1, Halves
<1>3. /\ b \in Seq(S) /\ Len(b) = last - middle
      /\ \A k \in 1 .. last - middle : b[k] = s[middle + k]
  BY ONLY s \in Seq(S), middle \in Nat, last \in Nat, middle <= last,
          last <= Len(s), PartFacts
<1>4. /\ c \in Seq(S) /\ Len(c) = middle - first
      /\ \A k \in 1 .. middle - first : c[k] = s[first + k]
  <2>1. middle <= Len(s)
    BY <1>1
  <2> QED
    BY ONLY <2>1, s \in Seq(S), middle \in Nat, first \in Nat, first <= middle,
            PartFacts
<1>5. /\ d \in Seq(S) /\ Len(d) = Len(s) - last
      /\ \A k \in 1 .. Len(s) - last : d[k] = s[last + k]
  <2>1. Len(s) <= Len(s)
    BY <1>1
  <2> QED
    BY ONLY <1>1, <2>1, s \in Seq(S), last \in Nat, last <= Len(s), PartFacts
<1>6. r = ((a \o b) \o c) \o d
  BY DEF Rotated
<1> HIDE DEF a, b, c, d
<1> DEFINE ab == a \o b
           abc == ab \o c
<1>7. /\ ab \in Seq(S) /\ Len(ab) = first + (last - middle)
      /\ \A k \in 1 .. first : ab[k] = s[k]
      /\ \A k \in 1 .. last - middle : ab[first + k] = s[middle + k]
  <2>1. /\ ab \in Seq(S) /\ Len(ab) = Len(a) + Len(b)
        /\ \A k \in 1 .. Len(a) : ab[k] = a[k]
        /\ \A k \in 1 .. Len(b) : ab[Len(a) + k] = b[k]
    <3>1. ab = a \o b
      OBVIOUS
    <3> HIDE DEF ab
    <3>2. JoinedAs(ab, a, b, S)
      BY ONLY <1>2, <1>3, <3>1, Joined
    <3> QED
      BY ONLY <3>2 DEF JoinedAs
  <2> HIDE DEF ab
  <2> QED
    BY ONLY <1>2, <1>3, <2>1
<1>8. r = (ab \o c) \o d
  BY <1>6
<1> HIDE DEF ab
<1>9. /\ abc \in Seq(S) /\ Len(abc) = last
      /\ \A k \in 1 .. first + (last - middle) : abc[k] = ab[k]
      /\ \A k \in 1 .. middle - first :
            abc[first + (last - middle) + k] = s[first + k]
  <2>1. /\ abc \in Seq(S) /\ Len(abc) = Len(ab) + Len(c)
        /\ \A k \in 1 .. Len(ab) : abc[k] = ab[k]
        /\ \A k \in 1 .. Len(c) : abc[Len(ab) + k] = c[k]
    <3>1. abc = ab \o c
      OBVIOUS
    <3> HIDE DEF abc
    <3>2. JoinedAs(abc, ab, c, S)
      BY ONLY <1>4, <1>7, <3>1, Joined
    <3> QED
      BY ONLY <3>2 DEF JoinedAs
  <2>2. first + (last - middle) + (middle - first) = last
    OBVIOUS
  <2> HIDE DEF abc
  <2> QED
    BY <1>4, <1>7, <2>1, <2>2
<1>10. r = abc \o d
  BY <1>8
<1> HIDE DEF abc
<1>11. /\ r \in Seq(S) /\ Len(r) = Len(s)
       /\ \A k \in 1 .. last : r[k] = abc[k]
       /\ \A k \in 1 .. Len(s) - last : r[last + k] = s[last + k]
  <2>1. /\ r \in Seq(S) /\ Len(r) = Len(abc) + Len(d)
        /\ \A k \in 1 .. Len(abc) : r[k] = abc[k]
        /\ \A k \in 1 .. Len(d) : r[Len(abc) + k] = d[k]
    <3>1. JoinedAs(r, abc, d, S)
      BY ONLY <1>5, <1>9, <1>10, Joined
    <3> QED
      BY ONLY <3>1 DEF JoinedAs
  <2>2. last + (Len(s) - last) = Len(s)
    BY <1>1
  <2> QED
    BY <1>5, <1>9, <2>1, <2>2
<1>12. ASSUME NEW k \in 1 .. first PROVE r[k] = s[k]
  <2>1. k \in 1 .. first + (last - middle) /\ k \in 1 .. last
    OBVIOUS
  <2> QED
    BY <1>7, <1>9, <1>11, <2>1
<1>13. ASSUME NEW k \in 1 .. last - middle PROVE r[first + k] = s[middle + k]
  <2>1. first + k \in 1 .. first + (last - middle) /\ first + k \in 1 .. last
    OBVIOUS
  <2> QED
    BY <1>7, <1>9, <1>11, <2>1
<1>14. ASSUME NEW k \in 1 .. middle - first
       PROVE  r[first + (last - middle) + k] = s[first + k]
  <2>1. first + (last - middle) + k \in 1 .. last
    OBVIOUS
  <2> QED
    BY <1>9, <1>11, <2>1
<1>15. ASSUME NEW k \in last + 1 .. Len(s) PROVE r[k] = s[k]
  <2>1. k - last \in 1 .. Len(s) - last /\ last + (k - last) = k
    BY <1>1
  <2> QED
    BY <1>11, <2>1
<1> QED
  BY ONLY <1>11, <1>12, <1>13, <1>14, <1>15 DEF RotatedAs

LEMMA ArrayMoveType ==
    ASSUME NEW S, NEW s \in Seq(S), NEW i \in Nat, NEW count \in Nat,
           NEW dest \in Nat, ArrayMoveDefined(s, i, count, dest)
    PROVE  ArrayMove(s, i, count, dest) \in Seq(S)
<1>1. Len(s) \in Nat
  BY LenProperties
<1>2. CASE dest < i
  BY <1>1, <1>2, RotatedType DEF ArrayMove, ArrayMoveDefined
<1>3. CASE ~(dest < i)
  <2>1. /\ i <= i + count /\ i + count <= dest + count /\ dest + count <= Len(s)
        /\ i + count \in Nat /\ dest + count \in Nat
    BY <1>1, <1>3 DEF ArrayMoveDefined
  <2>2. Rotated(s, i, i + count, dest + count) \in Seq(S)
    BY <2>1, RotatedType
  <2> QED
    BY <1>3, <2>2 DEF ArrayMove
<1> QED
  BY <1>2, <1>3

----------------------------------------------------------------------------
(***************************************************************************)
(* Execute and undo.                                                       *)
(***************************************************************************)

\* Undoing an insertion restores the vector (VectorInsDelAction::execute and
\* BytesAction::execute with undo).
THEOREM InsertUndone ==
    ASSUME NEW S, NEW s \in Seq(S), NEW t \in Seq(S), NEW i \in Nat,
           i <= Len(s)
    PROVE  Erased(Inserted(s, i, t), i, Len(t)) = s
<1> DEFINE u == Inserted(s, i, t)
<1>1. /\ u \in Seq(S)
      /\ Len(u) = Len(s) + Len(t)
      /\ \A k \in 1 .. Len(s) + Len(t) :
            u[k] = IF k <= i THEN s[k]
                   ELSE IF k <= i + Len(t) THEN t[k - i] ELSE s[k - Len(t)]
      /\ Len(s) \in Nat /\ Len(t) \in Nat
  BY InsertedFacts, LenProperties
<1> HIDE DEF u
<1>2. /\ Erased(u, i, Len(t)) \in Seq(S)
      /\ Len(Erased(u, i, Len(t))) = Len(s)
      /\ \A k \in 1 .. Len(s) :
            Erased(u, i, Len(t))[k] = IF k <= i THEN u[k] ELSE u[k + Len(t)]
  <2>1. /\ u \in Seq(S) /\ Len(t) \in Nat
        /\ i + Len(t) <= Len(u) /\ Len(u) - Len(t) = Len(s)
    BY <1>1
  <2>2. /\ Erased(u, i, Len(t)) \in Seq(S)
        /\ Len(Erased(u, i, Len(t))) = Len(u) - Len(t)
        /\ \A k \in 1 .. Len(u) - Len(t) :
              Erased(u, i, Len(t))[k] = IF k <= i THEN u[k] ELSE u[k + Len(t)]
    <3>0. u \in Seq(S)
      BY <2>1
    <3>1. \A n \in Nat :
             i + n <= Len(u) =>
                /\ Erased(u, i, n) \in Seq(S)
                /\ Len(Erased(u, i, n)) = Len(u) - n
                /\ \A k \in 1 .. Len(u) - n :
                      Erased(u, i, n)[k] = IF k <= i THEN u[k] ELSE u[k + n]
      BY ONLY <3>0, ErasedFacts, ZenonT(30)
    <3> QED
      BY <2>1, <3>1
  <2> QED
    BY <2>1, <2>2
<1>3. ASSUME NEW k \in 1 .. Len(s)
      PROVE  Erased(u, i, Len(t))[k] = s[k]
  <2>1. CASE k <= i
    BY <1>1, <1>2, <2>1
  <2>2. CASE ~(k <= i)
    <3>1. u[k + Len(t)] = s[(k + Len(t)) - Len(t)]
      <4>1. Len(s) \in Nat /\ Len(t) \in Nat
        BY <1>1
      <4>2. /\ k + Len(t) \in 1 .. Len(s) + Len(t)
            /\ ~(k + Len(t) <= i) /\ ~(k + Len(t) <= i + Len(t))
        BY ONLY <4>1, <2>2, k \in 1 .. Len(s), i \in Nat
      <4> QED
        BY <1>1, <4>2, ZenonT(30)
    <3>2. (k + Len(t)) - Len(t) = k
      <4>1. Len(t) \in Nat /\ k \in Int
        BY <1>1
      <4>2. \A a, b \in Int : (a + b) - b = a
        OBVIOUS
      <4> QED
        BY ONLY <4>1, <4>2
    <3> QED
      BY <1>2, <2>2, <3>1, <3>2
  <2> QED
    BY <2>1, <2>2
<1> QED
  BY <1>2, <1>3, SeqEqual DEF u

\* Undoing a removal restores the vector: the action has kept what it took.
THEOREM RemoveUndone ==
    ASSUME NEW S, NEW s \in Seq(S), NEW i \in Nat, NEW n \in Nat,
           i + n <= Len(s)
    PROVE  Inserted(Erased(s, i, n), i, Slice(s, i, n)) = s
<1> DEFINE u == Erased(s, i, n)
           t == Slice(s, i, n)
<1>1. /\ u \in Seq(S)
      /\ Len(u) = Len(s) - n
      /\ \A k \in 1 .. Len(s) - n : u[k] = IF k <= i THEN s[k] ELSE s[k + n]
      /\ t \in Seq(S)
      /\ Len(t) = n
      /\ \A k \in 1 .. n : t[k] = s[i + k]
      /\ Len(s) \in Nat
  <2>1. Len(s) \in Nat
    BY LenProperties
  <2>2. /\ u \in Seq(S)
        /\ Len(u) = Len(s) - n
        /\ \A k \in 1 .. Len(s) - n : u[k] = IF k <= i THEN s[k] ELSE s[k + n]
    BY ErasedFacts, SMTT(60)
  <2>3. /\ t \in Seq(S)
        /\ Len(t) = n
        /\ \A k \in 1 .. n : t[k] = s[i + k]
    BY SliceFacts
  <2> QED
    BY <2>1, <2>2, <2>3
<1> HIDE DEF u, t
<1>2. /\ Inserted(u, i, t) \in Seq(S)
      /\ Len(Inserted(u, i, t)) = Len(s)
      /\ \A k \in 1 .. Len(s) :
            Inserted(u, i, t)[k] =
               IF k <= i THEN u[k] ELSE IF k <= i + n THEN t[k - i] ELSE u[k - n]
  <2>1. /\ u \in Seq(S) /\ t \in Seq(S)
        /\ i <= Len(u) /\ Len(u) + Len(t) = Len(s)
    BY <1>1
  <2>2. /\ Inserted(u, i, t) \in Seq(S)
        /\ Len(Inserted(u, i, t)) = Len(u) + Len(t)
        /\ \A k \in 1 .. Len(u) + Len(t) :
              Inserted(u, i, t)[k] =
                 IF k <= i THEN u[k]
                 ELSE IF k <= i + Len(t) THEN t[k - i] ELSE u[k - Len(t)]
    BY <2>1, InsertedFacts
  <2> QED
    BY <1>1, <2>1, <2>2
<1>3. ASSUME NEW k \in 1 .. Len(s)
      PROVE  Inserted(u, i, t)[k] = s[k]
  <2>1. CASE k <= i
    <3>1. k \in 1 .. Len(s) - n
      BY <1>1, <2>1
    <3> QED
      BY <1>1, <1>2, <2>1, <3>1
  <2>2. CASE ~(k <= i) /\ k <= i + n
    <3>1. k - i \in 1 .. n /\ i + (k - i) = k
      BY <2>2
    <3> QED
      BY <1>1, <1>2, <2>2, <3>1
  <2>3. CASE ~(k <= i + n)
    <3>1. k - n \in 1 .. Len(s) - n /\ ~(k - n <= i) /\ (k - n) + n = k
      BY <1>1, <2>3
    <3>2. ~(k <= i)
      BY <2>3
    <3>3. Inserted(u, i, t)[k] = u[k - n]
      BY <1>2, <2>3, <3>2
    <3>4. u[k - n] = s[(k - n) + n]
      BY <1>1, <3>1
    <3> QED
      BY <3>1, <3>3, <3>4
  <2> QED
    BY <2>1, <2>2, <2>3
<1> QED
  BY <1>1, <1>2, <1>3, SeqEqual DEF u, t

\* Undoing a replacement restores the bytes (BytesReplaceAction::execute).
THEOREM ReplaceUndone ==
    ASSUME NEW S, NEW s \in Seq(S), NEW t \in Seq(S), NEW i \in Nat,
           i + Len(t) <= Len(s)
    PROVE  Overwritten(Overwritten(s, i, t), i, Slice(s, i, Len(t))) = s
<1> DEFINE u == Overwritten(s, i, t)
           old == Slice(s, i, Len(t))
<1>1. /\ u \in Seq(S)
      /\ Len(u) = Len(s)
      /\ \A k \in 1 .. Len(s) :
            u[k] = IF k \in i + 1 .. i + Len(t) THEN t[k - i] ELSE s[k]
      /\ old \in Seq(S)
      /\ Len(old) = Len(t)
      /\ \A k \in 1 .. Len(t) : old[k] = s[i + k]
      /\ Len(s) \in Nat /\ Len(t) \in Nat
  <2>1. Len(s) \in Nat /\ Len(t) \in Nat
    BY LenProperties
  <2>2. /\ u \in Seq(S)
        /\ Len(u) = Len(s)
        /\ \A k \in 1 .. Len(s) :
              u[k] = IF k \in i + 1 .. i + Len(t) THEN t[k - i] ELSE s[k]
    BY OverwrittenFacts
  <2>3. /\ old \in Seq(S)
        /\ Len(old) = Len(t)
        /\ \A k \in 1 .. Len(t) : old[k] = s[i + k]
    BY <2>1, SliceFacts
  <2> QED
    BY <2>1, <2>2, <2>3
<1> HIDE DEF u, old
<1>2. /\ Overwritten(u, i, old) \in Seq(S)
      /\ Len(Overwritten(u, i, old)) = Len(s)
      /\ \A k \in 1 .. Len(s) :
            Overwritten(u, i, old)[k] =
               IF k \in i + 1 .. i + Len(t) THEN old[k - i] ELSE u[k]
  BY <1>1, OverwrittenFacts
<1>3. ASSUME NEW k \in 1 .. Len(s)
      PROVE  Overwritten(u, i, old)[k] = s[k]
  <2>1. CASE k \in i + 1 .. i + Len(t)
    <3>1. k - i \in 1 .. Len(t) /\ i + (k - i) = k
      BY <1>1, <2>1
    <3> QED
      BY <1>1, <1>2, <2>1, <3>1
  <2>2. CASE k \notin i + 1 .. i + Len(t)
    BY <1>1, <1>2, <2>2
  <2> QED
    BY <2>1, <2>2
<1> QED
  BY <1>1, <1>2, <1>3, SeqEqual DEF u, old

\* The positions that a move leaves: the count elements at index stand at dest.
MovedAs(t, s, i, count, dest, S) ==
    /\ t \in Seq(S) /\ Len(t) = Len(s)
    /\ \A k \in 1 .. count : t[dest + k] = s[i + k]
    /\ dest < i =>
          /\ \A k \in 1 .. dest : t[k] = s[k]
          /\ \A k \in 1 .. i - dest : t[dest + count + k] = s[dest + k]
          /\ \A k \in i + count + 1 .. Len(s) : t[k] = s[k]
    /\ dest > i =>
          /\ \A k \in 1 .. i : t[k] = s[k]
          /\ \A k \in 1 .. dest - i : t[i + k] = s[i + count + k]
          /\ \A k \in dest + count + 1 .. Len(s) : t[k] = s[k]

LEMMA ArrayMoveFacts ==
    ASSUME NEW S, NEW s \in Seq(S), NEW i \in Nat, NEW count \in Nat,
           NEW dest \in Nat, ArrayMoveDefined(s, i, count, dest),
           NEW t, t = ArrayMove(s, i, count, dest)
    PROVE  MovedAs(t, s, i, count, dest, S)
<1>1. Len(s) \in Nat
  BY LenProperties
<1>2. CASE dest < i
  <2>1. /\ dest <= i /\ i <= i + count /\ i + count <= Len(s) /\ i + count \in Nat
        /\ i + count - i = count
    BY <1>1, <1>2 DEF ArrayMoveDefined
  <2>2. t = Rotated(s, dest, i, i + count)
    BY <1>2 DEF ArrayMove
  <2>3. /\ t \in Seq(S) /\ Len(t) = Len(s)
        /\ \A k \in 1 .. dest : t[k] = s[k]
        /\ \A k \in 1 .. i + count - i : t[dest + k] = s[i + k]
        /\ \A k \in 1 .. i - dest : t[dest + (i + count - i) + k] = s[dest + k]
        /\ \A k \in i + count + 1 .. Len(s) : t[k] = s[k]
    <3> DEFINE m == i + count
    <3>1. m \in Nat /\ dest <= i /\ i <= m /\ m <= Len(s)
      BY <2>1
    <3> HIDE DEF m
    <3>2. s \in Seq(S) /\ i \in Nat /\ dest \in Nat
      OBVIOUS
    <3>3. t = Rotated(s, dest, i, m)
      BY ONLY <2>2 DEF m
    <3>4. RotatedAs(t, s, dest, i, m, S)
      BY ONLY <3>1, <3>2, <3>3, RotatedFacts
    <3> QED
      BY ONLY <3>4 DEF RotatedAs, m
  <2>4. ~(dest > i)
    BY <1>2
  <2>5. /\ t \in Seq(S) /\ Len(t) = Len(s)
        /\ \A k \in 1 .. dest : t[k] = s[k]
        /\ \A k \in 1 .. count : t[dest + k] = s[i + k]
        /\ \A k \in 1 .. i - dest : t[dest + count + k] = s[dest + k]
        /\ \A k \in i + count + 1 .. Len(s) : t[k] = s[k]
    BY ONLY <2>1, <2>3
  <2> QED
    BY ONLY <2>4, <2>5 DEF MovedAs
<1>3. CASE dest > i
  <2>1. /\ i <= i + count /\ i + count <= dest + count /\ dest + count <= Len(s)
        /\ i + count \in Nat /\ dest + count \in Nat
        /\ i + count - i = count /\ dest + count - (i + count) = dest - i
        /\ i + (dest - i) = dest
    BY <1>1, <1>3 DEF ArrayMoveDefined
  <2>2. t = Rotated(s, i, i + count, dest + count)
    BY <1>3 DEF ArrayMove
  <2>3. /\ t \in Seq(S) /\ Len(t) = Len(s)
        /\ \A k \in 1 .. i : t[k] = s[k]
        /\ \A k \in 1 .. dest + count - (i + count) : t[i + k] = s[i + count + k]
        /\ \A k \in 1 .. i + count - i :
              t[i + (dest + count - (i + count)) + k] = s[i + k]
        /\ \A k \in dest + count + 1 .. Len(s) : t[k] = s[k]
    <3> DEFINE m == i + count
           l == dest + count
    <3>1. m \in Nat /\ l \in Nat /\ i <= m /\ m <= l /\ l <= Len(s)
      BY <2>1
    <3> HIDE DEF m, l
    <3>2. s \in Seq(S) /\ i \in Nat /\ dest \in Nat
      OBVIOUS
    <3>3. t = Rotated(s, i, m, l)
      BY ONLY <2>2 DEF m, l
    <3>4. RotatedAs(t, s, i, m, l, S)
      BY ONLY <3>1, <3>2, <3>3, RotatedFacts
    <3> QED
      BY ONLY <3>4 DEF RotatedAs, m, l
  <2>4. ~(dest < i)
    BY <1>3
  <2>5. /\ t \in Seq(S) /\ Len(t) = Len(s)
        /\ \A k \in 1 .. i : t[k] = s[k]
        /\ \A k \in 1 .. dest - i : t[i + k] = s[i + count + k]
        /\ \A k \in 1 .. count : t[dest + k] = s[i + k]
        /\ \A k \in dest + count + 1 .. Len(s) : t[k] = s[k]
    BY ONLY <2>1, <2>3
  <2> QED
    BY ONLY <2>4, <2>5 DEF MovedAs
<1>4. dest # i
  BY DEF ArrayMoveDefined
<1> QED
  BY <1>2, <1>3, <1>4

\* Moving back from where the elements are now to where they were restores the
\* vector: arrayMove with its index and its destination exchanged.
THEOREM MoveUndone ==
    ASSUME NEW S, NEW s \in Seq(S), NEW i \in Nat, NEW count \in Nat,
           NEW dest \in Nat, ArrayMoveDefined(s, i, count, dest)
    PROVE  /\ ArrayMoveDefined(ArrayMove(s, i, count, dest), dest, count, i)
           /\ ArrayMove(ArrayMove(s, i, count, dest), dest, count, i) = s
<1> DEFINE t == ArrayMove(s, i, count, dest)
           u == ArrayMove(t, dest, count, i)
<1>1. Len(s) \in Nat /\ dest # i
  BY LenProperties DEF ArrayMoveDefined
<1>2. t = ArrayMove(s, i, count, dest)
  OBVIOUS
<1> HIDE DEF t
<1>3. MovedAs(t, s, i, count, dest, S)
  BY ONLY s \in Seq(S), i \in Nat, count \in Nat, dest \in Nat,
          ArrayMoveDefined(s, i, count, dest), <1>2, ArrayMoveFacts
<1>4. /\ t \in Seq(S) /\ Len(t) = Len(s)
      /\ \A k \in 1 .. count : t[dest + k] = s[i + k]
      /\ dest < i =>
            /\ \A k \in 1 .. dest : t[k] = s[k]
            /\ \A k \in 1 .. i - dest : t[dest + count + k] = s[dest + k]
            /\ \A k \in i + count + 1 .. Len(s) : t[k] = s[k]
      /\ dest > i =>
            /\ \A k \in 1 .. i : t[k] = s[k]
            /\ \A k \in 1 .. dest - i : t[i + k] = s[i + count + k]
            /\ \A k \in dest + count + 1 .. Len(s) : t[k] = s[k]
  BY ONLY <1>3 DEF MovedAs
<1>5. ArrayMoveDefined(t, dest, count, i)
  BY <1>1, <1>4 DEF ArrayMoveDefined
<1>6. u = ArrayMove(t, dest, count, i)
  OBVIOUS
<1> HIDE DEF u
<1>7. MovedAs(u, t, dest, count, i, S)
  BY ONLY <1>4, <1>5, <1>6, i \in Nat, count \in Nat, dest \in Nat, ArrayMoveFacts
<1>8. /\ u \in Seq(S) /\ Len(u) = Len(t)
      /\ \A k \in 1 .. count : u[i + k] = t[dest + k]
      /\ i < dest =>
            /\ \A k \in 1 .. i : u[k] = t[k]
            /\ \A k \in 1 .. dest - i : u[i + count + k] = t[i + k]
            /\ \A k \in dest + count + 1 .. Len(t) : u[k] = t[k]
      /\ i > dest =>
            /\ \A k \in 1 .. dest : u[k] = t[k]
            /\ \A k \in 1 .. i - dest : u[dest + k] = t[dest + count + k]
            /\ \A k \in i + count + 1 .. Len(t) : u[k] = t[k]
  BY ONLY <1>7 DEF MovedAs
<1>9. ASSUME NEW k \in 1 .. Len(s) PROVE u[k] = s[k]
  <2>1. CASE k \in i + 1 .. i + count
    <3>1. k - i \in 1 .. count /\ i + (k - i) = k
      BY <1>1, <2>1
    <3>2. /\ t[dest + (k - i)] = s[i + (k - i)]
          /\ u[i + (k - i)] = t[dest + (k - i)]
      BY ONLY <1>4, <1>8, <3>1
    <3> QED
      BY ONLY <3>1, <3>2
  <2>2. CASE k \notin i + 1 .. i + count /\ dest < i
    <3>1. CASE k \in 1 .. dest
      BY <1>4, <1>8, <2>2, <3>1
    <3>2. CASE k \in i + count + 1 .. Len(s)
      BY <1>4, <1>8, <2>2, <3>2
    <3>3. CASE k \in dest + 1 .. i
      <4>1. k - dest \in 1 .. i - dest /\ dest + (k - dest) = k /\ i > dest
        BY <2>2, <3>3
      <4>2. /\ t[dest + count + (k - dest)] = s[dest + (k - dest)]
            /\ u[dest + (k - dest)] = t[dest + count + (k - dest)]
        BY ONLY <1>4, <1>8, <2>2, <4>1
      <4> QED
        BY ONLY <4>1, <4>2
    <3> QED
      BY <1>1, <2>2, <3>1, <3>2, <3>3
  <2>3. CASE k \notin i + 1 .. i + count /\ dest > i
    <3>1. CASE k \in 1 .. i
      BY <1>4, <1>8, <2>3, <3>1
    <3>2. CASE k \in dest + count + 1 .. Len(s)
      BY <1>4, <1>8, <2>3, <3>2
    <3>3. CASE k \in i + count + 1 .. dest + count
      <4>1. /\ k - (i + count) \in 1 .. dest - i /\ i + count + (k - (i + count)) = k
            /\ i < dest
        BY <2>3, <3>3
      <4> DEFINE e == k - (i + count)
      <4>2. t[i + e] = s[i + count + e] /\ u[i + count + e] = t[i + e]
        BY ONLY <1>4, <1>8, <2>3, <4>1
      <4> QED
        BY ONLY <4>1, <4>2
    <3> QED
      BY <1>1, <2>3, <3>1, <3>2, <3>3
  <2> QED
    BY <1>1, <2>1, <2>2, <2>3
<1>10. u = s
  BY ONLY <1>4, <1>8, <1>9, s \in Seq(S), SeqEqual
<1> QED
  BY ONLY <1>5, <1>10 DEF t, u
=============================================================================
