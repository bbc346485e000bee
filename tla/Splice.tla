------------------------------- MODULE Splice -------------------------------
(***************************************************************************)
(* The std::vector operations that the actions of VectorNode and BytesNode *)
(* are made of.  Positions count from 0, as in the source; the sequences   *)
(* of TLA+ from 1.                                                         *)
(***************************************************************************)
EXTENDS Integers, Sequences

\* vector(begin + i, begin + i + n)
Slice(s, i, n) == SubSeq(s, i + 1, i + n)

\* Slip: the position is not used.
AppendedInstead(s, i, t) == s \o t

\* insert(begin + i, t.begin(), t.end())
Inserted(s, i, t) == SubSeq(s, 1, i) \o t \o SubSeq(s, i + 1, Len(s))

\* erase(begin + i, begin + i + n)
Erased(s, i, n) == SubSeq(s, 1, i) \o SubSeq(s, i + n + 1, Len(s))

\* std::copy(t.begin(), t.end(), begin + i)
Overwritten(s, i, t) ==
    [k \in 1 .. Len(s) |-> IF k \in i + 1 .. i + Len(t) THEN t[k - i] ELSE s[k]]

\* std::rotate(begin + first, begin + middle, begin + last)
Rotated(s, first, middle, last) ==
    SubSeq(s, 1, first) \o SubSeq(s, middle + 1, last)
        \o SubSeq(s, first + 1, middle) \o SubSeq(s, last + 1, Len(s))

\* validateArrayQueryArguments, validateArrayRemoveArguments
ValidQuery(i, size) == i \in 0 .. size
ValidRemove(i, n, size) == i \in 0 .. size - 1 /\ n \in 1 .. size - i

\* arrayMove: where its iterators stay inside the vector and its assertion
\* holds, and what it does then.
ArrayMoveDefined(s, index, count, dest) ==
    /\ dest # index
    /\ (IF dest < index THEN index ELSE dest) + count <= Len(s)

ArrayMove(s, index, count, dest) ==
    IF dest < index
    THEN Rotated(s, dest, index, index + count)
    ELSE Rotated(s, index, index + count, dest + count)
=============================================================================
