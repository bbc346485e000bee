------------------------- MODULE BinaryStreamProofs -------------------------
(***************************************************************************)
(* What was written is read back, and a file that was cut is noticed: for  *)
(* any values, any strings, containers of any length, and a cut at any     *)
(* byte.                                                                   *)
(***************************************************************************)
EXTENDS BinaryStream, SpliceProofs

\* OBinaryStream writes four bytes for a bool, of which IBinaryStream reads one:
\* a program that uses both does not put a bool itself into the stream.
NoBool == \A shape \in Shapes : \A k \in DOMAIN shape.fields : shape.fields[k] # "bool"

\* An empty string is not read into a variable that holds another one.
EmptyKept == <<>> \in Strings => Kept \subseteq {<<>>}

\* The types that are read as they are written.
Plainly == Scalar \ {"bool"}

\* What a file is made of.
Byte ==
    {<<"number", v, k>> : v \in Nat, k \in 1 .. 8}
        \cup {<<"char", k>> : k \in Nat} \cup {<<"pad">>}
        \cup UNION {{s[k] : k \in DOMAIN s} : s \in Strings}

\* From position p on the file has q, as far as it goes.
Written(q, p) == \A k \in 1 .. Len(q) : p + k <= Len(bytes) => bytes[p + k] = q[k]

\* A stream that is good, at p, and one that has failed.
Stands(s, p) == s \in [pos : {p}, fail : {FALSE}, eof : {FALSE}]
Failed(s) == s \in [pos : Int, fail : {TRUE}, eof : BOOLEAN]

\* The result of reading at p what is n bytes long: v, or one of B if the file
\* ends before.
Outcome(r, p, n, v, B) ==
    /\ p + n <= Len(bytes) => Stands(r.in, p + n) /\ r.value = v
    /\ p + n > Len(bytes) => Failed(r.in) /\ r.value \in B

\* What a read of v, a t, leaves in a variable that held `kept', and what it
\* leaves if the stream fails.
After(t, v, kept) == IF t = "string" /\ v = <<>> THEN kept ELSE v
Spared(t, kept) == IF t = "string" THEN {kept} ELSE {0}

----------------------------------------------------------------------------
(***************************************************************************)
(* The stream.                                                             *)
(***************************************************************************)
LEMMA StandsFacts ==
    ASSUME NEW s, NEW p, Stands(s, p)
    PROVE  s.pos = p /\ Good(s) /\ ~s.fail /\ ~s.eof /\ Told(s) = s /\ Tell(s) = p
<1>1. s.pos = p /\ s.fail = FALSE /\ s.eof = FALSE
  BY DEF Stands
<1>2. [s EXCEPT !.fail = FALSE] = s
  BY <1>1 DEF Stands
<1> QED
  BY <1>1, <1>2 DEF Good, Told, Sentry, Tell

LEMMA ReadFacts ==
    ASSUME bytes \in Seq(Byte), NEW s, NEW p \in Nat, NEW n \in Nat, Stands(s, p)
    PROVE  /\ p + n <= Len(bytes) => Stands(Read(s, n), p + n)
           /\ p + n > Len(bytes) => Failed(Read(s, n))
<1>1. Good(s) /\ s.pos = p
  BY StandsFacts
<1>2. CASE p + n <= Len(bytes)
  <2>1. Read(s, n) = [s EXCEPT !.pos = @ + n]
    BY <1>1, <1>2 DEF Read
  <2>2. Read(s, n) = [s EXCEPT !.pos = p + n]
    BY <1>1, <2>1
  <2>3. Stands(Read(s, n), p + n)
    BY <2>2 DEF Stands
  <2> QED
    BY <1>2, <2>3, LenProperties
<1>3. CASE ~(p + n <= Len(bytes))
  <2>1. Read(s, n) = [pos |-> Len(bytes), fail |-> TRUE, eof |-> TRUE]
    BY <1>1, <1>3 DEF Read
  <2>2. Len(bytes) \in Int
    BY LenProperties
  <2> QED
    BY <1>3, <2>1, <2>2 DEF Failed
<1> QED
  BY <1>2, <1>3, LenProperties

LEMMA SkipFacts ==
    ASSUME bytes \in Seq(Byte), NEW s, NEW p \in Nat, NEW n \in Nat, Stands(s, p)
    PROVE  /\ p + n <= Len(bytes) => Stands(SkipRaw(s, n), p + n)
           /\ p + n <= Len(bytes) => Stands(Ignore(s, n), p + n)
           /\ p + n > Len(bytes) => Failed(SkipRaw(s, n)) /\ Tell(Ignore(s, n)) = -1
<1>1. Good(s) /\ s.pos = p /\ Told(s) = s
  BY StandsFacts
<1>2. CASE p + n <= Len(bytes)
  <2>1. Ignore(s, n) = [s EXCEPT !.pos = @ + n]
    BY <1>1, <1>2 DEF Ignore
  <2>2. Stands(Ignore(s, n), p + n)
    BY <1>2, <2>1 DEF Stands
  <2>3. SkipRaw(s, n) = Ignore(s, n)
    BY <1>1, <2>2, StandsFacts DEF SkipRaw
  <2> QED
    BY <1>2, <2>2, <2>3, LenProperties
<1>3. CASE ~(p + n <= Len(bytes))
  <2>1. Ignore(s, n) = [pos |-> Len(bytes), fail |-> FALSE, eof |-> TRUE]
    BY <1>1, <1>3 DEF Ignore
  <2>2. /\ ~Good(Ignore(s, n))
        /\ Ignore(s, n) \in [pos : Int, fail : BOOLEAN, eof : BOOLEAN]
    BY <2>1, LenProperties DEF Good
  <2>3. Told(Ignore(s, n)) = [Ignore(s, n) EXCEPT !.fail = TRUE]
    BY <2>2 DEF Told, Sentry
  <2>4. Failed(Told(Ignore(s, n))) /\ Told(Ignore(s, n)).fail
    BY <2>2, <2>3 DEF Failed
  <2>5. Failed(SkipRaw(s, n)) /\ Tell(Ignore(s, n)) = -1
    BY <1>1, <2>4 DEF SkipRaw, Tell
  <2> QED
    BY <1>3, <2>5
<1> QED
  BY <1>2, <1>3

\* What has failed does not recover.
LEMMA FailedStays ==
    ASSUME NEW s, Failed(s), NEW n
    PROVE  /\ Read(s, n) = s /\ Ignore(s, n) = s /\ Told(s) = s /\ SkipRaw(s, n) = s
           /\ s.fail /\ ~Good(s) /\ Tell(s) = -1
<1>1. s.fail = TRUE
  BY DEF Failed
<1>2. ~Good(s)
  BY <1>1 DEF Good
<1>3. [s EXCEPT !.fail = TRUE] = s
  BY <1>1 DEF Failed
<1>4. Sentry(s) = s
  BY <1>2, <1>3 DEF Sentry
<1> QED
  BY <1>1, <1>2, <1>4 DEF Read, Ignore, Told, SkipRaw, Tell

----------------------------------------------------------------------------
(***************************************************************************)
(* Numbers.                                                                *)
(***************************************************************************)
LEMMA WidthFacts ==
    ASSUME NEW t \in Plainly
    PROVE  WriteWidth(t) \in {1, 2, 4, 8} /\ ReadWidth(t) = WriteWidth(t)
BY DEF Plainly, Scalar, WriteWidth, ReadWidth

LEMMA NumberFacts ==
    ASSUME NEW t \in Plainly, NEW v
    PROVE  /\ Len(NumberBytes(t, v)) = WriteWidth(t)
           /\ \A k \in 1 .. WriteWidth(t) : NumberBytes(t, v)[k] = <<"number", v, k>>
           /\ v \in Nat => NumberBytes(t, v) \in Seq(Byte)
<1> DEFINE w == WriteWidth(t)
<1>1. w \in {1, 2, 4, 8}
  BY WidthFacts
<1>2. NumberBytes(t, v) = [k \in 1 .. w |-> <<"number", v, k>>]
  BY DEF NumberBytes
<1> HIDE DEF w
<1>3. ASSUME v \in Nat PROVE \A k \in 1 .. w : <<"number", v, k>> \in Byte
  BY <1>1, <1>3 DEF Byte
<1>5. [k \in 1 .. w |-> <<"number", v, k>>] \in Seq({<<"number", v, k>> : k \in 1 .. w})
  BY <1>1
<1>4. Len(NumberBytes(t, v)) = w
  BY <1>1, <1>2
<1> QED
  BY <1>1, <1>2, <1>3, <1>4 DEF w

\* substate_readNum
LEMMA NumberRead ==
    ASSUME bytes \in Seq(Byte), NEW t \in Plainly, NEW v, NEW s, NEW p \in Nat,
           Stands(s, p), Written(NumberBytes(t, v), p)
    PROVE  Outcome(ReadNumber(s, t), p, Len(NumberBytes(t, v)), v, {0})
<1> DEFINE w == WriteWidth(t)
           q == NumberBytes(t, v)
           r == ReadNumber(s, t)
<1>1. /\ w \in Nat /\ w >= 1 /\ ReadWidth(t) = w /\ Len(q) = w
      /\ \A k \in 1 .. w : q[k] = <<"number", v, k>>
  BY WidthFacts, NumberFacts
<1>2. /\ r.in = Read(s, w)
      /\ r.value = IF Read(s, w).fail THEN 0 ELSE Decoded(p, w)
  BY <1>1, StandsFacts DEF ReadNumber, Result
<1>3. Len(bytes) \in Nat
  BY LenProperties
<1> HIDE DEF w, q, r
<1>4. CASE p + w <= Len(bytes)
  <2>1. Stands(Read(s, w), p + w) /\ ~Read(s, w).fail
    BY <1>1, <1>4, ReadFacts, StandsFacts
  <2>2. \A k \in 1 .. w : bytes[p + k] = <<"number", v, k>>
    BY <1>1, <1>3, <1>4 DEF Written, q
  <2>3. bytes[p + 1] = <<"number", v, 1>>
    BY <1>1, <2>2
  <2>4. bytes[p + 1][2] = v
    BY <2>3
  <2>5. SubSeq(bytes, p + 1, p + w) = [k \in 1 .. w |-> <<"number", v, k>>]
    <3>1. \A k \in p + 1 .. p + w : bytes[k] \in Byte
      BY <1>1, <1>3, <1>4, ElementOfSeq
    <3>2. /\ SubSeq(bytes, p + 1, p + w) \in Seq(Byte)
          /\ Len(SubSeq(bytes, p + 1, p + w)) = w
          /\ \A k \in 1 .. w : SubSeq(bytes, p + 1, p + w)[k] = bytes[p + k]
      BY <1>1, <1>3, <1>4, SliceFacts DEF Slice
    <3> DEFINE u == SubSeq(bytes, p + 1, p + w)
    <3>3. DOMAIN u = 1 .. w /\ u = [k \in 1 .. w |-> u[k]]
      BY <3>2
    <3>4. \A k \in 1 .. w : u[k] = <<"number", v, k>>
      BY <2>2, <3>2
    <3> HIDE DEF u
    <3>5. u = [k \in 1 .. w |-> <<"number", v, k>>]
      BY <3>3, <3>4
    <3> QED
      BY <3>5 DEF u
  <2>6. Decoded(p, w) = v
    BY <2>4, <2>5 DEF Decoded
  <2> QED
    BY <1>1, <1>2, <1>4, <2>1, <2>6 DEF Outcome, q, r
<1>5. CASE ~(p + w <= Len(bytes))
  <2>1. Failed(Read(s, w))
    BY <1>1, <1>3, <1>5, ReadFacts
  <2>2. Read(s, w).fail
    BY <2>1, FailedStays
  <2> QED
    BY <1>1, <1>2, <1>5, <2>1, <2>2 DEF Outcome, q, r
<1> QED
  BY <1>4, <1>5

LEMMA NumberFailed ==
    ASSUME NEW t, NEW s, Failed(s)
    PROVE  Failed(ReadNumber(s, t).in) /\ ReadNumber(s, t).value = 0
<1>1. Read(s, ReadWidth(t)) = s /\ s.fail
  BY FailedStays
<1> QED
  BY <1>1 DEF ReadNumber, Result

----------------------------------------------------------------------------
(***************************************************************************)
(* Strings, and with them all scalars.                                     *)
(***************************************************************************)
LEMMA ConcatParts ==
    ASSUME NEW S, NEW a \in Seq(S), NEW b \in Seq(S)
    PROVE  /\ a \o b \in Seq(S) /\ Len(a \o b) = Len(a) + Len(b)
           /\ \A k \in 1 .. Len(a) : (a \o b)[k] = a[k]
           /\ \A k \in 1 .. Len(b) : (a \o b)[Len(a) + k] = b[k]
           /\ Len(a) \in Nat /\ Len(b) \in Nat
BY ConcatProperties, LenProperties

LEMMA WrittenParts ==
    ASSUME bytes \in Seq(Byte), NEW a \in Seq(Byte), NEW b \in Seq(Byte), NEW p \in Nat,
           Written(a \o b, p)
    PROVE  Written(a, p) /\ Written(b, p + Len(a))
<1>1. /\ Len(a \o b) = Len(a) + Len(b)
      /\ \A k \in 1 .. Len(a) : (a \o b)[k] = a[k]
      /\ \A k \in 1 .. Len(b) : (a \o b)[Len(a) + k] = b[k]
      /\ Len(a) \in Nat /\ Len(b) \in Nat /\ Len(bytes) \in Nat
  BY ConcatParts, LenProperties
<1> DEFINE q == a \o b
<1>2. \A k \in 1 .. Len(q) : p + k <= Len(bytes) => bytes[p + k] = q[k]
  BY DEF Written
<1> HIDE DEF q
<1>3. ASSUME NEW k \in 1 .. Len(a), p + k <= Len(bytes) PROVE bytes[p + k] = a[k]
  <2>1. k \in 1 .. Len(q) /\ q[k] = a[k]
    BY <1>1 DEF q
  <2> QED
    BY <1>2, <1>3, <2>1
<1>4. ASSUME NEW k \in 1 .. Len(b), p + Len(a) + k <= Len(bytes)
      PROVE  bytes[p + Len(a) + k] = b[k]
  <2>1. Len(a) + k \in 1 .. Len(q) /\ q[Len(a) + k] = b[k]
    BY <1>1 DEF q
  <2>2. p + (Len(a) + k) = p + Len(a) + k
    BY <1>1
  <2> QED
    BY <1>2, <1>4, <2>1, <2>2
<1> QED
  BY <1>3, <1>4 DEF Written

LEMMA PadFacts ==
    ASSUME NEW len \in Nat, NEW size \in Nat \ {0}
    PROVE  Pad(len, size) \in Nat
<1>1. len % size \in 0 .. size - 1
  OBVIOUS
<1> QED
  BY <1>1 DEF Pad

LEMMA PaddingFacts ==
    ASSUME NEW n \in Nat
    PROVE  Padding(n) \in Seq(Byte) /\ Len(Padding(n)) = n
<1>1. <<"pad">> \in Byte
  BY DEF Byte
<1> QED
  BY <1>1 DEF Padding

LEMMA StringFacts ==
    ASSUME NEW v \in Strings
    PROVE  v \in Seq(Byte) /\ Len(v) \in Nat /\ (Len(v) = 0 <=> v = <<>>)
<1>1. v \in Seq({v[k] : k \in DOMAIN v})
  BY BinaryStreamAssumption
<1>2. {v[k] : k \in DOMAIN v} \subseteq Byte
  BY DEF Byte
<1>3. v \in Seq(Byte)
  <2>1. Len(v) \in Nat /\ DOMAIN v = 1 .. Len(v) /\ v = [k \in 1 .. Len(v) |-> v[k]]
    BY <1>1
  <2>2. \A k \in 1 .. Len(v) : v[k] \in Byte
    BY <1>2, <2>1
  <2> QED
    BY <2>1, <2>2
<1> QED
  BY <1>3, EmptySeq, LenProperties

\* operator>> of a string
LEMMA StringRead ==
    ASSUME bytes \in Seq(Byte), NEW v \in Strings, NEW kept, NEW s, NEW p \in Nat,
           Stands(s, p), Written(StringBytes(v), p)
    PROVE  Outcome(ReadString(s, kept), p, Len(StringBytes(v)),
                   After("string", v, kept), {kept})
<1> DEFINE n == Len(v)
           a == NumberBytes("int32", n)
           pad == Pad(n, DATA_ALIGN)
           size == ReadNumber(s, "int32")
           chars == Read(size.in, size.value)
           after == IF pad = 0 THEN chars ELSE SkipRaw(chars, pad)
           r == ReadString(s, kept)
<1>1. v \in Seq(Byte) /\ n \in Nat /\ (n = 0 <=> v = <<>>)
  BY StringFacts
<1>2. "int32" \in Plainly /\ WriteWidth("int32") = 4
  BY DEF Plainly, Scalar, WriteWidth
<1>3. a \in Seq(Byte) /\ Len(a) = 4
  BY <1>1, <1>2, NumberFacts
<1>4. pad \in Nat
  BY <1>1, PadFacts DEF DATA_ALIGN
<1>5. Padding(pad) \in Seq(Byte) /\ Len(Padding(pad)) = pad
  BY <1>4, PaddingFacts
<1>6. Len(bytes) \in Nat
  BY LenProperties
<1>7. /\ Written(a, p) /\ Written(v, p + 4)
      /\ Len(StringBytes(v)) = 4 + n + pad
  <2>1. StringBytes(v) = (a \o v) \o Padding(pad)
    BY DEF StringBytes
  <2>5. Len(v) = n
    OBVIOUS
  <2> HIDE DEF a, pad, n
  <2>6. a \o v \in Seq(Byte) /\ Len(a \o v) = Len(a) + Len(v)
    BY <1>1, <1>3, ConcatProperties
  <2>2. a \o v \in Seq(Byte) /\ Len(a \o v) = 4 + n
    BY <1>3, <2>5, <2>6
  <2>3. Written(a \o v, p)
    BY <1>5, <2>1, <2>2, WrittenParts
  <2>4. Len(StringBytes(v)) = Len(a \o v) + Len(Padding(pad))
    BY <1>5, <2>1, <2>2, ConcatProperties
  <2> QED
    BY <1>1, <1>3, <1>4, <1>5, <2>2, <2>3, <2>4, WrittenParts
<1>8. Outcome(size, p, 4, n, {0})
  BY <1>2, <1>3, <1>7, NumberRead
<1>9. r = IF size.in.fail \/ size.value = 0 THEN Result(size.in, kept)
          ELSE Result(after, IF Good(after) THEN SubSeq(bytes, size.in.pos + 1, chars.pos)
                             ELSE kept)
  <2>1. size.value = n => pad = Pad(size.value, DATA_ALIGN)
    OBVIOUS
  <2>2. p + 4 > Len(bytes) => size.in.fail
    BY <1>8, FailedStays DEF Outcome
  <2>3. size.in.fail \/ size.value = n
    BY <1>6, <1>8, <2>2 DEF Outcome
  <2> HIDE DEF n
  <2> QED
    BY <2>1, <2>3 DEF ReadString
<1>10. After("string", v, kept) = IF n = 0 THEN kept ELSE v
  BY <1>1 DEF After
<1> HIDE DEF n, a, pad, size, chars, after, r
<1>11. CASE p + 4 > Len(bytes)
  <2>1. Failed(size.in) /\ size.in.fail
    BY <1>8, <1>11, FailedStays DEF Outcome
  <2>2. r = Result(size.in, kept)
    BY <1>9, <2>1
  <2>3. ~(p + (4 + n + pad) <= Len(bytes))
    BY <1>1, <1>4, <1>6, <1>11
  <2> QED
    BY <1>7, <2>1, <2>2, <2>3 DEF Outcome, Result, r
<1>12. CASE p + 4 <= Len(bytes) /\ n = 0
  <2>1. Stands(size.in, p + 4) /\ size.value = 0
    BY <1>8, <1>12 DEF Outcome
  <2>2. r = Result(size.in, kept)
    BY <1>9, <2>1
  <2>3. pad = 0
    BY <1>12 DEF pad, Pad, DATA_ALIGN
  <2>4. 4 + n + pad = 4
    BY <1>12, <2>3
  <2> QED
    BY <1>6, <1>7, <1>10, <1>12, <2>1, <2>2, <2>4 DEF Outcome, Result, r
<1>13. CASE p + 4 <= Len(bytes) /\ n # 0
  <2>1. Stands(size.in, p + 4) /\ size.value = n /\ p + 4 \in Nat
    BY <1>8, <1>13 DEF Outcome
  <2>2. ~size.in.fail /\ size.in.pos = p + 4
    BY <2>1, StandsFacts
  <2>3. r = Result(after, IF Good(after) THEN SubSeq(bytes, p + 4 + 1, chars.pos) ELSE kept)
    BY <1>9, <1>13, <2>1, <2>2
  <2>4. /\ p + 4 + n <= Len(bytes) => Stands(chars, p + 4 + n)
        /\ p + 4 + n > Len(bytes) => Failed(chars)
    BY <1>1, <2>1, ReadFacts DEF chars
  <2>5. CASE p + 4 + n > Len(bytes)
    <3>1. Failed(chars) /\ SkipRaw(chars, pad) = chars /\ ~Good(chars)
      BY <2>4, <2>5, FailedStays
    <3>2. after = chars
      BY <3>1 DEF after
    <3>3. r = Result(chars, kept)
      BY <2>3, <3>1, <3>2
    <3>4. ~(p + (4 + n + pad) <= Len(bytes))
      BY <1>1, <1>4, <1>6, <2>5
    <3> QED
      BY <1>7, <3>1, <3>3, <3>4 DEF Outcome, Result, r
  <2>6. CASE p + 4 + n <= Len(bytes)
    <3>1. Stands(chars, p + 4 + n) /\ chars.pos = p + 4 + n /\ p + 4 + n \in Nat
      BY <1>1, <2>4, <2>6, StandsFacts
    <3>2. SubSeq(bytes, p + 4 + 1, p + 4 + n) = v
      <4>1. /\ SubSeq(bytes, p + 4 + 1, p + 4 + n) \in Seq(Byte)
            /\ Len(SubSeq(bytes, p + 4 + 1, p + 4 + n)) = n
            /\ \A k \in 1 .. n : SubSeq(bytes, p + 4 + 1, p + 4 + n)[k] = bytes[p + 4 + k]
        BY <1>1, <2>1, <2>6, SliceFacts DEF Slice
      <4>2. \A k \in 1 .. n : bytes[p + 4 + k] = v[k]
        BY <1>1, <1>6, <1>7, <2>1, <2>6 DEF Written, n
      <4> DEFINE u == SubSeq(bytes, p + 4 + 1, p + 4 + n)
      <4>3. u \in Seq(Byte) /\ Len(u) = Len(v) /\ \A k \in 1 .. Len(u) : u[k] = v[k]
        BY <4>1, <4>2 DEF n
      <4> HIDE DEF u
      <4>4. u = v
        BY <1>1, <4>3, SeqEqual
      <4> QED
        BY <4>4 DEF u
    <3>3. /\ p + 4 + n + pad <= Len(bytes) => Stands(after, p + 4 + n + pad)
          /\ p + 4 + n + pad > Len(bytes) => Failed(after)
      <4>1. CASE pad = 0
        BY <1>1, <1>6, <2>6, <3>1, <4>1 DEF after
      <4>2. CASE pad # 0
        BY <1>4, <3>1, <4>2, SkipFacts DEF after
      <4> QED
        BY <4>1, <4>2
    <3>4. CASE p + 4 + n + pad <= Len(bytes)
      <4>1. Stands(after, p + 4 + n + pad) /\ Good(after)
        BY <3>3, <3>4, StandsFacts
      <4>2. r = Result(after, v)
        BY <2>3, <3>1, <3>2, <4>1
      <4>3. p + (4 + n + pad) = p + 4 + n + pad
        BY <1>1, <1>4
      <4> QED
        BY <1>6, <1>7, <1>10, <1>13, <3>4, <4>1, <4>2, <4>3 DEF Outcome, Result, r
    <3>5. CASE ~(p + 4 + n + pad <= Len(bytes))
      <4>1. Failed(after) /\ ~Good(after)
        BY <1>1, <1>4, <1>6, <3>3, <3>5, FailedStays
      <4>2. r = Result(after, kept)
        BY <2>3, <4>1
      <4>3. ~(p + (4 + n + pad) <= Len(bytes))
        BY <1>1, <1>4, <1>6, <3>5
      <4> QED
        BY <1>7, <4>1, <4>2, <4>3 DEF Outcome, Result, r
    <3> QED
      BY <3>4, <3>5
  <2> QED
    BY <1>1, <1>6, <2>5, <2>6
<1> QED
  BY <1>6, <1>11, <1>12, <1>13

\* A string is left alone by a stream that has failed.
LEMMA StringFailed ==
    ASSUME NEW kept, NEW s, Failed(s)
    PROVE  Failed(ReadString(s, kept).in) /\ ReadString(s, kept).value = kept
<1>1. Failed(ReadNumber(s, "int32").in) /\ ReadNumber(s, "int32").in.fail
  BY NumberFailed, FailedStays
<1>2. ReadString(s, kept) = Result(ReadNumber(s, "int32").in, kept)
  BY <1>1 DEF ReadString
<1> QED
  BY <1>1, <1>2 DEF Result

LEMMA ScalarFacts ==
    ASSUME NEW t \in Plainly, NEW v \in Contents(t)
    PROVE  ScalarBytes(t, v) \in Seq(Byte)
<1>1. CASE t = "string"
  <2>1. v \in Strings
    BY <1>1 DEF Contents
  <2>2. v \in Seq(Byte) /\ Len(v) \in Nat
    BY <2>1, StringFacts
  <2>3. NumberBytes("int32", Len(v)) \in Seq(Byte)
    BY <2>2, NumberFacts DEF Plainly, Scalar
  <2>4. Pad(Len(v), DATA_ALIGN) \in Nat
    BY <2>2, PadFacts DEF DATA_ALIGN
  <2>5. Padding(Pad(Len(v), DATA_ALIGN)) \in Seq(Byte)
    BY <2>4, PaddingFacts
  <2>6. NumberBytes("int32", Len(v)) \o v \in Seq(Byte)
    BY <2>2, <2>3, ConcatProperties
  <2> QED
    BY <1>1, <2>5, <2>6, ConcatProperties DEF ScalarBytes, StringBytes
<1>2. CASE t # "string"
  <2>1. v \in Nat
    BY <1>2, BinaryStreamAssumption DEF Contents
  <2> QED
    BY <1>2, <2>1, NumberFacts DEF ScalarBytes
<1> QED
  BY <1>1, <1>2

LEMMA ScalarRead ==
    ASSUME bytes \in Seq(Byte), NEW t \in Plainly, NEW v \in Contents(t), NEW kept,
           NEW s, NEW p \in Nat, Stands(s, p), Written(ScalarBytes(t, v), p)
    PROVE  Outcome(ReadScalar(s, t, kept), p, Len(ScalarBytes(t, v)),
                   After(t, v, kept), Spared(t, kept))
<1>1. CASE t = "string"
  <2>1. v \in Strings /\ ScalarBytes(t, v) = StringBytes(v)
    BY <1>1 DEF Contents, ScalarBytes
  <2>2. ReadScalar(s, t, kept) = ReadString(s, kept) /\ Spared(t, kept) = {kept}
    BY <1>1 DEF ReadScalar, Spared
  <2> QED
    BY <1>1, <2>1, <2>2, StringRead
<1>2. CASE t # "string"
  <2>1. ScalarBytes(t, v) = NumberBytes(t, v)
    BY <1>2 DEF ScalarBytes
  <2>2. ReadScalar(s, t, kept) = ReadNumber(s, t) /\ Spared(t, kept) = {0} /\ After(t, v, kept) = v
    BY <1>2 DEF ReadScalar, Spared, After
  <2> QED
    BY <2>1, <2>2, NumberRead
<1> QED
  BY <1>1, <1>2

LEMMA ScalarFailed ==
    ASSUME NEW t, NEW kept, NEW s, Failed(s)
    PROVE  Failed(ReadScalar(s, t, kept).in) /\ ReadScalar(s, t, kept).value \in Spared(t, kept)
BY NumberFailed, StringFailed DEF ReadScalar, Spared

----------------------------------------------------------------------------
(***************************************************************************)
(* Values of one or two fields.                                            *)
(***************************************************************************)

\* The fields of a value that is read as it is written.
Fields == {<<t>> : t \in Plainly} \cup Plainly \X Plainly

\* What a read of it leaves.
AfterEntry(fields, entry, kept) ==
    IF Len(fields) = 1 THEN <<After(fields[1], entry[1], kept)>>
    ELSE <<After(fields[1], entry[1], kept), After(fields[2], entry[2], kept)>>

LEMMA EntryFacts ==
    ASSUME NEW fields \in Fields, NEW entry \in Entries(fields)
    PROVE  /\ EntryBytes(fields, entry) \in Seq(Byte)
           /\ fields[1] \in Plainly /\ entry[1] \in Contents(fields[1])
           /\ Len(fields) \in {1, 2}
           /\ Len(fields) = 1 => entry = <<entry[1]>>
           /\ Len(fields) = 2 => /\ fields[2] \in Plainly /\ entry[2] \in Contents(fields[2])
                                /\ entry = <<entry[1], entry[2]>>
<1>1. CASE fields \in {<<t>> : t \in Plainly}
  <2>1. Len(fields) = 1 /\ fields[1] \in Plainly
    BY <1>1
  <2>2. entry \in {<<v>> : v \in Contents(fields[1])}
    BY <2>1 DEF Entries
  <2>3. entry[1] \in Contents(fields[1]) /\ entry = <<entry[1]>>
    BY <2>2
  <2>4. EntryBytes(fields, entry) = ScalarBytes(fields[1], entry[1]) \o <<>>
    BY <2>1 DEF EntryBytes
  <2>5. ScalarBytes(fields[1], entry[1]) \in Seq(Byte)
    BY <2>1, <2>3, ScalarFacts
  <2> QED
    BY <2>1, <2>3, <2>4, <2>5, ConcatEmptySeq
<1>2. CASE fields \in Plainly \X Plainly
  <2>1. Len(fields) = 2 /\ fields[1] \in Plainly /\ fields[2] \in Plainly
    BY <1>2
  <2>2. entry \in Contents(fields[1]) \X Contents(fields[2])
    BY <2>1 DEF Entries
  <2>3. /\ entry[1] \in Contents(fields[1]) /\ entry[2] \in Contents(fields[2])
        /\ entry = <<entry[1], entry[2]>>
    BY <2>2
  <2>4. EntryBytes(fields, entry) = ScalarBytes(fields[1], entry[1]) \o ScalarBytes(fields[2], entry[2])
    BY <2>1 DEF EntryBytes
  <2>5. /\ ScalarBytes(fields[1], entry[1]) \in Seq(Byte)
        /\ ScalarBytes(fields[2], entry[2]) \in Seq(Byte)
    BY <2>1, <2>3, ScalarFacts
  <2> QED
    BY <2>1, <2>3, <2>4, <2>5, ConcatProperties
<1> QED
  BY <1>1, <1>2 DEF Fields

LEMMA EntryRead ==
    ASSUME bytes \in Seq(Byte), NEW fields \in Fields, NEW entry \in Entries(fields), NEW kept,
           NEW s, NEW p \in Nat, Stands(s, p), Written(EntryBytes(fields, entry), p)
    PROVE  LET r == ReadEntry(s, fields, kept)
               n == Len(EntryBytes(fields, entry))
           IN  /\ p + n <= Len(bytes) =>
                     Stands(r.in, p + n) /\ r.value = AfterEntry(fields, entry, kept)
               /\ p + n > Len(bytes) =>
                     /\ Failed(r.in)
                     /\ r.value[Len(fields)] \in Spared(fields[Len(fields)], kept)
<1> DEFINE a == ScalarBytes(fields[1], entry[1])
           b == ScalarBytes(fields[2], entry[2])
           first == ReadScalar(s, fields[1], kept)
           second == ReadScalar(first.in, fields[2], kept)
           r == ReadEntry(s, fields, kept)
           n == Len(EntryBytes(fields, entry))
           x == After(fields[1], entry[1], kept)
           y == After(fields[2], entry[2], kept)
<1>1. /\ fields[1] \in Plainly /\ entry[1] \in Contents(fields[1])
      /\ Len(fields) \in {1, 2}
      /\ Len(fields) = 2 => fields[2] \in Plainly /\ entry[2] \in Contents(fields[2])
  BY EntryFacts
<1>2. a \in Seq(Byte) /\ Len(a) \in Nat /\ Len(bytes) \in Nat
  BY <1>1, ScalarFacts, LenProperties
<1>3. CASE Len(fields) = 1
  <2>1. EntryBytes(fields, entry) = a
    <3>1. EntryBytes(fields, entry) = a \o <<>>
      BY <1>3 DEF EntryBytes
    <3> QED
      BY <1>2, <3>1, ConcatEmptySeq
  <2>2. Outcome(first, p, Len(a), x, Spared(fields[1], kept))
    BY <1>1, <2>1, ScalarRead
  <2>3. r = Result(first.in, <<first.value>>) /\ AfterEntry(fields, entry, kept) = <<x>>
    BY <1>3 DEF ReadEntry, AfterEntry
  <2> HIDE DEF first, a, x, r
  <2>4. r.in = first.in /\ r.value = <<first.value>> /\ r.value[1] = first.value
    BY <2>3 DEF Result
  <2> QED
    BY <1>3, <2>1, <2>2, <2>3, <2>4 DEF Outcome, r
<1>4. CASE Len(fields) = 2
  <2>1. b \in Seq(Byte) /\ Len(b) \in Nat
    BY <1>1, <1>4, ScalarFacts, LenProperties
  <2>2. EntryBytes(fields, entry) = a \o b
    BY <1>4 DEF EntryBytes
  <2>3. /\ Written(a, p) /\ Written(b, p + Len(a))
        /\ n = Len(a) + Len(b)
    <3> HIDE DEF a, b
    <3> QED
      BY <1>2, <2>1, <2>2, WrittenParts, ConcatProperties
  <2>4. Outcome(first, p, Len(a), x, Spared(fields[1], kept))
    BY <1>1, <2>3, ScalarRead
  <2>5. Stands(first.in, p + Len(a)) =>
          Outcome(second, p + Len(a), Len(b), y, Spared(fields[2], kept))
    <3>1. p + Len(a) \in Nat
      BY <1>2
    <3> QED
      BY <1>1, <1>4, <2>3, <3>1, ScalarRead
  <2>6. Failed(first.in) => Failed(second.in) /\ second.value \in Spared(fields[2], kept)
    BY ScalarFailed
  <2>7. r = Result(second.in, <<first.value, second.value>>) /\ AfterEntry(fields, entry, kept) = <<x, y>>
    BY <1>4 DEF ReadEntry, AfterEntry
  <2> HIDE DEF first, second, a, b, x, y, r, n
  <2>8. r.in = second.in /\ r.value = <<first.value, second.value>> /\ r.value[2] = second.value
    BY <2>7 DEF Result
  <2>9. CASE p + Len(a) > Len(bytes)
    <3>1. Failed(second.in) /\ second.value \in Spared(fields[2], kept)
      BY <2>4, <2>6, <2>9 DEF Outcome
    <3>2. ~(p + n <= Len(bytes))
      BY <1>2, <2>1, <2>3, <2>9
    <3> QED
      BY <1>4, <2>8, <3>1, <3>2 DEF r, n
  <2>10. CASE p + Len(a) <= Len(bytes)
    <3>1. Stands(first.in, p + Len(a)) /\ first.value = x
      BY <2>4, <2>10 DEF Outcome
    <3>2. Outcome(second, p + Len(a), Len(b), y, Spared(fields[2], kept))
      BY <2>5, <3>1
    <3>3. p + Len(a) + Len(b) = p + n
      BY <1>2, <2>1, <2>3
    <3>4. /\ p + n <= Len(bytes) => Stands(second.in, p + n) /\ second.value = y
          /\ p + n > Len(bytes) => Failed(second.in) /\ second.value \in Spared(fields[2], kept)
      BY <3>2, <3>3 DEF Outcome
    <3> QED
      BY <1>4, <2>7, <2>8, <3>1, <3>4 DEF r, n
  <2> QED
    BY <1>2, <2>9, <2>10
<1> QED
  BY <1>1, <1>3, <1>4

LEMMA EntryFailed ==
    ASSUME NEW fields \in Fields, NEW kept, NEW s, Failed(s)
    PROVE  /\ Failed(ReadEntry(s, fields, kept).in)
           /\ ReadEntry(s, fields, kept).value[Len(fields)] \in Spared(fields[Len(fields)], kept)
<1> DEFINE first == ReadScalar(s, fields[1], kept)
           second == ReadScalar(first.in, fields[2], kept)
           r == ReadEntry(s, fields, kept)
<1>1. Failed(first.in) /\ first.value \in Spared(fields[1], kept)
  BY ScalarFailed
<1>2. Failed(second.in) /\ second.value \in Spared(fields[2], kept)
  BY <1>1, ScalarFailed
<1>3. Len(fields) \in {1, 2}
  BY DEF Fields
<1>4. r = IF Len(fields) = 1 THEN Result(first.in, <<first.value>>)
          ELSE Result(second.in, <<first.value, second.value>>)
  BY DEF ReadEntry
<1> HIDE DEF first, second, r
<1>5. CASE Len(fields) = 1
  <2>1. r.in = first.in /\ r.value[1] = first.value
    BY <1>4, <1>5 DEF Result
  <2> QED
    BY <1>1, <1>5, <2>1 DEF r
<1>6. CASE Len(fields) = 2
  <2>1. r.in = second.in /\ r.value[2] = second.value
    BY <1>4, <1>6 DEF Result
  <2> QED
    BY <1>2, <1>6, <2>1 DEF r
<1> QED
  BY <1>3, <1>5, <1>6

----------------------------------------------------------------------------
(***************************************************************************)
(* Values in a row.                                                        *)
(***************************************************************************)

\* f is what F makes of x, step by step.
Stepped(f, n, x, F) == f = [i \in 0 .. n |-> IF i = 0 THEN x ELSE F[i - 1][f[i - 1]]]

\* A recursion over an interval has a solution.
LEMMA Stepwise ==
    ASSUME NEW n \in Nat, NEW S, NEW F, NEW x, x \in S[0],
           \A i \in 0 .. n - 1 : \A y \in S[i] : F[i][y] \in S[i + 1]
    PROVE  \E f : Stepped(f, n, x, F) /\ \A i \in 0 .. n : f[i] \in S[i]
<1> DEFINE Path(f, j) == /\ f = [i \in 0 .. j |-> IF i = 0 THEN x ELSE F[i - 1][f[i - 1]]]
                         /\ \A i \in 0 .. j : f[i] \in S[i]
           T == {j \in 0 .. n : \E f : Path(f, j)}
<1>1. 0 \in T
  <2> DEFINE f == [i \in 0 .. 0 |-> x]
  <2>1. Path(f, 0)
    OBVIOUS
  <2> HIDE DEF f, Path
  <2>2. \E g : Path(g, 0)
    BY <2>1
  <2> QED
    BY <2>2
<1>2. ASSUME NEW j \in 0 .. n - 1, j \in T PROVE j + 1 \in T
  <2>1. PICK f : Path(f, j)
    BY <1>2
  <2>2. /\ f = [i \in 0 .. j |-> IF i = 0 THEN x ELSE F[i - 1][f[i - 1]]]
        /\ \A i \in 0 .. j : f[i] \in S[i]
    BY <2>1
  <2> DEFINE g == [i \in 0 .. j + 1 |-> IF i = j + 1 THEN F[j][f[j]] ELSE f[i]]
  <2>3. /\ g[j + 1] = F[j][f[j]]
        /\ \A i \in 0 .. j : g[i] = f[i]
        /\ g = [i \in 0 .. j + 1 |-> g[i]]
        /\ \A i \in 0 .. j + 1 : i = j + 1 \/ i \in 0 .. j
    OBVIOUS
  <2> HIDE DEF g, Path
  <2>4. f[j] \in S[j] /\ g[j + 1] \in S[j + 1]
    BY <2>2, <2>3
  <2>5. \A i \in 0 .. j + 1 : g[i] \in S[i]
    BY <2>2, <2>3, <2>4
  <2>6. ASSUME NEW i \in 0 .. j + 1 PROVE g[i] = IF i = 0 THEN x ELSE F[i - 1][g[i - 1]]
    <3>1. CASE i = j + 1
      <4>1. i # 0 /\ i - 1 = j /\ j \in 0 .. j
        BY <3>1
      <4> QED
        BY <2>3, <3>1, <4>1
    <3>2. CASE i \in 0 .. j
      <4>3. i # 0 => i - 1 \in 0 .. j
        BY <3>2
      <4>1. g[i] = f[i] /\ (i # 0 => i - 1 \in 0 .. j /\ g[i - 1] = f[i - 1])
        BY <2>3, <3>2, <4>3
      <4>2. f[i] = IF i = 0 THEN x ELSE F[i - 1][f[i - 1]]
        BY <2>2, <3>2
      <4> QED
        BY <4>1, <4>2
    <3> QED
      BY <2>3, <3>1, <3>2
  <2>7. g = [i \in 0 .. j + 1 |-> IF i = 0 THEN x ELSE F[i - 1][g[i - 1]]]
    BY <2>3, <2>6
  <2>8. Path(g, j + 1)
    BY <2>5, <2>7 DEF Path
  <2> QED
    BY <2>8
<1>3. n \in T
  <2>1. 0 \in 0 .. n /\ 0 \in Nat /\ n \in 0 .. n
    OBVIOUS
  <2> HIDE DEF T
  <2>2. \A k \in 0 .. n - 1 : k \in T => k + 1 \in T
    BY <1>2
  <2> QED
    BY ONLY <1>1, <2>1, <2>2, Upwards, n \in Nat, ZenonT(30)
<1> QED
  BY <1>3 DEF Stepped

\* What FlattenSeq puts together, entry by entry.
Flattens(flat, n, s, S) ==
    /\ flat \in [0 .. n -> Seq(S)] /\ flat[0] = <<>>
    /\ \A i \in 0 .. n - 1 : flat[i + 1] = flat[i] \o s[i + 1]
    /\ FlattenSeq(s) = flat[n]

LEMMA FlattenFacts ==
    ASSUME NEW S, NEW n \in Nat, NEW s, s \in [1 .. n -> Seq(S)]
    PROVE  \E flat : Flattens(flat, n, s, S)
<1>1. Len(s) = n
  OBVIOUS
<1>2. CASE n = 0
  <2> DEFINE flat == [i \in 0 .. n |-> <<>>]
  <2>1. s = <<>> /\ FlattenSeq(s) = s
    BY <1>1, <1>2 DEF FlattenSeq
  <2>2. /\ flat \in [0 .. n -> Seq(S)] /\ flat[0] = <<>>
        /\ \A i \in 0 .. n - 1 : flat[i + 1] = flat[i] \o s[i + 1]
        /\ FlattenSeq(s) = flat[n]
    BY <1>2, <2>1
  <2> HIDE DEF flat
  <2> QED
    BY <2>2 DEF Flattens
<1>3. CASE n # 0
  <2> DEFINE Body(g) == [i \in 1 .. n |-> IF i = 1 THEN s[i] ELSE g[i - 1] \o s[i]]
             all == [i \in 0 .. n |-> Seq(S)]
             F == [i \in 0 .. n - 1 |-> [y \in Seq(S) |-> y \o s[i + 1]]]
             g == CHOOSE f : f = Body(f)
  <2>1. FlattenSeq(s) = g[n]
    BY <1>1, <1>3 DEF FlattenSeq
  <2>2. \E f : f = Body(f)
    <3>1. <<>> \in all[0]
      OBVIOUS
    <3>2. ASSUME NEW i \in 0 .. n - 1, NEW y \in Seq(S)
          PROVE  i \in 0 .. n /\ i + 1 \in 0 .. n /\ F[i][y] = y \o s[i + 1] /\ y \o s[i + 1] \in Seq(S)
      <4>1. i + 1 \in 1 .. n /\ i \in 0 .. n /\ i + 1 \in 0 .. n
        OBVIOUS
      <4>2. s[i + 1] \in Seq(S)
        BY <4>1
      <4> QED
        BY <4>1, <4>2, ConcatProperties
    <3>6. \A i \in 0 .. n : all[i] = Seq(S)
      OBVIOUS
    <3> HIDE DEF all, F
    <3>3. ASSUME NEW i \in 0 .. n - 1, NEW y \in all[i] PROVE F[i][y] \in all[i + 1]
      <4>1. i \in 0 .. n /\ i + 1 \in 0 .. n
        OBVIOUS
      <4>2. all[i] = Seq(S) /\ all[i + 1] = Seq(S)
        BY <3>6, <4>1
      <4> QED
        BY <3>2, <4>2
    <3>10. \E f : Stepped(f, n, <<>>, F) /\ \A i \in 0 .. n : f[i] \in all[i]
      BY <3>1, <3>3, Stepwise
    <3>4. PICK f : /\ f = [i \in 0 .. n |-> IF i = 0 THEN <<>> ELSE F[i - 1][f[i - 1]]]
                   /\ \A i \in 0 .. n : f[i] \in all[i]
      BY <3>10 DEF Stepped
    <3>5. ASSUME NEW i \in 0 .. n - 1
          PROVE  f[i + 1] = f[i] \o s[i + 1] /\ f[0] = <<>>
      <4>1. i \in 0 .. n /\ i + 1 \in 0 .. n /\ i + 1 # 0 /\ (i + 1) - 1 = i /\ 0 \in 0 .. n
        OBVIOUS
      <4>2. f[i + 1] = F[i][f[i]] /\ f[0] = <<>>
        BY <3>4, <4>1
      <4>3. f[i] \in Seq(S)
        BY <3>4, <3>6, <4>1
      <4> QED
        BY <3>2, <4>2, <4>3
    <3> DEFINE e == [i \in 1 .. n |-> f[i]]
    <3>7. ASSUME NEW i \in 1 .. n
          PROVE  e[i] = IF i = 1 THEN s[i] ELSE e[i - 1] \o s[i]
      <4>1. i - 1 \in 0 .. n - 1 /\ (i - 1) + 1 = i /\ e[i] = f[i] /\ (i # 1 => e[i - 1] = f[i - 1])
        OBVIOUS
      <4>2. e[i] = f[i - 1] \o s[i] /\ f[0] = <<>>
        BY <3>5, <4>1
      <4>3. i = 1 => f[i - 1] \o s[i] = s[i]
        <5>1. s[i] \in Seq(S)
          OBVIOUS
        <5>2. i = 1 => f[i - 1] = <<>>
          BY <4>2
        <5> QED
          BY <5>1, <5>2, ConcatEmptySeq
      <4> QED
        BY <4>1, <4>2, <4>3
    <3>8. e = [i \in 1 .. n |-> e[i]]
      OBVIOUS
    <3> HIDE DEF e
    <3>9. e = Body(e)
      BY <3>7, <3>8
    <3> QED
      BY <3>9
  <2>3. g = Body(g)
    BY <2>2
  <2> HIDE DEF g
  <2> DEFINE flat == [i \in 0 .. n |-> IF i = 0 THEN <<>> ELSE g[i]]
             T == {i \in 0 .. n : flat[i] \in Seq(S)}
  <2>4. ASSUME NEW i \in 0 .. n - 1, flat[i] \in Seq(S)
        PROVE  flat[i + 1] = flat[i] \o s[i + 1] /\ flat[i + 1] \in Seq(S)
    <3>1. i + 1 \in 1 .. n /\ flat[i + 1] = g[i + 1] /\ (i + 1) - 1 = i
      OBVIOUS
    <3>2. s[i + 1] \in Seq(S)
      BY <3>1
    <3>7. g[i + 1] = IF i + 1 = 1 THEN s[i + 1] ELSE g[(i + 1) - 1] \o s[i + 1]
      BY <2>3, <3>1
    <3>8. i + 1 = 1 <=> i = 0
      OBVIOUS
    <3>3. flat[i + 1] = IF i = 0 THEN s[i + 1] ELSE g[i] \o s[i + 1]
      BY <3>1, <3>7, <3>8
    <3>4. i = 0 => flat[i] = <<>> /\ <<>> \o s[i + 1] = s[i + 1]
      BY <3>2, ConcatEmptySeq
    <3>5. i # 0 => flat[i] = g[i]
      OBVIOUS
    <3>6. flat[i + 1] = flat[i] \o s[i + 1]
      BY <3>3, <3>4, <3>5
    <3> HIDE DEF flat
    <3> QED
      BY <2>4, <3>2, <3>6, ConcatProperties
  <2>5. \A i \in 0 .. n : i \in T
    <3>1. 0 \in T /\ 0 \in 0 .. n
      OBVIOUS
    <3> HIDE DEF flat
    <3>2. ASSUME NEW i \in 0 .. n - 1, i \in T PROVE i + 1 \in T
      <4>1. i + 1 \in 0 .. n
        OBVIOUS
      <4> QED
        BY <2>4, <3>2, <4>1
    <3> HIDE DEF T
    <3>3. \A i \in 0 .. n - 1 : i \in T => i + 1 \in T
      BY <3>2
    <3>4. 0 \in Nat
      OBVIOUS
    <3> QED
      BY ONLY <3>1, <3>3, <3>4, n \in Nat, Upwards, ZenonT(30)
  <2>6. /\ flat \in [0 .. n -> Seq(S)] /\ flat[0] = <<>> /\ flat[n] = g[n]
        /\ \A i \in 0 .. n - 1 : flat[i + 1] = flat[i] \o s[i + 1]
    <3>4. 0 \in 0 .. n /\ n \in 0 .. n /\ 0 .. n - 1 \subseteq 0 .. n
      OBVIOUS
    <3>3. flat[0] = <<>> /\ flat[n] = g[n] /\ flat = [i \in 0 .. n |-> flat[i]]
      BY <1>3, <3>4
    <3> HIDE DEF flat
    <3>2. \A i \in 0 .. n : flat[i] \in Seq(S)
      BY <2>5
    <3>1. \A i \in 0 .. n - 1 : flat[i + 1] = flat[i] \o s[i + 1]
      BY <2>4, <3>2, <3>4
    <3> QED
      BY <3>1, <3>2, <3>3
  <2> HIDE DEF flat
  <2> QED
    BY <2>1, <2>6 DEF Flattens
<1> QED
  BY <1>2, <1>3

\* One round of the loop of a container.
Round(fields, y) ==
    IF y.in.fail THEN y
    ELSE LET r == ReadEntry(y.in, fields, <<>>)
         IN  Result(r.in, IF r.in.fail THEN <<>> ELSE Append(y.value, r.value))

\* What the rounds lead from and to.
LEMMA ListSteps ==
    ASSUME NEW s, NEW fields, NEW n \in Nat, ReadNumber(s, "int32").value = n,
           NEW S, Result(ReadNumber(s, "int32").in, <<>>) \in S[0],
           \A i \in 0 .. n - 1 : \A y \in S[i] : Round(fields, y) \in S[i + 1]
    PROVE  ReadList(s, fields) \in S[n]
<1> DEFINE x == Result(ReadNumber(s, "int32").in, <<>>)
           F == [i \in 0 .. n - 1 |-> [y \in S[i] |-> Round(fields, y)]]
           Body(f) == [i \in 0 .. n |-> IF i = 0 THEN x ELSE Round(fields, f[i - 1])]
           g == CHOOSE f : f = Body(f)
<1>1. ReadList(s, fields) = g[n]
  BY DEF ReadList, Round
<1> HIDE DEF x
<1>2. \E f : f = Body(f)
  <2>1. ASSUME NEW i \in 0 .. n - 1, NEW y \in S[i] PROVE F[i][y] = Round(fields, y)
    OBVIOUS
  <2> HIDE DEF F
  <2>2. x \in S[0]
    BY DEF x
  <2>3. ASSUME NEW i \in 0 .. n - 1, NEW y \in S[i] PROVE F[i][y] \in S[i + 1]
    BY <2>1
  <2>4. \E f : Stepped(f, n, x, F) /\ \A i \in 0 .. n : f[i] \in S[i]
    BY <2>2, <2>3, Stepwise
  <2>5. PICK f : /\ f = [i \in 0 .. n |-> IF i = 0 THEN x ELSE F[i - 1][f[i - 1]]]
                 /\ \A i \in 0 .. n : f[i] \in S[i]
    BY <2>4 DEF Stepped
  <2>6. ASSUME NEW i \in 0 .. n PROVE f[i] = IF i = 0 THEN x ELSE Round(fields, f[i - 1])
    <3>1. i # 0 => i - 1 \in 0 .. n - 1 /\ i - 1 \in 0 .. n
      OBVIOUS
    <3>2. i # 0 => f[i - 1] \in S[i - 1]
      BY <2>5, <3>1
    <3>3. i # 0 => F[i - 1][f[i - 1]] = Round(fields, f[i - 1])
      BY <2>1, <3>1, <3>2
    <3> QED
      BY <2>5, <3>3
  <2>7. f = [i \in 0 .. n |-> f[i]]
    BY <2>5
  <2>8. f = Body(f)
    BY <2>6, <2>7
  <2> QED
    BY <2>8
<1>3. g = Body(g)
  BY <1>2
<1> HIDE DEF g, F
<1> DEFINE T == {i \in 0 .. n : g[i] \in S[i]}
<1>4. \A i \in 0 .. n : i \in T
  <2>1. 0 \in T /\ 0 \in 0 .. n /\ 0 \in Nat
    BY <1>3 DEF x
  <2>2. ASSUME NEW i \in 0 .. n - 1, i \in T PROVE i + 1 \in T
    <3>1. i + 1 \in 0 .. n /\ i + 1 # 0 /\ (i + 1) - 1 = i
      OBVIOUS
    <3>2. g[i + 1] = Round(fields, g[i])
      BY <1>3, <3>1
    <3> QED
      BY <2>2, <3>1, <3>2
  <2> HIDE DEF T
  <2>3. \A i \in 0 .. n - 1 : i \in T => i + 1 \in T
    BY <2>2
  <2> QED
    BY ONLY <2>1, <2>3, n \in Nat, Upwards, ZenonT(30)
<1>5. n \in 0 .. n
  OBVIOUS
<1> QED
  BY <1>1, <1>4, <1>5

\* readArrayBasedContainer, readAssociativeContainer, operator>> of a std::set
LEMMA ListRead ==
    ASSUME bytes \in Seq(Byte), NEW fields \in Fields, NEW n \in Nat,
           NEW es \in [1 .. n -> Entries(fields)], NEW s, NEW p \in Nat, Stands(s, p),
           NEW all, all = [i \in 1 .. n |-> EntryBytes(fields, es[i])],
           Written(NumberBytes("int32", n) \o FlattenSeq(all), p)
    PROVE  /\ NumberBytes("int32", n) \o FlattenSeq(all) \in Seq(Byte)
           /\ Outcome(ReadList(s, fields), p, Len(NumberBytes("int32", n) \o FlattenSeq(all)), es, {<<>>})
<1> DEFINE m == ReadNumber(s, "int32")
           a == NumberBytes("int32", n)
<1>1. all \in [1 .. n -> Seq(Byte)] /\ \A i \in 1 .. n : all[i] = EntryBytes(fields, es[i])
  BY EntryFacts
<1>10. PICK flat : Flattens(flat, n, all, Byte)
  BY <1>1, FlattenFacts
<1>2. /\ flat \in [0 .. n -> Seq(Byte)] /\ flat[0] = <<>>
      /\ \A i \in 0 .. n - 1 : flat[i + 1] = flat[i] \o all[i + 1]
      /\ FlattenSeq(all) = flat[n]
  BY <1>10 DEF Flattens
<1>3. "int32" \in Plainly /\ WriteWidth("int32") = 4
  BY DEF Plainly, Scalar, WriteWidth
<1>4. a \in Seq(Byte) /\ Len(a) = 4
  BY <1>3, NumberFacts
<1>5. flat[n] \in Seq(Byte) /\ Len(flat[n]) \in Nat /\ Len(bytes) \in Nat /\ p + 4 \in Nat
  BY <1>2, LenProperties
<1>6. /\ a \o flat[n] \in Seq(Byte) /\ Len(a \o flat[n]) = 4 + Len(flat[n])
      /\ Written(a, p) /\ Written(flat[n], p + 4)
  <2> HIDE DEF a
  <2>1. Written(a \o flat[n], p)
    BY <1>2 DEF a
  <2>2. a \o flat[n] \in Seq(Byte) /\ Len(a \o flat[n]) = Len(a) + Len(flat[n])
    BY <1>4, <1>5, ConcatProperties
  <2> QED
    BY <1>4, <1>5, <2>1, <2>2, WrittenParts
<1>7. Outcome(m, p, 4, n, {0})
  BY <1>3, <1>4, <1>6, NumberRead
<1> HIDE DEF m, a
<1>8. CASE p + 4 > Len(bytes)
  <2>1. Failed(m.in) /\ m.value = 0
    BY <1>7, <1>8 DEF Outcome
  <2> DEFINE S == [i \in 0 .. 0 |-> {Result(m.in, <<>>)}]
  <2>2. Result(m.in, <<>>) \in S[0] /\ \A i \in 0 .. 0 - 1 : \A y \in S[i] : Round(fields, y) \in S[i + 1]
    OBVIOUS
  <2>3. ReadList(s, fields) \in S[0]
    <3> HIDE DEF S
    <3> QED
      BY <2>1, <2>2, ListSteps DEF m
  <2>4. ReadList(s, fields) = Result(m.in, <<>>)
    BY <2>3
  <2>5. ~(p + Len(a \o flat[n]) <= Len(bytes))
    BY <1>5, <1>6, <1>8
  <2> QED
    BY <1>2, <1>6, <2>1, <2>4, <2>5 DEF Outcome, Result, a
<1>9. CASE p + 4 <= Len(bytes)
  <2> DEFINE w(i) == p + 4 + Len(flat[i])
             S == [i \in 0 .. n |->
                     IF w(i) <= Len(bytes)
                     THEN [in : [pos : {w(i)}, fail : {FALSE}, eof : {FALSE}],
                           value : {SubSeq(es, 1, i)}]
                     ELSE [in : [pos : Int, fail : {TRUE}, eof : BOOLEAN], value : {<<>>}]]
             T == {i \in 0 .. n : Written(flat[i], p + 4)}
  <2>1. Stands(m.in, p + 4) /\ m.value = n
    BY <1>7, <1>9 DEF Outcome
  <2>2. ASSUME NEW i \in 0 .. n - 1
        PROVE  /\ i \in 0 .. n /\ i + 1 \in 0 .. n /\ i + 1 \in 1 .. n
               /\ flat[i] \in Seq(Byte) /\ all[i + 1] \in Seq(Byte)
               /\ flat[i + 1] = flat[i] \o all[i + 1]
               /\ Len(flat[i]) \in Nat /\ Len(all[i + 1]) \in Nat
               /\ Len(flat[i + 1]) = Len(flat[i]) + Len(all[i + 1])
    <3>1. i \in 0 .. n /\ i + 1 \in 0 .. n /\ i + 1 \in 1 .. n
      OBVIOUS
    <3>2. /\ flat[i] \in Seq(Byte) /\ all[i + 1] \in Seq(Byte)
          /\ flat[i + 1] = flat[i] \o all[i + 1]
      BY <1>1, <1>2, <3>1
    <3> QED
      BY <3>1, <3>2, ConcatProperties, LenProperties
  <2>3. ASSUME NEW i \in 0 .. n - 1, Written(flat[i + 1], p + 4)
        PROVE  Written(flat[i], p + 4) /\ Written(all[i + 1], w(i))
    BY <1>5, <2>2, <2>3, WrittenParts
  <2>4. \A i \in 0 .. n : i \in T
    <3>1. n \in T /\ n \in 0 .. n /\ 0 \in Nat
      BY <1>6
    <3>2. \A i \in 0 .. n - 1 : i + 1 \in T => i \in T
      BY <2>2, <2>3
    <3> HIDE DEF T
    <3> QED
      BY ONLY <3>1, <3>2, n \in Nat, Downwards, ZenonT(30)
  <2>5. \A i \in 0 .. n - 1 : Written(all[i + 1], w(i))
    BY <2>2, <2>3, <2>4
  <2>6. ASSUME NEW i \in 0 .. n
        PROVE  S[i] = IF w(i) <= Len(bytes)
                      THEN [in : [pos : {w(i)}, fail : {FALSE}, eof : {FALSE}],
                            value : {SubSeq(es, 1, i)}]
                      ELSE [in : [pos : Int, fail : {TRUE}, eof : BOOLEAN], value : {<<>>}]
    OBVIOUS
  <2>7. es \in Seq(Entries(fields)) /\ Len(es) = n
    OBVIOUS
  <2> HIDE DEF S, T
  <2>8. Result(m.in, <<>>) \in S[0]
    <3>1. Len(flat[0]) = 0 /\ w(0) = p + 4 /\ 0 \in 0 .. n
      BY <1>2
    <3>2. SubSeq(es, 1, 0) = <<>>
      BY <2>7
    <3>3. m.in \in [pos : {w(0)}, fail : {FALSE}, eof : {FALSE}]
      BY <2>1, <3>1 DEF Stands
    <3>4. S[0] = [in : [pos : {w(0)}, fail : {FALSE}, eof : {FALSE}], value : {<<>>}]
      BY <1>9, <2>6, <3>1, <3>2
    <3> HIDE DEF w
    <3> QED
      BY <3>3, <3>4 DEF Result
  <2>9. ASSUME NEW i \in 0 .. n - 1, NEW y \in S[i] PROVE Round(fields, y) \in S[i + 1]
    <3> DEFINE r == ReadEntry(y.in, fields, <<>>)
               k == Len(all[i + 1])
               e == es[i + 1]
    <3>4. /\ Len(flat[i]) \in Nat /\ k \in Nat /\ i \in 0 .. n /\ i + 1 \in 0 .. n
          /\ Len(flat[i + 1]) = Len(flat[i]) + k
      BY <2>2
    <3>1. w(i + 1) = w(i) + k /\ w(i) \in Nat /\ k \in Nat /\ i \in 0 .. n /\ i + 1 \in 0 .. n
      <4>1. \A c1, c2 \in Nat : p + 4 + c1 \in Nat /\ p + 4 + (c1 + c2) = p + 4 + c1 + c2
        OBVIOUS
      <4> HIDE DEF k
      <4>2. w(i) \in Nat /\ w(i + 1) = p + 4 + (Len(flat[i]) + k)
        BY <3>4, <4>1
      <4> QED
        BY <3>4, <4>1, <4>2
    <3>2. CASE w(i) <= Len(bytes)
      <4>1. y \in [in : [pos : {w(i)}, fail : {FALSE}, eof : {FALSE}], value : {SubSeq(es, 1, i)}]
        BY <2>6, <3>1, <3>2
      <4>2. Stands(y.in, w(i)) /\ ~y.in.fail /\ y.value = SubSeq(es, 1, i)
        BY <4>1 DEF Stands
      <4>3. e \in Entries(fields) /\ all[i + 1] = EntryBytes(fields, e)
        BY <1>1, <2>2
      <4>4. /\ w(i) + k <= Len(bytes) => Stands(r.in, w(i) + k) /\ r.value = AfterEntry(fields, e, <<>>)
            /\ w(i) + k > Len(bytes) => Failed(r.in)
        <5>1. Written(EntryBytes(fields, e), w(i))
          BY <2>5, <4>3
        <5> HIDE DEF e, w
        <5> QED
          BY <3>1, <4>2, <4>3, <5>1, EntryRead
      <4>5. AfterEntry(fields, e, <<>>) = e
        BY <4>3, EntryFacts DEF AfterEntry, After
      <4>6. Round(fields, y) = Result(r.in, IF r.in.fail THEN <<>> ELSE Append(y.value, r.value))
        BY <4>2 DEF Round
      <4>7. CASE w(i) + k <= Len(bytes)
        <5>1. Stands(r.in, w(i + 1)) /\ ~r.in.fail /\ r.value = e
          BY <3>1, <4>4, <4>5, <4>7, StandsFacts
        <5>2. Append(SubSeq(es, 1, i), e) = SubSeq(es, 1, i + 1)
          BY <2>2, <2>7
        <5>3. Round(fields, y) = Result(r.in, SubSeq(es, 1, i + 1))
          BY <4>2, <4>6, <5>1, <5>2
        <5>4. S[i + 1] = [in : [pos : {w(i + 1)}, fail : {FALSE}, eof : {FALSE}],
                          value : {SubSeq(es, 1, i + 1)}]
          BY <2>6, <3>1, <4>7
        <5> HIDE DEF w, r
        <5> QED
          BY <5>1, <5>3, <5>4 DEF Result, Stands
      <4>8. CASE ~(w(i) + k <= Len(bytes))
        <5>4. Failed(r.in)
          <6> HIDE DEF w, r, k
          <6> QED
            BY <1>5, <3>1, <4>4, <4>8
        <5>1. Failed(r.in) /\ r.in.fail
          BY <5>4, FailedStays
        <5>2. Round(fields, y) = Result(r.in, <<>>)
          BY <4>6, <5>1
        <5>3. S[i + 1] = [in : [pos : Int, fail : {TRUE}, eof : BOOLEAN], value : {<<>>}]
          BY <2>6, <3>1, <4>8
        <5> HIDE DEF w, r
        <5> QED
          BY <5>1, <5>2, <5>3 DEF Result, Failed
      <4> QED
        BY <4>7, <4>8
    <3>3. CASE ~(w(i) <= Len(bytes))
      <4>1. y \in [in : [pos : Int, fail : {TRUE}, eof : BOOLEAN], value : {<<>>}]
        BY <2>6, <3>1, <3>3
      <4>2. Round(fields, y) = y
        BY <4>1 DEF Round
      <4>3. ~(w(i + 1) <= Len(bytes))
        <5> HIDE DEF w, k
        <5> QED
          BY <1>5, <3>1, <3>3
      <4>4. S[i + 1] = [in : [pos : Int, fail : {TRUE}, eof : BOOLEAN], value : {<<>>}]
        BY <2>6, <3>1, <4>3
      <4> QED
        BY <4>1, <4>2, <4>4
    <3> QED
      BY <3>2, <3>3
  <2>10. ReadList(s, fields) \in S[n]
    BY <2>1, <2>8, <2>9, ListSteps DEF m
  <2>11. w(n) = p + Len(a \o flat[n]) /\ n \in 0 .. n
    <3> DEFINE x == Len(flat[n])
    <3>1. x \in Nat /\ Len(a \o flat[n]) = 4 + x
      BY <1>5, <1>6
    <3> HIDE DEF x
    <3>2. p + 4 + x = p + Len(a \o flat[n])
      BY <3>1
    <3>3. n \in 0 .. n
      OBVIOUS
    <3>4. w(n) = p + 4 + x
      BY DEF x
    <3> QED
      BY <3>2, <3>3, <3>4
  <2>12. SubSeq(es, 1, n) = es
    BY <2>7
  <2>13. S[n] = IF p + Len(a \o flat[n]) <= Len(bytes)
                THEN [in : [pos : {p + Len(a \o flat[n])}, fail : {FALSE}, eof : {FALSE}], value : {es}]
                ELSE [in : [pos : Int, fail : {TRUE}, eof : BOOLEAN], value : {<<>>}]
    BY <2>6, <2>11, <2>12
  <2> DEFINE q == p + Len(a \o flat[n])
             r == ReadList(s, fields)
  <2>14. /\ q <= Len(bytes) => Stands(r.in, q) /\ r.value = es
         /\ ~(q <= Len(bytes)) => Failed(r.in) /\ r.value \in {<<>>}
    <3>1. /\ r \in S[n]
          /\ S[n] = IF q <= Len(bytes)
                     THEN [in : [pos : {q}, fail : {FALSE}, eof : {FALSE}], value : {es}]
                     ELSE [in : [pos : Int, fail : {TRUE}, eof : BOOLEAN], value : {<<>>}]
      BY <2>10, <2>13
    <3> HIDE DEF q, r
    <3>2. CASE q <= Len(bytes)
      <4>1. r \in [in : [pos : {q}, fail : {FALSE}, eof : {FALSE}], value : {es}]
        BY <3>1, <3>2
      <4> QED
        BY <3>2, <4>1 DEF Stands
    <3>3. CASE ~(q <= Len(bytes))
      <4>1. r \in [in : [pos : Int, fail : {TRUE}, eof : BOOLEAN], value : {<<>>}]
        BY <3>1, <3>3
      <4> QED
        BY <3>3, <4>1 DEF Failed
    <3> QED
      BY <3>2, <3>3
  <2>15. q \in Nat
    BY <1>5, <1>6
  <2> QED
    BY <1>2, <1>5, <1>6, <2>14, <2>15 DEF Outcome, a
<1> QED
  BY <1>5, <1>8, <1>9

LEMMA ListFailed ==
    ASSUME NEW fields, NEW s, Failed(s)
    PROVE  Failed(ReadList(s, fields).in) /\ ReadList(s, fields).value = <<>>
<1> DEFINE m == ReadNumber(s, "int32")
           S == [i \in 0 .. 0 |-> {Result(m.in, <<>>)}]
<1>1. Failed(m.in) /\ m.value = 0
  BY NumberFailed
<1>2. Result(m.in, <<>>) \in S[0] /\ \A i \in 0 .. 0 - 1 : \A y \in S[i] : Round(fields, y) \in S[i + 1]
  OBVIOUS
<1>3. ReadList(s, fields) \in S[0]
  <2> HIDE DEF S
  <2> QED
    BY <1>1, <1>2, ListSteps
<1>4. ReadList(s, fields) = Result(m.in, <<>>)
  BY <1>3
<1> QED
  BY <1>1, <1>4 DEF Result

----------------------------------------------------------------------------
(***************************************************************************)
(* Whatever stands in a file.                                              *)
(***************************************************************************)
Items ==
    [op : {"align", "raw"}, size : Sizes]
        \cup UNION {[op : {"value"}, shape : {shape},
                    entries : UNION {[1 .. n -> Entries(shape.fields)] :
                                        n \in IF shape.list THEN Nat ELSE {1}}] :
                    shape \in Shapes}

LEMMA ItemCases ==
    ASSUME NoBool, NEW item \in Items
    PROVE  \/ item.op \in {"align", "raw"} /\ item.size \in Nat \ {0}
           \/ /\ item.op = "value" /\ item.shape \in Shapes
              /\ item.shape.list \in BOOLEAN /\ item.shape.fields \in Fields
              /\ \E n \in Nat : /\ item.entries \in [1 .. n -> Entries(item.shape.fields)]
                                /\ ~item.shape.list => n = 1
<1>1. CASE item \in [op : {"align", "raw"}, size : Sizes]
  BY <1>1, BinaryStreamAssumption
<1>2. ASSUME NEW shape \in Shapes,
             item \in [op : {"value"}, shape : {shape},
                      entries : UNION {[1 .. n -> Entries(shape.fields)] :
                                          n \in IF shape.list THEN Nat ELSE {1}}]
      PROVE  /\ item.op = "value" /\ item.shape \in Shapes
             /\ item.shape.list \in BOOLEAN /\ item.shape.fields \in Fields
             /\ \E n \in Nat : /\ item.entries \in [1 .. n -> Entries(item.shape.fields)]
                               /\ ~item.shape.list => n = 1
  <2>1. /\ item.op = "value" /\ item.shape = shape
        /\ item.entries \in UNION {[1 .. n -> Entries(shape.fields)] :
                                      n \in IF shape.list THEN Nat ELSE {1}}
    BY <1>2
  <2>2. /\ shape.list \in BOOLEAN
        /\ shape.fields \in {<<t>> : t \in Scalar} \cup Scalar \X Scalar
    BY BinaryStreamAssumption DEF Shape
  <2>3. \A k \in DOMAIN shape.fields : shape.fields[k] # "bool"
    BY DEF NoBool
  <2>4. shape.fields \in Fields
    <3>1. CASE shape.fields \in {<<t>> : t \in Scalar}
      <4>1. PICK t \in Scalar : shape.fields = <<t>>
        BY <3>1
      <4>2. t \in Plainly
        BY <2>3, <4>1 DEF Plainly
      <4> QED
        BY <4>1, <4>2 DEF Fields
    <3>2. CASE shape.fields \in Scalar \X Scalar
      <4>1. PICK t \in Scalar, u \in Scalar : shape.fields = <<t, u>>
        BY <3>2
      <4>2. t \in Plainly /\ u \in Plainly
        BY <2>3, <4>1 DEF Plainly
      <4> QED
        BY <4>1, <4>2 DEF Fields
    <3> QED
      BY <2>2, <3>1, <3>2
  <2>5. PICK n \in IF shape.list THEN Nat ELSE {1} : item.entries \in [1 .. n -> Entries(shape.fields)]
    BY <2>1
  <2> QED
    BY <2>1, <2>2, <2>4, <2>5
<1>3. CASE \E shape \in Shapes :
              item \in [op : {"value"}, shape : {shape},
                       entries : UNION {[1 .. n -> Entries(shape.fields)] :
                                           n \in IF shape.list THEN Nat ELSE {1}}]
  BY <1>2, <1>3
<1> QED
  BY <1>1, <1>3 DEF Items

\* The bytes of a container, and of a value by itself.
LEMMA ValueBytes ==
    ASSUME NEW fields \in Fields, NEW n \in Nat, NEW es \in [1 .. n -> Entries(fields)],
           NEW all, all = [i \in 1 .. n |-> EntryBytes(fields, es[i])]
    PROVE  /\ NumberBytes("int32", n) \o FlattenSeq(all) \in Seq(Byte)
           /\ n = 1 => /\ <<>> \o FlattenSeq(all) = EntryBytes(fields, es[1])
                      /\ EntryBytes(fields, es[1]) \in Seq(Byte)
<1>1. all \in [1 .. n -> Seq(Byte)] /\ \A i \in 1 .. n : all[i] = EntryBytes(fields, es[i])
  BY EntryFacts
<1>2. PICK flat : Flattens(flat, n, all, Byte)
  BY <1>1, FlattenFacts
<1>3. /\ flat \in [0 .. n -> Seq(Byte)] /\ flat[0] = <<>>
      /\ \A i \in 0 .. n - 1 : flat[i + 1] = flat[i] \o all[i + 1]
      /\ FlattenSeq(all) = flat[n]
  BY <1>2 DEF Flattens
<1>4. FlattenSeq(all) \in Seq(Byte)
  BY <1>3
<1>5. NumberBytes("int32", n) \in Seq(Byte)
  BY NumberFacts DEF Plainly, Scalar
<1>6. ASSUME n = 1
      PROVE  /\ <<>> \o FlattenSeq(all) = EntryBytes(fields, es[1])
             /\ EntryBytes(fields, es[1]) \in Seq(Byte)
  <2>1. all[1] \in Seq(Byte) /\ all[1] = EntryBytes(fields, es[1])
    BY <1>1, <1>6
  <2>2. 0 \in 0 .. n - 1 /\ 0 + 1 = 1
    BY <1>6
  <2>3. flat[1] = <<>> \o all[1]
    BY <1>3, <2>2
  <2>4. FlattenSeq(all) = all[1]
    BY <1>3, <1>6, <2>1, <2>3, ConcatEmptySeq
  <2> QED
    BY <2>1, <2>4, ConcatEmptySeq
<1> QED
  BY <1>4, <1>5, <1>6, ConcatProperties

LEMMA ItemFacts ==
    ASSUME NoBool, NEW item \in Items, NEW at \in Nat
    PROVE  /\ ItemBytes(item, at) \in Seq(Byte)
           /\ item.op = "align" => /\ ItemBytes(item, at) = Padding(Pad(at, item.size))
                                  /\ Pad(at, item.size) \in Nat
                                  /\ Len(ItemBytes(item, at)) = Pad(at, item.size)
           /\ item.op = "raw" => Len(ItemBytes(item, at)) = item.size
           /\ item.op = "value" /\ item.shape.list =>
                 ItemBytes(item, at) =
                    NumberBytes("int32", Len(item.entries))
                       \o FlattenSeq([i \in 1 .. Len(item.entries) |->
                                         EntryBytes(item.shape.fields, item.entries[i])])
           /\ item.op = "value" /\ ~item.shape.list =>
                 ItemBytes(item, at) = EntryBytes(item.shape.fields, item.entries[1])
<1>1. CASE item.op = "align"
  <2>1. Pad(at, item.size) \in Nat
    BY <1>1, ItemCases, PadFacts
  <2>2. ItemBytes(item, at) = Padding(Pad(at, item.size))
    BY <1>1 DEF ItemBytes
  <2> QED
    BY <1>1, <2>1, <2>2, PaddingFacts
<1>2. CASE item.op = "raw"
  <2>1. item.size \in Nat
    BY <1>2, ItemCases
  <2>2. ItemBytes(item, at) = [k \in 1 .. item.size |-> <<"char", k>>]
    BY <1>2 DEF ItemBytes
  <2>3. \A k \in 1 .. item.size : <<"char", k>> \in Byte
    BY <2>1 DEF Byte
  <2> QED
    BY <1>2, <2>1, <2>2, <2>3
<1>3. CASE item.op = "value"
  <2> DEFINE fields == item.shape.fields
             es == item.entries
  <2>1. /\ fields \in Fields /\ item.shape.list \in BOOLEAN
        /\ \E n \in Nat : es \in [1 .. n -> Entries(fields)] /\ (~item.shape.list => n = 1)
    BY <1>3, ItemCases
  <2>2. PICK n \in Nat : es \in [1 .. n -> Entries(fields)] /\ (~item.shape.list => n = 1)
    BY <2>1
  <2>3. DOMAIN es = 1 .. n /\ Len(es) = n
    BY <2>2
  <2> DEFINE all == [i \in 1 .. n |-> EntryBytes(fields, es[i])]
  <2>4. ItemBytes(item, at) =
           (IF item.shape.list THEN NumberBytes("int32", n) ELSE <<>>) \o FlattenSeq(all)
    BY <1>3, <2>3 DEF ItemBytes
  <2>5. /\ NumberBytes("int32", n) \o FlattenSeq(all) \in Seq(Byte)
        /\ n = 1 => /\ <<>> \o FlattenSeq(all) = EntryBytes(fields, es[1])
                   /\ EntryBytes(fields, es[1]) \in Seq(Byte)
    BY <2>1, <2>2, ValueBytes
  <2> QED
    BY <1>3, <2>1, <2>2, <2>3, <2>4, <2>5
<1> QED
  BY <1>1, <1>2, <1>3, ItemCases

\* The value v is nothing of the item.
NothingOf(item, v) ==
    CASE item.op # "value" -> v <= 0
      [] item.op = "value" /\ item.shape.list -> v = <<>>
      [] OTHER ->
            LET last == Len(item.shape.fields)
            IN  IF item.shape.fields[last] = "string" THEN v[1][last] \in Kept
                ELSE v[1][last] = 0

LEMMA ItemRead ==
    ASSUME NoBool, bytes \in Seq(Byte), NEW item \in Items, NEW kept \in Kept,
           NEW s, NEW p \in Nat, p <= Len(bytes), Stands(s, p), Written(ItemBytes(item, p), p)
    PROVE  LET r == ReadItem(s, item, kept)
               n == Len(ItemBytes(item, p))
           IN  /\ p + n <= Len(bytes) =>
                     /\ Stands(r.in, p + n)
                     /\ EmptyKept => r.value = IF item.op = "value" THEN item.entries ELSE n
               /\ p + n > Len(bytes) => Failed(r.in) /\ NothingOf(item, r.value)
<1> DEFINE r == ReadItem(s, item, kept)
           n == Len(ItemBytes(item, p))
<1>1. Tell(s) = p /\ Told(s) = s
  BY StandsFacts
<1>2. n \in Nat /\ Len(bytes) \in Nat
  BY ItemFacts, LenProperties
<1>3. CASE item.op = "align"
  <2> DEFINE after == Ignore(s, n)
  <2>1. n = Pad(p, item.size)
    BY <1>3, ItemFacts
  <2>2. r = IF n = 0 THEN Result(s, 0) ELSE Result(SkipRaw(s, n), Tell(after) - p)
    BY <1>1, <1>3, <2>1 DEF ReadItem, ReadAlign
  <2> HIDE DEF n, r
  <2>3. /\ p + n <= Len(bytes) => Stands(SkipRaw(s, n), p + n) /\ Tell(after) = p + n
        /\ p + n > Len(bytes) => Failed(SkipRaw(s, n)) /\ Tell(after) = -1
    BY <1>2, SkipFacts, StandsFacts
  <2> HIDE DEF after
  <2>4. CASE n = 0
    <3>1. r.in = s /\ r.value = 0 /\ p + n = p
      BY <2>2, <2>4 DEF Result
    <3> QED
      BY <1>2, <1>3, <2>4, <3>1 DEF NothingOf, n, r
  <2>5. CASE n # 0
    <3>1. r.in = SkipRaw(s, n) /\ r.value = Tell(after) - p
      BY <2>2, <2>5 DEF Result
    <3>2. p + n - p = n /\ -1 - p <= 0
      BY <1>2
    <3> QED
      BY <1>3, <2>3, <3>1, <3>2 DEF NothingOf, n, r
  <2> QED
    BY <2>4, <2>5
<1>4. CASE item.op = "raw"
  <2> DEFINE after == Read(s, n)
  <2>1. n = item.size
    BY <1>4, ItemFacts
  <2>2. r = Result(Told(after), Tell(after) - p)
    BY <1>1, <1>4, <2>1 DEF ReadItem, ReadRaw
  <2> HIDE DEF n, r
  <2>3. p + n <= Len(bytes) => Stands(after, p + n)
    BY <1>2, ReadFacts
  <2>4. p + n > Len(bytes) => Failed(after)
    BY <1>2, ReadFacts
  <2> HIDE DEF after
  <2>5. r.in = Told(after) /\ r.value = Tell(after) - p
    BY <2>2 DEF Result
  <2>6. Stands(after, p + n) => Told(after) = after /\ Tell(after) = p + n
    BY StandsFacts
  <2>7. Failed(after) => Told(after) = after /\ Tell(after) = -1
    BY FailedStays
  <2>8. p + n - p = n /\ -1 - p <= 0
    BY <1>2
  <2> QED
    BY <1>4, <2>3, <2>4, <2>5, <2>6, <2>7, <2>8 DEF NothingOf, n, r
<1>5. CASE item.op = "value"
  <2> DEFINE fields == item.shape.fields
             es == item.entries
  <2>1. /\ fields \in Fields /\ item.shape.list \in BOOLEAN /\ item.shape \in Shapes
        /\ \E m \in Nat : es \in [1 .. m -> Entries(fields)] /\ (~item.shape.list => m = 1)
    BY <1>5, ItemCases
  <2>2. PICK m \in Nat : es \in [1 .. m -> Entries(fields)] /\ (~item.shape.list => m = 1)
    BY <2>1
  <2>3. DOMAIN es = 1 .. m /\ Len(es) = m
    BY <2>2
  <2>4. CASE item.shape.list
    <3> DEFINE all == [i \in 1 .. m |-> EntryBytes(fields, es[i])]
               ib == NumberBytes("int32", m) \o FlattenSeq(all)
    <3>1. ItemBytes(item, p) = ib
      BY <1>5, <2>3, <2>4, ItemFacts
    <3>2. r = ReadList(s, fields)
      BY <1>5, <2>4 DEF ReadItem
    <3>3. Outcome(ReadList(s, fields), p, Len(ib), es, {<<>>})
      <4>1. Written(ib, p)
        BY <3>1
      <4> QED
        BY <2>1, <2>2, <4>1, ListRead
    <3> HIDE DEF ib, es, r
    <3>4. NothingOf(item, r.value) <=> r.value = <<>>
      BY <1>5, <2>4 DEF NothingOf
    <3> QED
      BY <1>5, <3>1, <3>2, <3>3, <3>4 DEF Outcome, es, r
  <2>5. CASE ~item.shape.list
    <3> DEFINE t == ReadEntry(s, fields, kept)
               e == es[1]
    <3>1. ItemBytes(item, p) = EntryBytes(fields, e)
      BY <1>5, <2>5, ItemFacts
    <3>2. r = Result(t.in, <<t.value>>)
      BY <1>5, <2>5 DEF ReadItem
    <3>3. e \in Entries(fields) /\ es = <<e>>
      BY <2>2, <2>5
    <3>4. /\ p + n <= Len(bytes) => Stands(t.in, p + n) /\ t.value = AfterEntry(fields, e, kept)
          /\ p + n > Len(bytes) =>
                Failed(t.in) /\ t.value[Len(fields)] \in Spared(fields[Len(fields)], kept)
      <4>1. Written(EntryBytes(fields, e), p)
        BY <3>1
      <4> HIDE DEF e
      <4> QED
        BY <2>1, <3>1, <3>3, <4>1, EntryRead
    <3>5. EmptyKept => AfterEntry(fields, e, kept) = e
      <4>1. ASSUME EmptyKept, NEW u, NEW v \in Contents(u) PROVE After(u, v, kept) = v
        BY <4>1 DEF EmptyKept, After, Contents
      <4> HIDE DEF e
      <4>2. /\ e[1] \in Contents(fields[1]) /\ Len(fields) \in {1, 2}
            /\ Len(fields) = 1 => e = <<e[1]>>
            /\ Len(fields) = 2 => e[2] \in Contents(fields[2]) /\ e = <<e[1], e[2]>>
        BY <2>1, <3>3, EntryFacts
      <4> QED
        BY <4>1, <4>2 DEF AfterEntry
    <3> HIDE DEF t, r, n
    <3>6. r.in = t.in /\ r.value = <<t.value>> /\ r.value[1] = t.value
      BY <3>2 DEF Result
    <3>7. t.value[Len(fields)] \in Spared(fields[Len(fields)], kept) => NothingOf(item, r.value)
      BY <1>5, <2>5, <3>6 DEF NothingOf, Spared
    <3> QED
      BY <1>5, <3>3, <3>4, <3>5, <3>6, <3>7 DEF r, n
  <2> QED
    BY <2>1, <2>4, <2>5
<1> QED
  BY <1>3, <1>4, <1>5, ItemCases

LEMMA ItemFailed ==
    ASSUME NoBool, NEW item \in Items, NEW kept \in Kept, NEW s, Failed(s)
    PROVE  Failed(ReadItem(s, item, kept).in) /\ NothingOf(item, ReadItem(s, item, kept).value)
<1> DEFINE r == ReadItem(s, item, kept)
<1>1. Told(s) = s /\ Tell(s) = -1 /\ \A n : Read(s, n) = s /\ Ignore(s, n) = s /\ SkipRaw(s, n) = s
  BY FailedStays
<1>2. CASE item.op = "align"
  <2>1. r = Result(s, 0)
    <3> DEFINE n == Pad(-1, item.size)
    <3>1. r = IF n = 0 THEN Result(s, 0) ELSE Result(SkipRaw(s, n), Tell(Ignore(s, n)) - Tell(s))
      BY <1>1, <1>2 DEF ReadItem, ReadAlign
    <3> HIDE DEF n, r
    <3>2. SkipRaw(s, n) = s /\ Tell(Ignore(s, n)) - Tell(s) = 0
      BY <1>1
    <3> QED
      BY <3>1, <3>2
  <2> HIDE DEF r
  <2>2. r.in = s /\ r.value = 0
    BY <2>1 DEF Result
  <2> QED
    BY <1>2, <2>2 DEF NothingOf, r
<1>3. CASE item.op = "raw"
  <2>1. r = Result(s, 0)
    BY <1>1, <1>3 DEF ReadItem, ReadRaw
  <2> HIDE DEF r
  <2>2. r.in = s /\ r.value = 0
    BY <2>1 DEF Result
  <2> QED
    BY <1>3, <2>2 DEF NothingOf, r
<1>4. CASE item.op = "value"
  <2>1. item.shape.fields \in Fields /\ item.shape.list \in BOOLEAN
    BY <1>4, ItemCases
  <2>2. CASE item.shape.list
    <3>1. r = ReadList(s, item.shape.fields)
      BY <1>4, <2>2 DEF ReadItem
    <3> HIDE DEF r
    <3>2. Failed(r.in) /\ r.value = <<>>
      BY <3>1, ListFailed
    <3> QED
      BY <1>4, <2>2, <3>2 DEF NothingOf, r
  <2>3. CASE ~item.shape.list
    <3> DEFINE fields == item.shape.fields
               t == ReadEntry(s, fields, kept)
    <3>1. r = Result(t.in, <<t.value>>)
      BY <1>4, <2>3 DEF ReadItem
    <3>2. Failed(t.in) /\ t.value[Len(fields)] \in Spared(fields[Len(fields)], kept)
      BY <2>1, EntryFailed
    <3> HIDE DEF t, r
    <3>3. r.in = t.in /\ r.value[1] = t.value
      BY <3>1 DEF Result
    <3>4. NothingOf(item, r.value)
      BY <1>4, <2>3, <3>2, <3>3 DEF NothingOf, Spared
    <3> QED
      BY <3>2, <3>3, <3>4 DEF r
  <2> QED
    BY <2>1, <2>2, <2>3
<1> QED
  BY <1>2, <1>3, <1>4, ItemCases

----------------------------------------------------------------------------
(***************************************************************************)
(* The invariant.                                                          *)
(***************************************************************************)

\* Where item i begins.
Begin(i) == IF i = 1 THEN 0 ELSE ends[i - 1]

ItemAt(i) == ItemBytes(script[i], Begin(i))

Sequence(q) == \E S : q \in Seq(S)

\* What the writer has left behind.
FileInv ==
    /\ bytes \in Seq(Byte) /\ script \in Seq(Items) /\ ends \in Seq(Nat)
    /\ Len(ends) = Len(script)
    /\ \A i \in 1 .. Len(script) :
          ends[i] = Begin(i) + Len(ItemAt(i)) /\ Written(ItemAt(i), Begin(i))
    /\ ~reading => /\ got = <<>>
                   /\ Len(bytes) = Begin(Len(script) + 1)
                   /\ \A i \in 1 .. Len(script) : ends[i] <= Len(bytes)

\* Where the reader stands, and what it has.
ReaderInv ==
    /\ Sequence(got) /\ Len(got) <= Len(script)
    /\ ~in.fail => /\ Stands(in, Begin(Len(got) + 1)) /\ Begin(Len(got) + 1) <= Len(bytes)
                   /\ EmptyKept => \A i \in 1 .. Len(got) : got[i] = Expected(i)
    /\ in.fail => Failed(in)
    /\ \A i \in 1 .. Len(got) : ends[i] > Len(bytes) => in.fail /\ NothingOf(script[i], got[i])

StreamInv == FileInv /\ ReaderInv

LEMMA StreamInit == Init => StreamInv
<1> SUFFICES ASSUME Init PROVE StreamInv
  OBVIOUS
<1>1. script = <<>> /\ ends = <<>> /\ bytes = <<>> /\ got = <<>> /\ Len(got) = 0
  BY DEF Init
<1>2. Stands(in, 0) /\ ~in.fail
  BY DEF Init, Stands
<1>3. Sequence(got)
  <2>1. got \in Seq(Nat)
    BY <1>1
  <2> QED
    BY <2>1 DEF Sequence
<1>4. Begin(Len(got) + 1) = 0 /\ Begin(Len(script) + 1) = 0
  BY <1>1 DEF Begin
<1>5. FileInv
  BY <1>1, <1>4 DEF FileInv
<1>6. ReaderInv
  BY <1>1, <1>2, <1>3, <1>4 DEF ReaderInv
<1> QED
  BY <1>5, <1>6 DEF StreamInv

\* An item more.
LEMMA StreamPut ==
    ASSUME NoBool, StreamInv, NEW item \in Items, Put(item)
    PROVE  StreamInv'
<1>15. Len(script) \in Nat
  BY LenProperties DEF StreamInv, FileInv
<1>16. PICK n \in Nat : n = Len(script)
  BY <1>15
<1> DEFINE ib == ItemBytes(item, Len(bytes))
           z == Len(bytes) + Len(ib)
<1>1. /\ ~reading /\ script' = Append(script, item) /\ bytes' = bytes \o ib
      /\ ends' = Append(ends, Len(bytes'))
      /\ reading' = reading /\ in' = in /\ got' = got
  BY DEF Put
<1>2. /\ bytes \in Seq(Byte) /\ script \in Seq(Items) /\ ends \in Seq(Nat)
      /\ Len(ends) = n /\ got = <<>> /\ Len(bytes) = Begin(n + 1)
      /\ \A i \in 1 .. n : /\ ends[i] = Begin(i) + Len(ItemAt(i)) /\ Written(ItemAt(i), Begin(i))
                           /\ ends[i] <= Len(bytes)
  BY <1>1, <1>16 DEF StreamInv, FileInv
<1>3. n \in Nat /\ Len(bytes) \in Nat
  BY <1>2, LenProperties
<1>4. ib \in Seq(Byte) /\ Len(ib) \in Nat
  BY <1>3, ItemFacts, LenProperties
<1> HIDE DEF ib
<1>5. /\ bytes' \in Seq(Byte) /\ Len(bytes') = z /\ z \in Nat
      /\ \A k \in 1 .. Len(bytes) : bytes'[k] = bytes[k]
      /\ \A k \in 1 .. Len(ib) : bytes'[Len(bytes) + k] = ib[k]
  <2>1. /\ bytes \o ib \in Seq(Byte) /\ Len(bytes \o ib) = Len(bytes) + Len(ib)
        /\ \A k \in 1 .. Len(bytes) : (bytes \o ib)[k] = bytes[k]
        /\ \A k \in 1 .. Len(ib) : (bytes \o ib)[Len(bytes) + k] = ib[k]
    <3>1. bytes \in Seq(Byte) /\ ib \in Seq(Byte)
      BY <1>2, <1>4
    <3> QED
      BY ONLY <3>1, ConcatParts
  <2> QED
    BY <1>1, <1>3, <1>4, <2>1
<1>6. /\ script' \in Seq(Items) /\ Len(script') = n + 1 /\ script'[n + 1] = item
      /\ \A i \in 1 .. n : script'[i] = script[i]
  BY <1>1, <1>2, <1>16, AppendProperties
<1>7. /\ ends' \in Seq(Nat) /\ Len(ends') = n + 1 /\ ends'[n + 1] = z
      /\ \A i \in 1 .. n : ends'[i] = ends[i]
  BY <1>1, <1>2, <1>5, AppendProperties
<1>8. \A i \in 1 .. n + 1 : Begin(i)' = Begin(i)
  <2>1. ASSUME NEW i \in 1 .. n + 1 PROVE Begin(i)' = Begin(i)
    <3>1. i # 1 => i - 1 \in 1 .. n
      BY <1>3
    <3> QED
      BY <1>7, <3>1 DEF Begin
  <2> QED
    BY <2>1
<1>9. \A i \in 1 .. n : ItemAt(i)' = ItemAt(i)
  <2>1. ASSUME NEW i \in 1 .. n PROVE ItemAt(i)' = ItemAt(i)
    <3>1. i \in 1 .. n + 1
      BY <1>3
    <3>2. ItemAt(i)' = ItemBytes(script'[i], Begin(i)')
      BY DEF ItemAt
    <3> QED
      BY <1>6, <1>8, <3>1, <3>2 DEF ItemAt
  <2> QED
    BY <2>1
<1>10. ItemAt(n + 1)' = ib /\ Begin(n + 1)' = Len(bytes)
  <2>1. n + 1 \in 1 .. n + 1
    BY <1>3
  <2>2. Begin(n + 1)' = Len(bytes)
    BY <1>2, <1>8, <2>1
  <2>3. ItemAt(n + 1)' = ItemBytes(script'[n + 1], Begin(n + 1)')
    BY DEF ItemAt
  <2> QED
    BY <1>6, <2>2, <2>3 DEF ib
<1>11. ASSUME NEW i \in 1 .. n + 1
       PROVE  /\ ends'[i] = Begin(i)' + Len(ItemAt(i)') /\ Written(ItemAt(i), Begin(i))'
              /\ ends'[i] <= Len(bytes')
  <2>1. CASE i = n + 1
    <3>4. ends'[i] = z /\ Begin(i)' = Len(bytes) /\ ItemAt(i)' = ib
      BY <1>7, <1>10, <2>1
    <3>1. ends'[i] = Begin(i)' + Len(ItemAt(i)') /\ ends'[i] <= Len(bytes')
      BY <1>5, <3>4
    <3>2. \A k \in 1 .. Len(ib) : Len(bytes) + k <= Len(bytes') => bytes'[Len(bytes) + k] = ib[k]
      BY <1>5
    <3>3. Written(ItemAt(i), Begin(i))'
      BY <1>10, <2>1, <3>2 DEF Written
    <3> QED
      BY <3>1, <3>3
  <2>2. CASE i \in 1 .. n
    <3> DEFINE q == ItemAt(i)
               b == Begin(i)
    <3>1. q' = q /\ b' = b /\ ends'[i] = ends[i]
      BY <1>7, <1>8, <1>9, <2>2
    <3>2. ends[i] = b + Len(q) /\ ends[i] <= Len(bytes) /\ Written(q, b)
      BY <1>2, <2>2
    <3>3. /\ b \in Nat /\ Len(q) \in Nat /\ script[i] \in Items
      <4>1. b \in Nat
        <5>1. i # 1 => i - 1 \in 1 .. n
          BY <1>3
        <5>2. i # 1 => ends[i - 1] \in Nat
          BY <1>2, <5>1, ElementOfSeq
        <5> QED
          BY <5>2 DEF Begin
      <4>2. script[i] \in Items
        BY <1>2, <2>2, <1>16, ElementOfSeq
      <4>3. q \in Seq(Byte)
        BY <4>1, <4>2, ItemFacts DEF ItemAt
      <4> QED
        BY <4>1, <4>2, <4>3, LenProperties
    <3>4. ends'[i] <= Len(bytes')
      <4>1. ends[i] \in Nat
        BY <3>2, <3>3
      <4> QED
        BY <1>3, <1>4, <1>5, <3>1, <3>2, <4>1
    <3>5. Written(q, b)'
      <4> HIDE DEF q, b
      <4>1. ASSUME NEW k \in 1 .. Len(q) PROVE bytes'[b + k] = q[k]
        <5>1. b + k \in 1 .. Len(bytes)
          BY <1>3, <3>2, <3>3
        <5>2. bytes[b + k] = q[k]
          BY <3>2, <5>1 DEF Written
        <5> QED
          BY <1>5, <5>1, <5>2
      <4>2. \A k \in 1 .. Len(q') : b' + k <= Len(bytes') => bytes'[b' + k] = q'[k]
        BY <3>1, <4>1
      <4> QED
        BY <4>2 DEF Written
    <3> QED
      BY <3>1, <3>2, <3>4, <3>5
  <2> QED
    BY <1>3, <2>1, <2>2
<1>12. Len(bytes') = Begin(Len(script) + 1)'
  <2>1. n + 1 + 1 # 1 /\ (n + 1 + 1) - 1 = n + 1
    BY <1>3
  <2>2. Begin(n + 1 + 1)' = z
    BY <1>7, <2>1 DEF Begin
  <2>3. Begin(Len(script) + 1)' = Begin(n + 1 + 1)'
    BY <1>6 DEF Begin
  <2> QED
    BY <1>5, <2>2, <2>3
<1>13. FileInv'
  <2>1. \A i \in 1 .. Len(script') : ends'[i] = Begin(i)' + Len(ItemAt(i)') /\ Written(ItemAt(i), Begin(i))'
    BY <1>6, <1>11
  <2>2. \A i \in 1 .. Len(script') : ends'[i] <= Len(bytes')
    BY <1>6, <1>11
  <2>3. got' = <<>> /\ Len(ends') = Len(script')
    BY <1>1, <1>2, <1>6, <1>7
  <2> QED
    BY <1>5, <1>6, <1>7, <1>12, <2>1, <2>2, <2>3 DEF FileInv
<1>14. ReaderInv'
  <2>1. Len(got) = 0 /\ Len(got') = 0 /\ got' = got /\ in' = in
    BY <1>1, <1>2
  <2>2. Sequence(got')
    BY <2>1 DEF StreamInv, ReaderInv
  <2>3. Begin(Len(got) + 1) = 0 /\ Begin(Len(got) + 1)' = 0
    BY <2>1 DEF Begin
  <2>4. /\ ~in.fail => Stands(in, 0)
        /\ in.fail => Failed(in)
    BY <2>3 DEF StreamInv, ReaderInv
  <2>5. 0 <= Len(bytes') /\ 0 <= Len(script')
    BY <1>3, <1>5, <1>6
  <2>6. Sequence(got)'
    BY <2>2 DEF Sequence
  <2>7. /\ ~in'.fail => /\ Stands(in, Begin(Len(got) + 1))' /\ Begin(Len(got) + 1)' <= Len(bytes')
                       /\ \A i \in 1 .. Len(got') : got'[i] = Expected(i)'
        /\ in'.fail => Failed(in)'
    <3>1. ~in'.fail => Stands(in, Begin(Len(got) + 1))'
      BY <2>1, <2>3, <2>4 DEF Stands
    <3>2. in'.fail => Failed(in)'
      BY <2>1, <2>4 DEF Failed
    <3> QED
      BY <2>1, <2>3, <2>5, <3>1, <3>2
  <2>8. Len(got') <= Len(script')
    BY <2>1, <2>5
  <2>9. \A i \in 1 .. Len(got') :
           ends'[i] > Len(bytes') => in'.fail /\ NothingOf(script'[i], got'[i])
    BY <2>1
  <2> QED
    BY <2>6, <2>7, <2>8, <2>9 DEF ReaderInv
<1> QED
  BY <1>13, <1>14 DEF StreamInv

\* The file is cut.
LEMMA StreamReopen ==
    ASSUME StreamInv, NEW size \in 0 .. Len(bytes), Reopen(size)
    PROVE  StreamInv'
<1>1. /\ ~reading /\ reading' = TRUE /\ bytes' = SubSeq(bytes, 1, size)
      /\ script' = script /\ ends' = ends /\ in' = in /\ got' = got
  BY DEF Reopen
<1>2. /\ bytes \in Seq(Byte) /\ script \in Seq(Items) /\ ends \in Seq(Nat)
      /\ Len(ends) = Len(script) /\ got = <<>>
      /\ \A i \in 1 .. Len(script) :
            ends[i] = Begin(i) + Len(ItemAt(i)) /\ Written(ItemAt(i), Begin(i))
  BY <1>1 DEF StreamInv, FileInv
<1>3. Len(bytes) \in Nat /\ size \in Nat /\ size <= Len(bytes) /\ Len(script) \in Nat
  BY <1>2, LenProperties
<1>4. bytes' \in Seq(Byte) /\ Len(bytes') = size /\ \A k \in 1 .. size : bytes'[k] = bytes[k]
  <2>1. 0 \in Nat /\ 0 + size <= Len(bytes) /\ 0 + 1 = 1 /\ 0 + size = size /\ \A k \in Nat : 0 + k = k
    BY <1>3
  <2>2. /\ SubSeq(bytes, 0 + 1, 0 + size) \in Seq(Byte)
        /\ Len(SubSeq(bytes, 0 + 1, 0 + size)) = size
        /\ \A k \in 1 .. size : SubSeq(bytes, 0 + 1, 0 + size)[k] = bytes[0 + k]
    BY <1>2, <1>3, <2>1, SliceFacts DEF Slice
  <2> QED
    BY <1>1, <2>1, <2>2
<1>5. ASSUME NEW i \in 1 .. Len(script)
      PROVE  /\ Begin(i)' = Begin(i) /\ ItemAt(i)' = ItemAt(i)
             /\ Written(ItemAt(i), Begin(i))'
  <2> DEFINE q == ItemAt(i)
             b == Begin(i)
  <2>1. b' = b /\ q' = q
    BY <1>1 DEF ItemAt, Begin
  <2>2. Written(q, b)
    BY <1>2
  <2>3. b \in Nat /\ (\A k \in 1 .. Len(q) : k \in Nat /\ k >= 1)
    <3>1. i # 1 => i - 1 \in 1 .. Len(ends)
      BY <1>2, <1>3
    <3>2. i # 1 => ends[i - 1] \in Nat
      BY <1>2, <3>1, ElementOfSeq
    <3> QED
      BY <3>2 DEF Begin
  <2>4. Written(q, b)'
    <3> HIDE DEF q, b
    <3>1. ASSUME NEW k \in 1 .. Len(q), b + k <= size PROVE bytes'[b + k] = q[k]
      <4>1. b + k \in 1 .. size /\ b + k <= Len(bytes)
        BY <1>3, <2>3, <3>1
      <4>2. bytes[b + k] = q[k]
        BY <2>2, <4>1 DEF Written
      <4> QED
        BY <1>4, <4>1, <4>2
    <3>2. \A k \in 1 .. Len(q') : b' + k <= Len(bytes') => bytes'[b' + k] = q'[k]
      BY <1>4, <2>1, <3>1
    <3> QED
      BY <3>2 DEF Written
  <2> QED
    BY <2>1, <2>4
<1>6. FileInv'
  <2>1. \A i \in 1 .. Len(script') :
           ends'[i] = Begin(i)' + Len(ItemAt(i)') /\ Written(ItemAt(i), Begin(i))'
    BY <1>1, <1>2, <1>5
  <2>2. reading'
    BY <1>1
  <2>3. /\ script' \in Seq(Items) /\ ends' \in Seq(Nat) /\ Len(ends') = Len(script')
    BY <1>1, <1>2
  <2> QED
    BY <1>4, <2>1, <2>2, <2>3 DEF FileInv
<1>7. ReaderInv'
  <2>1. Len(got) = 0 /\ Len(got') = 0 /\ got' = got /\ in' = in
    BY <1>1, <1>2
  <2>2. Sequence(got)'
    BY <2>1 DEF StreamInv, ReaderInv, Sequence
  <2>3. Begin(Len(got) + 1) = 0 /\ Begin(Len(got) + 1)' = 0
    BY <2>1 DEF Begin
  <2>4. /\ ~in.fail => Stands(in, 0)
        /\ in.fail => Failed(in)
    BY <2>3 DEF StreamInv, ReaderInv
  <2>5. 0 <= Len(bytes') /\ 0 <= Len(script')
    BY <1>1, <1>3, <1>4
  <2>6. /\ ~in'.fail => /\ Stands(in, Begin(Len(got) + 1))' /\ Begin(Len(got) + 1)' <= Len(bytes')
                       /\ \A i \in 1 .. Len(got') : got'[i] = Expected(i)'
        /\ in'.fail => Failed(in)'
    <3>1. ~in'.fail => Stands(in, Begin(Len(got) + 1))'
      BY <2>1, <2>3, <2>4 DEF Stands
    <3>2. in'.fail => Failed(in)'
      BY <2>1, <2>4 DEF Failed
    <3> QED
      BY <2>1, <2>3, <2>5, <3>1, <3>2
  <2>7. /\ Len(got') <= Len(script')
        /\ \A i \in 1 .. Len(got') :
              ends'[i] > Len(bytes') => in'.fail /\ NothingOf(script'[i], got'[i])
    BY <2>1, <2>5
  <2> QED
    BY <2>2, <2>6, <2>7 DEF ReaderInv
<1> QED
  BY <1>6, <1>7 DEF StreamInv

\* A read.
LEMMA StreamRead ==
    ASSUME NoBool, StreamInv, NEW kept \in Kept, ReadNext(kept)
    PROVE  StreamInv'
<1>15. PICK S : got \in Seq(S)
  BY DEF StreamInv, ReaderInv, Sequence
<1>16. Len(got) \in Nat
  BY <1>15, LenProperties
<1>17. PICK n \in Nat : n = Len(got)
  BY <1>16
<1> DEFINE item == script[n + 1]
           p == Begin(n + 1)
           w == Len(ItemBytes(item, p))
           r == ReadItem(in, item, kept)
<1>1. /\ reading /\ n < Len(script) /\ in' = r.in /\ got' = Append(got, r.value)
      /\ script' = script /\ ends' = ends /\ bytes' = bytes /\ reading' = reading
  BY <1>17 DEF ReadNext
<1>2. /\ bytes \in Seq(Byte) /\ script \in Seq(Items) /\ ends \in Seq(Nat)
      /\ Len(ends) = Len(script)
      /\ \A i \in 1 .. Len(script) :
            ends[i] = Begin(i) + Len(ItemAt(i)) /\ Written(ItemAt(i), Begin(i))
  BY DEF StreamInv, FileInv
<1>3. Len(script) \in Nat /\ Len(bytes) \in Nat /\ n + 1 \in 1 .. Len(script)
  BY <1>1, <1>2, LenProperties
<1>4. /\ item \in Items /\ p \in Nat /\ w \in Nat
      /\ ends[n + 1] = p + w /\ Written(ItemBytes(item, p), p)
  <2>1. item \in Items
    BY <1>2, <1>3, ElementOfSeq
  <2>2. n # 0 => n \in 1 .. Len(ends)
    BY <1>2, <1>3
  <2>3. n # 0 => ends[n] \in Nat
    BY <1>2, <2>2, ElementOfSeq
  <2>4. (n + 1) - 1 = n /\ (n + 1 = 1 <=> n = 0)
    OBVIOUS
  <2>5. p \in Nat
    BY <2>3, <2>4 DEF Begin
  <2>6. ItemAt(n + 1) = ItemBytes(item, p)
    BY DEF ItemAt
  <2>7. ItemBytes(item, p) \in Seq(Byte)
    BY <2>1, <2>5, ItemFacts, NoBool
  <2>8. w \in Nat
    BY <2>7, LenProperties
  <2>9. ends[n + 1] = p + w /\ Written(ItemBytes(item, p), p)
    <3>1. ends[n + 1] = Begin(n + 1) + Len(ItemAt(n + 1)) /\ Written(ItemAt(n + 1), Begin(n + 1))
      BY <1>2, <1>3
    <3> QED
      BY <2>6, <3>1
  <2> HIDE DEF item, p, w
  <2> QED
    BY <2>1, <2>5, <2>8, <2>9
<1>5. \A i : Begin(i)' = Begin(i) /\ Expected(i)' = Expected(i) /\ ItemAt(i)' = ItemAt(i)
  BY <1>1 DEF Begin, Expected, ItemAt
<1>6. /\ Sequence(got') /\ Len(got') = n + 1 /\ got'[n + 1] = r.value
      /\ \A i \in 1 .. n : got'[i] = got[i]
  <2> HIDE DEF r
  <2>1. got \in Seq(S \cup {r.value}) /\ r.value \in S \cup {r.value}
    BY <1>15
  <2>2. /\ Append(got, r.value) \in Seq(S \cup {r.value})
        /\ Len(Append(got, r.value)) = n + 1 /\ Append(got, r.value)[n + 1] = r.value
        /\ \A i \in 1 .. n : Append(got, r.value)[i] = got[i]
    BY <1>17, <2>1, AppendProperties
  <2> QED
    BY <1>1, <2>2 DEF Sequence
<1>7. FileInv'
  <2>1. \A i : Written(ItemAt(i), Begin(i))' <=> Written(ItemAt(i), Begin(i))
    BY <1>1, <1>5 DEF Written
  <2> QED
    BY <1>1, <1>2, <1>5, <2>1 DEF FileInv
<1>8. Begin(n + 2) = p + w
  <2>1. n + 2 # 1 /\ (n + 2) - 1 = n + 1
    OBVIOUS
  <2> QED
    BY <1>4, <2>1 DEF Begin
<1>9. Expected(n + 1) = IF item.op = "value" THEN item.entries ELSE w
  <2>1. Expected(n + 1) = IF item.op = "value" THEN item.entries ELSE ends[n + 1] - p
    BY DEF Expected, Begin
  <2>2. ends[n + 1] - p = w
    BY <1>4
  <2> QED
    BY <2>1, <2>2
<1>10. /\ ~in.fail => /\ Stands(in, p) /\ p <= Len(bytes)
                      /\ EmptyKept => \A i \in 1 .. n : got[i] = Expected(i)
       /\ in.fail => Failed(in)
       /\ \A i \in 1 .. n : ends[i] > Len(bytes) => in.fail /\ NothingOf(script[i], got[i])
  BY <1>17 DEF StreamInv, ReaderInv
<1>11. /\ ~in'.fail => /\ Stands(in', p + w) /\ p + w <= Len(bytes)
                       /\ EmptyKept => \A i \in 1 .. n + 1 : got'[i] = Expected(i)
       /\ in'.fail => Failed(in')
       /\ \A i \in 1 .. n + 1 : ends[i] > Len(bytes) => in'.fail /\ NothingOf(script[i], got'[i])
  <2>1. CASE ~in.fail /\ p + w <= Len(bytes)
    <3>1. Stands(in', p + w) /\ (EmptyKept => r.value = Expected(n + 1))
      <4>1. Stands(in, p) /\ p <= Len(bytes)
        BY <1>10, <2>1
      <4> HIDE DEF item, p
      <4> QED
        BY <1>1, <1>2, <1>4, <1>9, <2>1, <4>1, NoBool, ItemRead
    <3>2. ~in'.fail
      BY <3>1, StandsFacts
    <3>3. EmptyKept => \A i \in 1 .. n + 1 : got'[i] = Expected(i)
      BY <1>6, <1>10, <2>1, <3>1
    <3>4. \A i \in 1 .. n + 1 : ends[i] > Len(bytes) => in'.fail /\ NothingOf(script[i], got'[i])
      <4>1. \A i \in 1 .. n : ~(ends[i] > Len(bytes))
        BY <1>10, <2>1
      <4>2. ~(ends[n + 1] > Len(bytes))
        BY <1>3, <1>4, <2>1
      <4> QED
        BY <4>1, <4>2
    <3> QED
      BY <2>1, <3>1, <3>2, <3>3, <3>4
  <2>2. ASSUME Failed(in'), NothingOf(item, r.value)
        PROVE  /\ in'.fail
               /\ \A i \in 1 .. n + 1 :
                     ends[i] > Len(bytes) => in'.fail /\ NothingOf(script[i], got'[i])
    <3>1. in'.fail
      BY <2>2, FailedStays
    <3>2. NothingOf(script[n + 1], got'[n + 1])
      BY <1>6, <2>2
    <3>3. \A i \in 1 .. n : ends[i] > Len(bytes) => NothingOf(script[i], got'[i])
      BY <1>6, <1>10
    <3>4. \A i \in 1 .. n + 1 : i \in 1 .. n \/ i = n + 1
      OBVIOUS
    <3> QED
      BY <3>1, <3>2, <3>3, <3>4
  <2>3. CASE ~in.fail /\ ~(p + w <= Len(bytes))
    <3>1. Failed(in') /\ NothingOf(item, r.value)
      <4>1. Stands(in, p) /\ p <= Len(bytes) /\ p + w > Len(bytes)
        BY <1>3, <1>4, <1>10, <2>3
      <4> HIDE DEF item, p
      <4> QED
        BY <1>1, <1>2, <1>4, <4>1, NoBool, ItemRead
    <3> QED
      BY <2>2, <3>1
  <2>4. CASE in.fail
    <3>1. Failed(in') /\ NothingOf(item, r.value)
      <4>1. Failed(in)
        BY <1>10, <2>4
      <4> HIDE DEF item, p
      <4> QED
        BY <1>1, <1>4, <4>1, NoBool, ItemFailed
    <3> QED
      BY <2>2, <3>1
  <2> QED
    BY <2>1, <2>3, <2>4
<1>12. ReaderInv'
  <2>1. Len(got) + 1 = n + 1 /\ Begin(Len(got) + 1)' = p + w
    <3>1. Len(got') + 1 = n + 2
      BY <1>6
    <3>2. Begin(Len(got) + 1)' = Begin(n + 2)'
      BY <3>1 DEF Begin
    <3> QED
      BY <1>5, <1>8, <1>17, <3>2
  <2> HIDE DEF item, p, w, r
  <2>2. ~in'.fail => Stands(in, Begin(Len(got) + 1))' /\ Begin(Len(got) + 1)' <= Len(bytes')
    BY <1>1, <1>11, <2>1 DEF Stands
  <2>3. ~in'.fail /\ EmptyKept => \A i \in 1 .. Len(got') : got'[i] = Expected(i)'
    BY <1>5, <1>6, <1>11
  <2>4. in'.fail => Failed(in)'
    BY <1>11 DEF Failed
  <2>5. \A i \in 1 .. Len(got') :
           ends'[i] > Len(bytes') => in'.fail /\ NothingOf(script'[i], got'[i])
    BY <1>1, <1>6, <1>11
  <2>6. Len(got') <= Len(script') /\ Sequence(got)'
    BY <1>1, <1>3, <1>6 DEF Sequence
  <2> QED
    BY <2>2, <2>3, <2>4, <2>5, <2>6 DEF ReaderInv
<1> QED
  BY <1>7, <1>12 DEF StreamInv

LEMMA StreamStep == NoBool /\ StreamInv /\ [Next]_vars => StreamInv'
<1> SUFFICES ASSUME NoBool, StreamInv, [Next]_vars PROVE StreamInv'
  OBVIOUS
<1>1. ASSUME NEW shape \in Shapes, WriteValue(shape) PROVE StreamInv'
  <2>1. PICK n \in 0 .. MaxEntries :
           /\ ~shape.list => n = 1
           /\ \E entries \in [1 .. n -> Entries(shape.fields)] :
                 Put([op |-> "value", shape |-> shape, entries |-> entries])
    BY <1>1 DEF WriteValue
  <2>2. PICK entries \in [1 .. n -> Entries(shape.fields)] :
           Put([op |-> "value", shape |-> shape, entries |-> entries])
    BY <2>1
  <2>3. n \in IF shape.list THEN Nat ELSE {1}
    BY <2>1, BinaryStreamAssumption
  <2>4. [op |-> "value", shape |-> shape, entries |-> entries] \in Items
    <3>1. entries \in UNION {[1 .. k -> Entries(shape.fields)] :
                               k \in IF shape.list THEN Nat ELSE {1}}
      BY <2>2, <2>3
    <3>2. [op |-> "value", shape |-> shape, entries |-> entries]
             \in [op : {"value"}, shape : {shape},
                 entries : UNION {[1 .. k -> Entries(shape.fields)] :
                                    k \in IF shape.list THEN Nat ELSE {1}}]
      BY <3>1
    <3> QED
      BY <3>2 DEF Items
  <2> QED
    BY <2>2, <2>4, StreamPut
<1>2. ASSUME NEW n \in Sizes, WriteRaw(n) \/ AlignWriter(n) PROVE StreamInv'
  <2>1. PICK o \in {"raw", "align"} : Put([op |-> o, size |-> n])
    BY <1>2 DEF WriteRaw, AlignWriter
  <2>2. [op |-> o, size |-> n] \in Items
    BY DEF Items
  <2> QED
    BY <2>1, <2>2, StreamPut
<1>3. ASSUME NEW size \in 0 .. Len(bytes), Reopen(size) PROVE StreamInv'
  BY <1>3, StreamReopen
<1>4. ASSUME NEW kept \in Kept, ReadNext(kept) PROVE StreamInv'
  BY <1>4, StreamRead
<1>5. CASE UNCHANGED vars
  <2>1. /\ script' = script /\ ends' = ends /\ bytes' = bytes
        /\ reading' = reading /\ in' = in /\ got' = got
    BY <1>5 DEF vars
  <2>2. \A i : Begin(i)' = Begin(i) /\ Expected(i)' = Expected(i) /\ ItemAt(i)' = ItemAt(i)
    BY <2>1 DEF Begin, Expected, ItemAt
  <2>3. \A i : Written(ItemAt(i), Begin(i))' <=> Written(ItemAt(i), Begin(i))
    BY <2>1, <2>2 DEF Written
  <2>4. FileInv'
    BY <2>1, <2>2, <2>3 DEF StreamInv, FileInv, Begin
  <2>5. ReaderInv'
    BY <2>1, <2>2 DEF StreamInv, ReaderInv, Sequence, Stands, Failed, Begin
  <2> QED
    BY <2>4, <2>5 DEF StreamInv
<1> QED
  BY <1>1, <1>2, <1>3, <1>4, <1>5 DEF Next

----------------------------------------------------------------------------
(***************************************************************************)
(* The theorems.                                                           *)
(***************************************************************************)
LEMMA StreamAlways == NoBool => (Spec => []StreamInv)
<1> SUFFICES ASSUME NoBool PROVE Spec => []StreamInv
  OBVIOUS
<1>1. StreamInv /\ [Next]_vars => StreamInv'
  BY StreamStep
<1> QED
  BY <1>1, StreamInit, PTL DEF Spec

LEMMA GotDomain == StreamInv => DOMAIN got = 1 .. Len(got) /\ Len(got) \in Nat
<1> SUFFICES ASSUME StreamInv PROVE DOMAIN got = 1 .. Len(got) /\ Len(got) \in Nat
  OBVIOUS
<1>1. PICK S : got \in Seq(S)
  BY DEF StreamInv, ReaderInv, Sequence
<1> QED
  BY <1>1, LenProperties

\* A reader whose stream has not failed has what was written and stands where
\* the writer stood, whatever was written and read before (operator>>, align and
\* readRawData against operator<<, align and writeRawData).
THEOREM ReadBackAlways == NoBool /\ EmptyKept => (Spec => []ReadBack)
<1> SUFFICES ASSUME NoBool, EmptyKept PROVE Spec => []ReadBack
  OBVIOUS
<1>1. StreamInv => ReadBack
  <2> SUFFICES ASSUME StreamInv, ~in.fail
               PROVE  /\ \A i \in DOMAIN got : got[i] = Expected(i)
                      /\ reading /\ got # <<>> => in.pos = ends[Len(got)]
    BY DEF ReadBack
  <2>1. DOMAIN got = 1 .. Len(got) /\ Len(got) \in Nat
    BY GotDomain
  <2>2. /\ Stands(in, Begin(Len(got) + 1))
        /\ \A i \in 1 .. Len(got) : got[i] = Expected(i)
    BY DEF StreamInv, ReaderInv
  <2>3. in.pos = Begin(Len(got) + 1)
    BY <2>2, StandsFacts
  <2>4. got # <<>> => Len(got) # 0
    <3>1. PICK S : got \in Seq(S)
      BY DEF StreamInv, ReaderInv, Sequence
    <3> QED
      BY <3>1, EmptySeq
  <2>5. Len(got) # 0 => Begin(Len(got) + 1) = ends[Len(got)]
    BY <2>1 DEF Begin
  <2> QED
    BY <2>1, <2>2, <2>3, <2>4, <2>5
<1> QED
  BY <1>1, StreamAlways, PTL

\* A file that was cut makes the stream fail not later than at the item that lost
\* a byte: the second tellg of skipRawData and the sentry of every read see to it.
THEOREM CutReportedAlways == NoBool => (Spec => []CutReported)
<1> SUFFICES ASSUME NoBool PROVE Spec => []CutReported
  OBVIOUS
<1>1. StreamInv => CutReported
  BY GotDomain DEF StreamInv, ReaderInv, CutReported
<1> QED
  BY <1>1, StreamAlways, PTL

\* What a cut fell into, and all that is read after it, comes out empty: no
\* container is left with a part of its entries (readArrayBasedContainer,
\* readAssociativeContainer).
THEOREM NothingPartialAlways == NoBool => (Spec => []NothingPartial)
<1> SUFFICES ASSUME NoBool PROVE Spec => []NothingPartial
  OBVIOUS
<1>1. StreamInv => NothingPartial
  <2>1. \A i : NothingOf(script[i], got[i]) => Blank(i)
    BY DEF NothingOf, Blank
  <2> QED
    BY <2>1, GotDomain DEF StreamInv, ReaderInv, NothingPartial
<1> QED
  BY <1>1, StreamAlways, PTL
=============================================================================
