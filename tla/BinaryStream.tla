---------------------------- MODULE BinaryStream ----------------------------
(***************************************************************************)
(* OBinaryStream and IBinaryStream over a file: a program writes values,   *)
(* and the same sequence of reads is made later, of the whole file or of   *)
(* what a crash or a full disk has left of it.                             *)
(*                                                                         *)
(* A byte is known by what it is a part of: a number and which of its      *)
(* bytes, a character, or padding, which the writer takes from a buffer it *)
(* does not fill.  The streams of the standard library are modelled by the *)
(* rules of the C++ standard for read, ignore, tellg and their sentry.     *)
(***************************************************************************)
EXTENDS Integers, Sequences, SequencesExt

CONSTANTS
    Shapes,             \* what is written as a value: see Shape
    Numbers,            \* the numbers that are written
    Strings,            \* the strings: sequences of characters
    Kept,               \* what the strings of the reader hold beforehand
    Sizes,              \* the sizes of alignments and of raw data
    MaxItems,           \* bound of the model: values in the file
    MaxEntries          \* bound of the model: entries of a container

DATA_ALIGN == 4

\* A shape is one number or string, or a std::pair of two; or, as a list, a
\* std::vector, std::set (of one) or std::map (of two).
Scalar == {"bool", "int8", "int16", "int32", "int64", "string"}
Shape == [list : BOOLEAN, fields : {<<t>> : t \in Scalar} \cup Scalar \X Scalar]

ASSUME BinaryStreamAssumption ==
    /\ Shapes \subseteq Shape
    /\ Numbers \subseteq Nat
    /\ \A s \in Strings : s \in Seq({s[k] : k \in DOMAIN s})
    /\ Kept \subseteq Strings
    /\ Sizes \subseteq Nat \ {0}
    /\ MaxItems \in Nat /\ MaxEntries \in Nat

VARIABLES
    script,             \* what has been written, in order
    ends,               \* where each of it ended
    bytes,              \* the file
    reading,            \* the file has been closed, or cut, and opened again
    in,                 \* the std::istream: position, failbit and eofbit
    got                 \* the results of the reads

vars == <<script, ends, bytes, reading, in, got>>

----------------------------------------------------------------------------
(***************************************************************************)
(* Writing.                                                                *)
(***************************************************************************)

\* operator<< has no overload for bool: one is promoted to int.
WriteWidth(t) ==
    CASE t = "int8" -> 1 [] t = "int16" -> 2 [] t = "int64" -> 8 [] OTHER -> 4

NumberBytes(t, v) == [k \in 1 .. WriteWidth(t) |-> <<"number", v, k>>]

\* skipRawData of the writer.
Padding(n) == [k \in 1 .. n |-> <<"pad">>]

\* From len up to the next multiple of size.
Pad(len, size) == IF len % size = 0 THEN 0 ELSE size - (len % size)

\* Slip: the string is not padded.
StringBytesUnpadded(s) == NumberBytes("int32", Len(s)) \o s

StringBytes(s) ==
    NumberBytes("int32", Len(s)) \o s \o Padding(Pad(Len(s), DATA_ALIGN))

ScalarBytes(t, v) == IF t = "string" THEN StringBytes(v) ELSE NumberBytes(t, v)

EntryBytes(fields, entry) ==
    ScalarBytes(fields[1], entry[1])
    \o IF Len(fields) = 1 THEN <<>> ELSE ScalarBytes(fields[2], entry[2])

\* What an item adds to a file of length at.
ItemBytes(item, at) ==
    CASE item.op = "align" -> Padding(Pad(at, item.size))
      [] item.op = "raw" -> [k \in 1 .. item.size |-> <<"char", k>>]
      [] OTHER ->
            (IF item.shape.list THEN NumberBytes("int32", Len(item.entries)) ELSE <<>>)
            \o FlattenSeq([i \in DOMAIN item.entries |->
                              EntryBytes(item.shape.fields, item.entries[i])])

----------------------------------------------------------------------------
(***************************************************************************)
(* The std::istream.  Every function begins with a sentry, which fails on  *)
(* a stream that is not good, at its end for one.                          *)
(***************************************************************************)
Good(s) == ~s.fail /\ ~s.eof
Sentry(s) == [s EXCEPT !.fail = ~Good(s)]

Read(s, n) ==
    IF ~Good(s) THEN Sentry(s)
    ELSE IF s.pos + n <= Len(bytes) THEN [s EXCEPT !.pos = @ + n]
    ELSE [pos |-> Len(bytes), fail |-> TRUE, eof |-> TRUE]

Ignore(s, n) ==
    IF ~Good(s) THEN Sentry(s)
    ELSE IF s.pos + n <= Len(bytes) THEN [s EXCEPT !.pos = @ + n]
    ELSE [pos |-> Len(bytes), fail |-> FALSE, eof |-> TRUE]

\* tellg: the stream afterwards, and the result.
Told(s) == Sentry(s)
Tell(s) == IF Told(s).fail THEN -1 ELSE s.pos

----------------------------------------------------------------------------
(***************************************************************************)
(* Reading.  A read results in the stream and the value.                   *)
(***************************************************************************)
Result(s, v) == [in |-> s, value |-> v]

ReadWidth(t) == IF t = "bool" THEN 1 ELSE WriteWidth(t)

\* The number whose bytes stand at pos.  Numbers that nobody wrote there are
\* not told apart.
Decoded(pos, w) ==
    LET cell == bytes[pos + 1]
    IN  IF SubSeq(bytes, pos + 1, pos + w) = [k \in 1 .. w |-> <<"number", cell[2], k>>]
        THEN cell[2] ELSE 0

\* substate_readNum
ReadNumber(s, t) ==
    LET after == Read(s, ReadWidth(t))
    IN  Result(after, IF after.fail THEN 0 ELSE Decoded(s.pos, ReadWidth(t)))

\* Slip: the end of the file is left to the next read to notice.
SkipRawUntold(s, n) == Ignore(s, n)

\* skipRawData: the second tellg is what makes a stream fail that ends early.
SkipRaw(s, n) == Told(Ignore(Told(s), n))

\* operator>> of a string, into a variable that holds `kept'.
ReadString(s, kept) ==
    LET size == ReadNumber(s, "int32")
        chars == Read(size.in, size.value)
        pad == Pad(size.value, DATA_ALIGN)
        after == IF pad = 0 THEN chars ELSE SkipRaw(chars, pad)
    IN  IF size.in.fail \/ size.value = 0 THEN Result(size.in, kept)
        ELSE Result(after, IF Good(after)
                           THEN SubSeq(bytes, size.in.pos + 1, chars.pos)
                           ELSE kept)

ReadScalar(s, t, kept) == IF t = "string" THEN ReadString(s, kept) ELSE ReadNumber(s, t)

\* The second field after the first, whether or not the stream has failed.
ReadEntry(s, fields, kept) ==
    LET first == ReadScalar(s, fields[1], kept)
        second == ReadScalar(first.in, fields[2], kept)
    IN  IF Len(fields) = 1 THEN Result(first.in, <<first.value>>)
        ELSE Result(second.in, <<first.value, second.value>>)

\* Slip: a container keeps what it has got so far.
ReadListPartly(s, fields) ==
    LET n == ReadNumber(s, "int32")
        after[i \in 0 .. n.value] ==
            IF i = 0 THEN Result(n.in, <<>>)
            ELSE IF after[i - 1].in.fail THEN after[i - 1]
            ELSE LET r == ReadEntry(after[i - 1].in, fields, <<>>)
                 IN  Result(r.in, IF r.in.fail THEN after[i - 1].value
                                  ELSE Append(after[i - 1].value, r.value))
    IN  after[n.value]

\* readArrayBasedContainer, readAssociativeContainer, operator>> of a std::set:
\* until an entry fails, when the container is cleared.
ReadList(s, fields) ==
    LET n == ReadNumber(s, "int32")
        after[i \in 0 .. n.value] ==
            IF i = 0 THEN Result(n.in, <<>>)
            ELSE IF after[i - 1].in.fail THEN after[i - 1]
            ELSE LET r == ReadEntry(after[i - 1].in, fields, <<>>)
                 IN  Result(r.in, IF r.in.fail THEN <<>>
                                  ELSE Append(after[i - 1].value, r.value))
    IN  after[n.value]

\* readRawData and align return the distance that tellg has moved.
ReadRaw(s, n) ==
    LET after == Read(Told(s), n)
    IN  Result(Told(after), Tell(after) - Tell(s))

ReadAlign(s, size) ==
    LET n == Pad(Tell(s), size)
        after == Ignore(Told(s), n)
    IN  IF n = 0 THEN Result(Told(s), 0)
        ELSE Result(SkipRaw(Told(s), n), Tell(after) - Tell(s))

ReadItem(s, item, kept) ==
    CASE item.op = "align" -> ReadAlign(s, item.size)
      [] item.op = "raw" -> ReadRaw(s, item.size)
      [] item.op = "value" /\ item.shape.list -> ReadList(s, item.shape.fields)
      [] OTHER -> LET r == ReadEntry(s, item.shape.fields, kept)
                  IN  Result(r.in, <<r.value>>)

----------------------------------------------------------------------------
Init ==
    /\ script = <<>> /\ ends = <<>> /\ bytes = <<>>
    /\ reading = FALSE
    /\ in = [pos |-> 0, fail |-> FALSE, eof |-> FALSE]
    /\ got = <<>>

Put(item) ==
    /\ ~reading /\ Len(script) < MaxItems
    /\ script' = Append(script, item)
    /\ bytes' = bytes \o ItemBytes(item, Len(bytes))
    /\ ends' = Append(ends, Len(bytes'))
    /\ UNCHANGED <<reading, in, got>>

Contents(t) == IF t = "string" THEN Strings ELSE Numbers

Entries(fields) ==
    IF Len(fields) = 1 THEN {<<v>> : v \in Contents(fields[1])}
    ELSE Contents(fields[1]) \X Contents(fields[2])

\* A container has no two entries with the same first field: a std::map and a
\* std::set have none, and a std::vector does not care.
WriteValue(shape) ==
    \E n \in 0 .. MaxEntries :
        /\ ~shape.list => n = 1
        /\ \E entries \in [1 .. n -> Entries(shape.fields)] :
              /\ \A i, j \in 1 .. n : i # j => entries[i][1] # entries[j][1]
              /\ Put([op |-> "value", shape |-> shape, entries |-> entries])

WriteRaw(n) == Put([op |-> "raw", size |-> n])

AlignWriter(n) == Put([op |-> "align", size |-> n])

\* The file is closed as it is, or lacks its end.
Reopen(size) ==
    /\ ~reading /\ script # <<>>
    /\ reading' = TRUE
    /\ bytes' = SubSeq(bytes, 1, size)
    /\ UNCHANGED <<script, ends, in, got>>

\* The reader goes on after a failure: it need not look before its end.
ReadNext(kept) ==
    /\ reading /\ Len(got) < Len(script)
    /\ LET r == ReadItem(in, script[Len(got) + 1], kept)
       IN  /\ in' = r.in
           /\ got' = Append(got, r.value)
    /\ UNCHANGED <<script, ends, bytes, reading>>

Next ==
    \/ \E shape \in Shapes : WriteValue(shape)
    \/ \E n \in Sizes : WriteRaw(n)
    \/ \E n \in Sizes : AlignWriter(n)
    \/ \E size \in 0 .. Len(bytes) : Reopen(size)
    \/ \E kept \in Kept : ReadNext(kept)

Spec == Init /\ [][Next]_vars

----------------------------------------------------------------------------
(***************************************************************************)
(* Properties                                                              *)
(***************************************************************************)

\* The result that says that an item was read as it was written.
Expected(i) ==
    LET begin == IF i = 1 THEN 0 ELSE ends[i - 1]
    IN  IF script[i].op = "value" THEN script[i].entries ELSE ends[i] - begin

\* As long as the stream has not failed the reader has what was written, and
\* stands where the writer stood: the padding of strings and the alignments
\* keep both in step, whatever was written before.
ReadBack ==
    ~in.fail =>
        /\ \A i \in DOMAIN got : got[i] = Expected(i)
        /\ reading /\ got # <<>> => in.pos = ends[Len(got)]

\* A file that was cut is noticed not later than by the read of the item that
\* lost a byte, were it one of padding only.
CutReported ==
    \A i \in DOMAIN got : ends[i] > Len(bytes) => in.fail

\* What the cut fell into comes out empty, and so does all that follows: a
\* number is 0, a string as it was, and a container has no entries.  (A pair may
\* have its first half.)
Blank(i) ==
    LET item == script[i]
    IN  CASE item.op # "value" -> got[i] <= 0
          [] item.op = "value" /\ item.shape.list -> got[i] = <<>>
          [] OTHER ->
                LET last == Len(item.shape.fields)
                IN  IF item.shape.fields[last] = "string" THEN got[i][1][last] \in Kept
                    ELSE got[i][1][last] = 0

NothingPartial == \A i \in DOMAIN got : ends[i] > Len(bytes) => Blank(i)
=============================================================================
