--------------------------- MODULE ProtocolProofs ---------------------------
(***************************************************************************)
(* What TLAPS proves of Protocol, for any actions, any depth of calls      *)
(* within calls and any number of steps: who holds the lock, what is       *)
(* recorded when, and that the document is that of the current step.       *)
(***************************************************************************)
EXTENDS Protocol, SequenceTheorems, TLAPS

FrameOK(f) ==
    /\ f.call \in {"step", "reset"} <=> f.todo = <<>>
    /\ f.call \in {"edit", "setRoot"} => Len(f.todo) = 1
    /\ f.done => f.todo # <<>>

StateOK ==
    /\ TypeOK
    /\ current <= Len(stack)
    /\ \A i \in DOMAIN stack : stack[i] # <<>>
    /\ \A i \in DOMAIN frames : FrameOK(frames[i])

\* How calls nest and who has the lock while nobody leaves a transaction within
\* an action: an abort, an undo and a redo begin with no action under way, and
\* the lock belongs to the innermost call.
TopLocks ==
    /\ frames # <<>> /\ Top.todo # <<>>
    /\ Locks(Top.call, Head(Top.todo))

NestingOK ==
    /\ \A i \in DOMAIN frames :
          /\ frames[i].call \in {"edit", "setRoot", "abort"} => mstate = "Transaction"
          /\ frames[i].call = "undo" => mstate = "Undo"
          /\ frames[i].call = "redo" => mstate = "Redo"
          /\ frames[i].call \in {"abort", "undo", "redo"} =>
                \A j \in 1 .. i - 1 : frames[j].todo = <<>>
    /\ \A i \in 1 .. Len(frames) - 1 :
          frames[i].todo # <<>> => ~Locks(frames[i].call, Head(frames[i].todo))
    /\ locked = "held" <=> TopLocks
    /\ mstate # "Transaction" => txActions = <<>>

\* How the document, the recorded actions and the history agree while the client
\* does nothing of Calls.
Left(f) == IF f.done THEN Tail(f.todo) ELSE f.todo

Pending == IF frames # <<>> /\ Top.call = "edit" /\ Top.done THEN Top.todo ELSE <<>>

Chain ==
    /\ DOMAIN hist = min .. min + Len(stack)
    /\ \A k \in min .. min + Len(stack) : hist[k] \in Seq(Actions)
    /\ \A k \in 1 .. Len(stack) : hist[min + k] = hist[min + k - 1] \o stack[k]

DocumentOK ==
    /\ fault = "none"
    /\ Chain
    /\ \A i \in 1 .. Len(frames) - 1 :
          frames[i].todo # <<>> => Early(frames[i])
    /\ mstate = "Idle" => doc = hist[min + current]
    /\ mstate = "Transaction" /\ ~Aborting =>
          doc = hist[min + current] \o txActions \o Pending
    /\ frames # <<>> /\ Top.call = "abort" =>
          doc = hist[min + current] \o Reversed(Left(Top))
    /\ frames # <<>> /\ Top.call = "undo" =>
          /\ current > 0
          /\ doc = hist[min + current - 1] \o Reversed(Left(Top))
    /\ frames # <<>> /\ Top.call = "redo" =>
          /\ current < Len(stack)
          /\ hist[min + current + 1] = doc \o Left(Top)

IInv ==
    /\ StateOK
    /\ "leave" \notin slips => NestingOK
    /\ slips = {} => DocumentOK

----------------------------------------------------------------------------
(***************************************************************************)
(* Sequences of actions.                                                   *)
(***************************************************************************)

LEMMA PrefixFacts ==
    ASSUME NEW S, NEW s \in Seq(S), NEW n \in 0 .. Len(s)
    PROVE  /\ SubSeq(s, 1, n) \in Seq(S)
           /\ Len(SubSeq(s, 1, n)) = n
           /\ \A i \in 1 .. n : SubSeq(s, 1, n)[i] = s[i]
<1>1. Len(s) \in Nat /\ \A i \in 1 .. n : s[i] \in S
  BY ElementOfSeq, LenProperties
<1> QED
  BY <1>1, SubSeqProperties

\* Reversed turns a sequence round.
LEMMA ReversedFacts ==
    ASSUME NEW S, NEW s \in Seq(S)
    PROVE  /\ Reversed(s) \in Seq(S)
           /\ Len(Reversed(s)) = Len(s)
           /\ \A i \in 1 .. Len(s) : Reversed(s)[i] = s[Len(s) + 1 - i]
<1>1. Len(s) \in Nat
  BY LenProperties
<1>2. \A i \in 1 .. Len(s) : s[Len(s) + 1 - i] \in S
  BY <1>1, ElementOfSeq
<1> QED
  BY <1>1, <1>2 DEF Reversed

LEMMA ReversedTwice ==
    ASSUME NEW S, NEW s \in Seq(S)
    PROVE  Reversed(Reversed(s)) = s
<1>1. /\ Reversed(s) \in Seq(S) /\ Len(Reversed(s)) = Len(s)
      /\ \A i \in 1 .. Len(s) : Reversed(s)[i] = s[Len(s) + 1 - i]
  BY ReversedFacts
<1>2. /\ Reversed(Reversed(s)) \in Seq(S) /\ Len(Reversed(Reversed(s))) = Len(s)
      /\ \A i \in 1 .. Len(s) :
            Reversed(Reversed(s))[i] = Reversed(s)[Len(s) + 1 - i]
  BY <1>1, ReversedFacts
<1>3. Len(s) \in Nat
  BY LenProperties
<1>4. \A i \in 1 .. Len(s) : Reversed(Reversed(s))[i] = s[i]
  <2> TAKE i \in 1 .. Len(s)
  <2>1. Len(s) + 1 - i \in 1 .. Len(s) /\ Len(s) + 1 - (Len(s) + 1 - i) = i
    BY <1>3
  <2> QED
    BY <1>1, <1>2, <2>1
<1> QED
  BY <1>2, <1>4, SeqEqual

LEMMA ReversedEmpty == Reversed(<<>>) = <<>>
BY EmptySeq, ReversedFacts

\* The head of a sequence comes last in its reverse.
LEMMA ReversedHead ==
    ASSUME NEW S, NEW s \in Seq(S), s # <<>>
    PROVE  Reversed(s) = Append(Reversed(Tail(s)), Head(s))
<1> DEFINE t == Reversed(Tail(s))
<1>1. /\ Len(s) \in Nat \ {0}
      /\ Head(s) \in S /\ Head(s) = s[1]
      /\ Tail(s) \in Seq(S) /\ Len(Tail(s)) = Len(s) - 1
      /\ \A i \in 1 .. Len(s) - 1 : Tail(s)[i] = s[i + 1]
  BY EmptySeq, HeadTailProperties
<1>2. /\ t \in Seq(S) /\ Len(t) = Len(Tail(s))
      /\ \A i \in 1 .. Len(Tail(s)) : t[i] = Tail(s)[Len(Tail(s)) + 1 - i]
  BY <1>1, ReversedFacts
<1>3. \A i \in 1 .. Len(s) - 1 : t[i] = s[Len(s) + 1 - i]
  <2> TAKE i \in 1 .. Len(s) - 1
  <2>1. /\ Len(Tail(s)) + 1 - i \in 1 .. Len(s) - 1
        /\ Len(Tail(s)) + 1 - i + 1 = Len(s) + 1 - i
    BY <1>1
  <2> QED
    BY <1>1, <1>2, <2>1
<1> HIDE DEF t
<1>4. /\ Append(t, Head(s)) \in Seq(S) /\ Len(Append(t, Head(s))) = Len(t) + 1
      /\ \A i \in 1 .. Len(t) : Append(t, Head(s))[i] = t[i]
      /\ Append(t, Head(s))[Len(t) + 1] = Head(s)
  <2>1. t \in Seq(S) /\ Head(s) \in S
    BY <1>1, <1>2
  <2> QED
    BY ONLY <2>1, AppendProperties
<1>9. Len(t) = Len(s) - 1
  BY <1>1, <1>2
<1>5. \A i \in 1 .. Len(s) : Append(t, Head(s))[i] = s[Len(s) + 1 - i]
  BY <1>1, <1>3, <1>4, <1>9
<1>6. /\ Reversed(s) \in Seq(S) /\ Len(Reversed(s)) = Len(s)
      /\ \A i \in 1 .. Len(s) : Reversed(s)[i] = s[Len(s) + 1 - i]
  BY ReversedFacts
<1>8. \A i \in 1 .. Len(s) : Reversed(s)[i] = Append(t, Head(s))[i]
  BY <1>5, <1>6
<1>10. Len(Reversed(s)) = Len(Append(t, Head(s)))
  <2>1. Len(s) - 1 + 1 = Len(s)
    BY <1>1
  <2> QED
    BY <1>4, <1>6, <1>9, <2>1
<1>7. Reversed(s) = Append(t, Head(s))
  BY <1>4, <1>6, <1>8, <1>10, SeqEqual
<1> QED
  BY <1>7 DEF t

\* Appending to the second part of a document.
LEMMA AppendConcat ==
    ASSUME NEW S, NEW h \in Seq(S), NEW t \in Seq(S), NEW a \in S
    PROVE  /\ h \o Append(t, a) = Append(h \o t, a)
           /\ (h \o t) \o <<a>> = Append(h \o t, a)
<1>1. h \o t \in Seq(S) /\ <<a>> \in Seq(S)
  BY ConcatProperties
<1>2. Append(t, a) = t \o <<a>> /\ Append(h \o t, a) = (h \o t) \o <<a>>
  BY <1>1, AppendIsConcat
<1> QED
  BY <1>1, <1>2, ConcatAssociative

\* Undoing the first action of s, on the document that all of s has left.
LEMMA OneBack ==
    ASSUME NEW S, NEW h \in Seq(S), NEW s \in Seq(S), s # <<>>,
           NEW d \in Seq(S), d = h \o Reversed(s)
    PROVE  /\ d # <<>> /\ d[Len(d)] = Head(s)
           /\ SubSeq(d, 1, Len(d) - 1) = h \o Reversed(Tail(s))
<1> DEFINE e == h \o Reversed(Tail(s))
<1>1. Head(s) \in S /\ Tail(s) \in Seq(S)
  BY HeadTailProperties
<1>2. Reversed(Tail(s)) \in Seq(S)
  BY <1>1, ReversedFacts
<1>3. e \in Seq(S)
  BY <1>2, ConcatProperties
<1>4. d = Append(e, Head(s))
  <2>1. Reversed(s) = Append(Reversed(Tail(s)), Head(s))
    BY ReversedHead
  <2>2. h \o Append(Reversed(Tail(s)), Head(s)) = Append(e, Head(s))
    BY <1>1, <1>2, AppendConcat
  <2> QED
    BY <2>1, <2>2
<1> HIDE DEF e
<1>5. /\ d \in Seq(S) /\ Len(e) \in Nat /\ Len(d) = Len(e) + 1
      /\ d[Len(d)] = Head(s)
      /\ \A i \in 1 .. Len(e) : d[i] = e[i]
  BY <1>1, <1>3, <1>4, AppendProperties, LenProperties
<1>6. SubSeq(d, 1, Len(d) - 1) = e
  <2>1. /\ SubSeq(d, 1, Len(e)) \in Seq(S)
        /\ Len(SubSeq(d, 1, Len(e))) = Len(e)
        /\ \A i \in 1 .. Len(e) : SubSeq(d, 1, Len(e))[i] = d[i]
    <3>2. d \in Seq(S) /\ Len(e) \in 0 .. Len(d)
      BY <1>5
    <3> QED
      BY ONLY <3>2, PrefixFacts
  <2>2. \A i \in 1 .. Len(e) : SubSeq(d, 1, Len(e))[i] = e[i]
    BY <1>5, <2>1
  <2>3. SubSeq(d, 1, Len(e)) = e
    BY <1>3, <2>1, <2>2, SeqEqual
  <2> QED
    BY <1>5, <2>3
<1>7. d # <<>>
  BY <1>5, EmptySeq
<1> QED
  BY <1>5, <1>6, <1>7 DEF e

\* Doing the first action of s again.
LEMMA OneForth ==
    ASSUME NEW S, NEW d \in Seq(S), NEW s \in Seq(S), s # <<>>
    PROVE  Append(d, Head(s)) \o Tail(s) = d \o s
<1>1. Head(s) \in S /\ Tail(s) \in Seq(S) /\ <<Head(s)>> \in Seq(S)
  BY HeadTailProperties
<1>2. Append(d, Head(s)) = d \o <<Head(s)>>
  BY <1>1, AppendIsConcat
<1>3. s = <<Head(s)>> \o Tail(s)
  <2> DEFINE u == <<Head(s)>> \o Tail(s)
  <2>1. /\ Len(s) \in Nat \ {0} /\ Len(Tail(s)) = Len(s) - 1 /\ Head(s) = s[1]
        /\ \A i \in 1 .. Len(s) - 1 : Tail(s)[i] = s[i + 1]
    BY EmptySeq, HeadTailProperties
  <2>2. /\ u \in Seq(S) /\ Len(u) = Len(s)
        /\ \A i \in 1 .. Len(s) :
              u[i] = IF i <= 1 THEN <<Head(s)>>[i] ELSE Tail(s)[i - 1]
    BY <1>1, <2>1, ConcatProperties
  <2> HIDE DEF u
  <2>3. \A i \in 1 .. Len(s) : u[i] = s[i]
    BY <2>1, <2>2
  <2>4. u = s
    BY <2>2, <2>3, SeqEqual
  <2> QED
    BY <2>4 DEF u
<1>4. (d \o <<Head(s)>>) \o Tail(s) = d \o (<<Head(s)>> \o Tail(s))
  BY <1>1, ConcatAssociative
<1> QED
  BY <1>2, <1>3, <1>4

----------------------------------------------------------------------------
(***************************************************************************)
(* The stack of calls.                                                     *)
(***************************************************************************)
LEMMA CalledFacts ==
    ASSUME frames \in Seq(Frame), NEW call, NEW todo,
           [call |-> call, todo |-> todo, done |-> FALSE] \in Frame
    PROVE  /\ Called(call, todo) \in Seq(Frame)
           /\ Len(Called(call, todo)) = Len(frames) + 1
           /\ \A i \in 1 .. Len(frames) : Called(call, todo)[i] = frames[i]
           /\ Called(call, todo)[Len(frames) + 1]
                  = [call |-> call, todo |-> todo, done |-> FALSE]
BY AppendProperties DEF Called

LEMMA BelowFacts ==
    ASSUME frames \in Seq(Frame), frames # <<>>
    PROVE  /\ Len(frames) \in Nat \ {0}
           /\ Top \in Frame
           /\ Below \in Seq(Frame)
           /\ Len(Below) = Len(frames) - 1
           /\ \A i \in 1 .. Len(frames) - 1 : Below[i] = frames[i]
<1>1. Len(frames) \in Nat \ {0}
  BY EmptySeq
<1>2. \A i \in 1 .. Len(frames) : frames[i] \in Frame
  BY ElementOfSeq
<1>3. Len(frames) - 1 \in 0 .. Len(frames)
  BY <1>1
<1>4. /\ Below \in Seq(Frame)
      /\ Len(Below) = Len(frames) - 1
      /\ \A i \in 1 .. Len(frames) - 1 : Below[i] = frames[i]
  BY <1>3, PrefixFacts DEF Below
<1> QED
  BY <1>1, <1>2, <1>3, <1>4 DEF Top

LEMMA ReplacedFacts ==
    ASSUME frames \in Seq(Frame), frames # <<>>, NEW call, NEW todo, NEW done,
           [call |-> call, todo |-> todo, done |-> done] \in Frame
    PROVE  /\ Replaced(call, todo, done) \in Seq(Frame)
           /\ Len(Replaced(call, todo, done)) = Len(frames)
           /\ \A i \in 1 .. Len(frames) - 1 :
                 Replaced(call, todo, done)[i] = frames[i]
           /\ Replaced(call, todo, done)[Len(frames)]
                 = [call |-> call, todo |-> todo, done |-> done]
BY BelowFacts, AppendProperties DEF Replaced

----------------------------------------------------------------------------
(***************************************************************************)
(* A step that calls, that returns, or that goes on with the innermost     *)
(* call.                                                                   *)
(***************************************************************************)
LEMMA FramesType ==
    ASSUME StateOK
    PROVE  /\ frames \in Seq(Frame) /\ Len(frames) \in Nat
           /\ DOMAIN frames = 1 .. Len(frames)
           /\ frames # <<>> <=> Len(frames) > 0
           /\ frames # <<>> => Top \in Frame /\ FrameOK(Top)
<1>1. frames \in Seq(Frame)
  BY DEF StateOK, TypeOK
<1>2. Len(frames) \in Nat /\ DOMAIN frames = 1 .. Len(frames)
  BY <1>1, LenProperties
<1>3. frames # <<>> <=> Len(frames) > 0
  BY <1>1, <1>2, EmptySeq
<1>4. frames # <<>> => Top \in Frame /\ FrameOK(Top)
  BY <1>1, <1>2, <1>3, BelowFacts DEF Top, StateOK
<1> QED
  BY <1>1, <1>2, <1>3, <1>4

LEMMA CallStep ==
    ASSUME StateOK, NEW call, NEW todo, frames' = Called(call, todo),
           [call |-> call, todo |-> todo, done |-> FALSE] \in Frame,
           FrameOK([call |-> call, todo |-> todo, done |-> FALSE])
    PROVE  /\ frames' \in Seq(Frame) /\ frames' # <<>>
           /\ Len(frames') = Len(frames) + 1
           /\ DOMAIN frames' = 1 .. Len(frames')
           /\ \A i \in 1 .. Len(frames) : frames'[i] = frames[i]
           /\ Top' = [call |-> call, todo |-> todo, done |-> FALSE]
           /\ frames'[Len(frames) + 1] = Top'
           /\ \A i \in DOMAIN frames' : FrameOK(frames'[i])
<1>1. /\ frames \in Seq(Frame) /\ Len(frames) \in Nat
      /\ DOMAIN frames = 1 .. Len(frames)
  BY FramesType
<1>2. /\ frames' \in Seq(Frame) /\ Len(frames') = Len(frames) + 1
      /\ \A i \in 1 .. Len(frames) : frames'[i] = frames[i]
      /\ frames'[Len(frames) + 1] = [call |-> call, todo |-> todo, done |-> FALSE]
  BY <1>1, CalledFacts
<1>3. DOMAIN frames' = 1 .. Len(frames') /\ frames' # <<>>
  BY <1>1, <1>2, LenProperties, EmptySeq
<1>4. Top' = [call |-> call, todo |-> todo, done |-> FALSE]
  BY <1>2 DEF Top
<1>5. \A i \in DOMAIN frames' : FrameOK(frames'[i])
  <2> TAKE i \in DOMAIN frames'
  <2>1. i \in 1 .. Len(frames) \/ i = Len(frames) + 1
    BY <1>1, <1>2, <1>3
  <2> QED
    BY <1>1, <1>2, <2>1 DEF StateOK
<1> QED
  BY <1>2, <1>3, <1>4, <1>5

LEMMA ReturnStep ==
    ASSUME StateOK, frames # <<>>, frames' = Below
    PROVE  /\ frames' \in Seq(Frame)
           /\ Len(frames') = Len(frames) - 1
           /\ DOMAIN frames' = 1 .. Len(frames')
           /\ \A i \in 1 .. Len(frames) - 1 : frames'[i] = frames[i]
           /\ frames' # <<>> => /\ Len(frames) - 1 \in 1 .. Len(frames) - 1
                                /\ Top' = frames[Len(frames) - 1]
           /\ \A i \in DOMAIN frames' : FrameOK(frames'[i])
<1>1. /\ frames \in Seq(Frame) /\ Len(frames) \in Nat \ {0}
      /\ DOMAIN frames = 1 .. Len(frames)
  BY FramesType
<1>2. /\ frames' \in Seq(Frame) /\ Len(frames') = Len(frames) - 1
      /\ \A i \in 1 .. Len(frames) - 1 : frames'[i] = frames[i]
  BY <1>1, BelowFacts
<1>3. DOMAIN frames' = 1 .. Len(frames')
  BY <1>2, LenProperties
<1>4. frames' # <<>> => /\ Len(frames) - 1 \in 1 .. Len(frames) - 1
                        /\ Top' = frames[Len(frames) - 1]
  <2> HAVE frames' # <<>>
  <2>1. Len(frames') # 0
    BY <1>2, EmptySeq
  <2> QED
    BY <1>1, <1>2, <2>1 DEF Top
<1>5. \A i \in DOMAIN frames' : FrameOK(frames'[i])
  BY <1>1, <1>2, <1>3 DEF StateOK
<1> QED
  BY <1>2, <1>3, <1>4, <1>5

LEMMA GoOnStep ==
    ASSUME StateOK, frames # <<>>, NEW call, NEW todo, NEW done,
           frames' = Replaced(call, todo, done),
           [call |-> call, todo |-> todo, done |-> done] \in Frame,
           FrameOK([call |-> call, todo |-> todo, done |-> done])
    PROVE  /\ frames' \in Seq(Frame) /\ frames' # <<>>
           /\ Len(frames') = Len(frames)
           /\ DOMAIN frames' = 1 .. Len(frames')
           /\ \A i \in 1 .. Len(frames) - 1 : frames'[i] = frames[i]
           /\ Top' = [call |-> call, todo |-> todo, done |-> done]
           /\ frames'[Len(frames)] = Top'
           /\ \A i \in DOMAIN frames' : FrameOK(frames'[i])
<1>1. /\ frames \in Seq(Frame) /\ Len(frames) \in Nat \ {0}
      /\ DOMAIN frames = 1 .. Len(frames)
  BY FramesType
<1>2. /\ frames' \in Seq(Frame) /\ Len(frames') = Len(frames)
      /\ \A i \in 1 .. Len(frames) - 1 : frames'[i] = frames[i]
      /\ frames'[Len(frames)] = [call |-> call, todo |-> todo, done |-> done]
  BY <1>1, ReplacedFacts
<1>3. DOMAIN frames' = 1 .. Len(frames') /\ frames' # <<>>
  BY <1>1, <1>2, LenProperties, EmptySeq
<1>4. Top' = [call |-> call, todo |-> todo, done |-> done]
  BY <1>2 DEF Top
<1>5. \A i \in DOMAIN frames' : FrameOK(frames'[i])
  <2> TAKE i \in DOMAIN frames'
  <2>1. i \in 1 .. Len(frames) - 1 \/ i = Len(frames)
    BY <1>1, <1>2, <1>3
  <2> QED
    BY <1>1, <1>2, <2>1 DEF StateOK
<1> QED
  BY <1>2, <1>3, <1>4, <1>5

\* The invariant in the first state.
LEMMA InvInit == Init => IInv
<1> SUFFICES ASSUME Init PROVE IInv
  OBVIOUS
<1>1. <<>> \in Seq(Actions) /\ <<>> \in Seq(Seq(Actions)) /\ <<>> \in Seq(Frame)
      /\ Len(<<>>) = 0
  BY EmptySeq
<1>2. StateOK
  BY <1>1 DEF Init, StateOK, TypeOK
<1>3. NestingOK
  BY <1>1 DEF Init, NestingOK, TopLocks
<1>4. Chain
  BY <1>1 DEF Init, Chain
<1>5. ~Aborting /\ Pending = <<>> /\ <<>> \o <<>> = <<>>
  BY <1>1, ConcatEmptySeq DEF Init, Aborting, Pending
<1>6. DocumentOK
  BY <1>1, <1>4, <1>5 DEF Init, DocumentOK
<1> QED
  BY <1>2, <1>3, <1>6 DEF IInv

----------------------------------------------------------------------------
(***************************************************************************)
(* Calls.                                                                  *)
(***************************************************************************)
\* No action is under way outside of a transaction, an undo or a redo.
LEMMA IdleCalls ==
    ASSUME StateOK, NestingOK, mstate = "Idle"
    PROVE  \A i \in DOMAIN frames : frames[i].todo = <<>>
<1> TAKE i \in DOMAIN frames
<1>1. frames[i] \in Frame /\ FrameOK(frames[i])
  BY FramesType, ElementOfSeq DEF StateOK
<1>2. frames[i].call \notin {"edit", "setRoot", "abort", "undo", "redo"}
  BY DEF NestingOK
<1> QED
  BY <1>1, <1>2 DEF Frame, FrameOK

\* An edit begins, or setRoot.
LEMMA BeginStep ==
    ASSUME IInv, NEW call \in {"edit", "setRoot"}, NEW a \in Actions, ModelWritable,
           frames' = Called(call, <<a>>), locked' = Lock(call, a),
           UNCHANGED <<mstate, txActions, doc, engineVars, fault, hist>>,
           slips' \subseteq Calls, slips \subseteq slips',
           Midway => "reenter" \in slips'
    PROVE  IInv'
<1> DEFINE f == [call |-> call, todo |-> <<a>>, done |-> FALSE]
<1>1. /\ StateOK /\ mstate = "Transaction" /\ locked = "free"
      /\ locked' \in {"free", "held"}
      /\ locked' = "held" <=> Locks(call, a)
  BY DEF IInv, Lock, ModelWritable
<1>2. f \in Frame /\ FrameOK(f) /\ <<a>> # <<>> /\ Len(<<a>>) = 1 /\ Head(<<a>>) = a
  <2>1. <<a>> \in Seq(Actions) /\ Len(<<a>>) = 1 /\ <<a>> # <<>> /\ Head(<<a>>) = a
    OBVIOUS
  <2> QED
    BY <2>1 DEF Frame, FrameOK
<1>3. /\ frames' \in Seq(Frame) /\ frames' # <<>>
      /\ Len(frames') = Len(frames) + 1
      /\ DOMAIN frames' = 1 .. Len(frames')
      /\ \A i \in 1 .. Len(frames) : frames'[i] = frames[i]
      /\ Top' = f /\ frames'[Len(frames) + 1] = Top'
      /\ \A i \in DOMAIN frames' : FrameOK(frames'[i])
  BY <1>1, <1>2, CallStep
<1>4. /\ Len(frames) \in Nat /\ DOMAIN frames = 1 .. Len(frames)
      /\ frames # <<>> <=> Len(frames) > 0
  BY <1>1, FramesType
<1>6. StateOK'
  BY <1>1, <1>3 DEF StateOK, TypeOK, engineVars
<1>7. ASSUME "leave" \notin slips' PROVE NestingOK'
  <2>1. NestingOK
    BY <1>7 DEF IInv
  <2>2. frames # <<>> /\ Top.todo # <<>> => ~Locks(Top.call, Head(Top.todo))
    BY <1>1, <2>1 DEF NestingOK, TopLocks
  <2>3. \A i \in 1 .. Len(frames) :
           frames'[i].todo # <<>> => ~Locks(frames'[i].call, Head(frames'[i].todo))
    BY <1>3, <1>4, <2>1, <2>2 DEF NestingOK, Top
  <2>4. locked' = "held" <=> TopLocks'
    <3>1. Top'.call = call /\ Top'.todo = <<a>>
      BY <1>3
    <3>2. TopLocks' <=> Locks(call, a)
      BY ONLY <1>2, <1>3, <3>1 DEF TopLocks, Locks
    <3> QED
      BY <1>1, <3>2
  <2>5. ASSUME NEW i \in DOMAIN frames'
        PROVE  /\ frames'[i].call \in {"edit", "setRoot", "abort"} => mstate' = "Transaction"
               /\ frames'[i].call = "undo" => mstate' = "Undo"
               /\ frames'[i].call = "redo" => mstate' = "Redo"
               /\ frames'[i].call \in {"abort", "undo", "redo"} =>
                     \A j \in 1 .. i - 1 : frames'[j].todo = <<>>
    <3>1. CASE i = Len(frames) + 1
      BY <1>1, <1>3, <3>1
    <3>2. CASE i \in 1 .. Len(frames)
      BY <1>1, <1>3, <1>4, <2>1, <3>2 DEF NestingOK
    <3> QED
      BY <1>3, <1>4, <3>1, <3>2
  <2> QED
    BY <1>1, <1>3, <1>4, <2>1, <2>3, <2>4, <2>5, SMTT(60) DEF NestingOK
<1>8. ASSUME slips' = {} PROVE DocumentOK'
  <2>1. NestingOK /\ DocumentOK /\ ~Midway
    BY <1>8 DEF IInv
  <2>2. ~Aborting /\ ~Aborting'
    <3>1. ASSUME NEW i \in DOMAIN frames, frames[i].call = "abort" PROVE FALSE
      BY <1>1, <2>1, <3>1 DEF Midway, Early, StateOK, FrameOK
    <3> QED
      BY <1>3, <1>4, <3>1 DEF Aborting
  <2>3. Pending = <<>> /\ Pending' = <<>>
    BY <1>3, <1>4, <2>1, <1>1 DEF Pending, Midway, Early, Top, StateOK, FrameOK
  <2>4. Chain'
    BY <1>1, <2>1 DEF DocumentOK, Chain, engineVars
  <2>5. \A i \in 1 .. Len(frames') - 1 :
           frames'[i].todo # <<>> => Early(frames'[i])
    BY <1>3, <1>4, <2>1 DEF Midway
  <2> QED
    BY <1>1, <1>3, <2>1, <2>2, <2>3, <2>4, <2>5, SMTT(60)
       DEF DocumentOK, engineVars
<1> QED
  BY <1>6, <1>7, <1>8 DEF IInv

LEMMA EditStep == ASSUME IInv, NEW a \in Edits, Edit(a) PROVE IInv'
<1>1. a \in Actions /\ slips' \subseteq Calls /\ slips \subseteq slips'
      /\ (Midway => "reenter" \in slips')
  BY DEF Edit, Slip, Actions, IInv, StateOK, TypeOK
<1> QED
  BY <1>1, BeginStep DEF Edit

LEMMA SetRootStep ==
    ASSUME IInv, NEW a \in RootChanges \cup NullChanges, SetRoot(a) PROVE IInv'
<1>1. a \in Actions /\ slips' \subseteq Calls /\ slips \subseteq slips'
      /\ (Midway => "reenter" \in slips')
  BY DEF SetRoot, Slip, Actions, IInv, StateOK, TypeOK
<1> QED
  BY <1>1, BeginStep DEF SetRoot

\* A call from code that no action is waiting for.
LEMMA QuietCall ==
    ASSUME StateOK, \A i \in DOMAIN frames : frames[i].todo = <<>>,
           NEW call, NEW todo, frames' = Called(call, todo),
           [call |-> call, todo |-> todo, done |-> FALSE] \in Frame,
           FrameOK([call |-> call, todo |-> todo, done |-> FALSE]),
           call \in {"edit", "setRoot", "abort"} => mstate' = "Transaction",
           call = "undo" => mstate' = "Undo",
           call = "redo" => mstate' = "Redo",
           locked' = "held" <=> todo # <<>> /\ Locks(call, Head(todo)),
           mstate' # "Transaction" => txActions' = <<>>
    PROVE  /\ NestingOK'
           /\ \A i \in 1 .. Len(frames') - 1 : frames'[i].todo = <<>>
           /\ Pending = <<>> /\ Pending' = <<>>
           /\ ~Aborting
<1> DEFINE f == [call |-> call, todo |-> todo, done |-> FALSE]
<1>1. /\ frames' # <<>>
      /\ Len(frames') = Len(frames) + 1
      /\ DOMAIN frames' = 1 .. Len(frames')
      /\ \A i \in 1 .. Len(frames) : frames'[i] = frames[i]
      /\ Top' = f /\ frames'[Len(frames) + 1] = Top'
  BY CallStep
<1>2. /\ Len(frames) \in Nat /\ DOMAIN frames = 1 .. Len(frames)
      /\ frames # <<>> <=> Len(frames) > 0
      /\ frames # <<>> => FrameOK(Top)
  BY FramesType
<1>3. \A i \in DOMAIN frames : frames[i].call \in {"step", "reset"}
  BY DEF StateOK, FrameOK
<1>4. \A i \in 1 .. Len(frames') - 1 :
         frames'[i].todo = <<>> /\ frames'[i].call \in {"step", "reset"}
  BY <1>1, <1>2, <1>3
<1>5. Pending = <<>> /\ Pending' = <<>>
  BY <1>1, <1>2, <1>3 DEF Pending, Top
<1>6. ~Aborting
  BY <1>3 DEF Aborting
<1>7. locked' = "held" <=> TopLocks'
  <2>1. Top'.call = call /\ Top'.todo = todo
    BY <1>1
  <2>2. TopLocks' <=> todo # <<>> /\ Locks(call, Head(todo))
    BY ONLY <1>1, <2>1 DEF TopLocks, Locks
  <2> QED
    BY <2>2
<1>8. ASSUME NEW i \in DOMAIN frames'
      PROVE  /\ frames'[i].call \in {"edit", "setRoot", "abort"} => mstate' = "Transaction"
             /\ frames'[i].call = "undo" => mstate' = "Undo"
             /\ frames'[i].call = "redo" => mstate' = "Redo"
             /\ \A j \in 1 .. i - 1 : frames'[j].todo = <<>>
  <2>1. CASE i = Len(frames) + 1
    BY <1>1, <1>2, <1>4, <2>1
  <2>2. CASE i \in 1 .. Len(frames)
    BY <1>1, <1>2, <1>4, <2>2
  <2> QED
    BY <1>1, <1>2, <2>1, <2>2
<1>9. NestingOK'
  BY <1>4, <1>7, <1>8 DEF NestingOK
<1> QED
  BY <1>4, <1>5, <1>6, <1>9

\* The innermost call returns, and with it its action, if it has one.
LEMMA Returning ==
    ASSUME StateOK, NestingOK, frames # <<>>, frames' = Below, locked' # "held",
           \/ mstate' = mstate
           \/ \A i \in 1 .. Len(frames) - 1 : frames[i].todo = <<>>,
           mstate' # "Transaction" => txActions' = <<>>
    PROVE  NestingOK'
<1>1. /\ Len(frames') = Len(frames) - 1
      /\ DOMAIN frames' = 1 .. Len(frames')
      /\ \A i \in 1 .. Len(frames) - 1 : frames'[i] = frames[i]
      /\ frames' # <<>> => /\ Len(frames) - 1 \in 1 .. Len(frames) - 1
                           /\ Top' = frames[Len(frames) - 1]
      /\ \A i \in DOMAIN frames' : FrameOK(frames'[i])
  BY ReturnStep
<1>2. Len(frames) \in Nat \ {0} /\ DOMAIN frames = 1 .. Len(frames)
  BY FramesType
<1>3. ~TopLocks'
  <2> SUFFICES ASSUME TopLocks' PROVE FALSE
    OBVIOUS
  <2>1. frames' # <<>> /\ Top'.todo # <<>> /\ Locks(Top'.call, Head(Top'.todo))
    BY DEF TopLocks, Locks
  <2> QED
    BY <1>1, <2>1 DEF NestingOK
<1>4. ASSUME NEW i \in DOMAIN frames'
      PROVE  /\ frames'[i].call \in {"edit", "setRoot", "abort"} => mstate' = "Transaction"
             /\ frames'[i].call = "undo" => mstate' = "Undo"
             /\ frames'[i].call = "redo" => mstate' = "Redo"
             /\ frames'[i].call \in {"abort", "undo", "redo"} =>
                   \A j \in 1 .. i - 1 : frames'[j].todo = <<>>
  <2>1. i \in 1 .. Len(frames) - 1 /\ i \in DOMAIN frames
    BY <1>1, <1>2
  <2>2. CASE mstate' = mstate
    BY <1>1, <1>2, <2>1, <2>2 DEF NestingOK
  <2>3. CASE \A j \in 1 .. Len(frames) - 1 : frames[j].todo = <<>>
    BY <1>1, <2>1, <2>3 DEF FrameOK
  <2> QED
    BY <2>2, <2>3
<1>5. \A i \in 1 .. Len(frames') - 1 :
         frames'[i].todo # <<>> => ~Locks(frames'[i].call, Head(frames'[i].todo))
  BY <1>1, <1>2 DEF NestingOK
<1> QED
  BY <1>3, <1>4, <1>5 DEF NestingOK

\* The innermost call goes on with its actions, or to its StepChange.
LEMMA GoingOn ==
    ASSUME StateOK, NestingOK, frames # <<>>, NEW call, NEW todo, NEW done,
           frames' = Replaced(call, todo, done),
           [call |-> call, todo |-> todo, done |-> done] \in Frame,
           FrameOK([call |-> call, todo |-> todo, done |-> done]),
           \/ call = Top.call /\ mstate' = mstate
           \/ /\ call = "step"
              /\ \A i \in 1 .. Len(frames) - 1 : frames[i].todo = <<>>,
           locked' = "held" <=> todo # <<>> /\ Locks(call, Head(todo)),
           mstate' # "Transaction" => txActions' = <<>>
    PROVE  NestingOK'
<1> DEFINE f == [call |-> call, todo |-> todo, done |-> done]
<1>1. /\ frames' # <<>>
      /\ Len(frames') = Len(frames)
      /\ DOMAIN frames' = 1 .. Len(frames')
      /\ \A i \in 1 .. Len(frames) - 1 : frames'[i] = frames[i]
      /\ Top' = f /\ frames'[Len(frames)] = Top'
      /\ \A i \in DOMAIN frames' : FrameOK(frames'[i])
  BY GoOnStep
<1>2. Len(frames) \in Nat \ {0} /\ DOMAIN frames = 1 .. Len(frames)
  BY FramesType
<1>3. locked' = "held" <=> TopLocks'
  <2>1. Top'.call = call /\ Top'.todo = todo
    BY <1>1
  <2>2. TopLocks' <=> todo # <<>> /\ Locks(call, Head(todo))
    BY ONLY <1>1, <2>1 DEF TopLocks, Locks
  <2> QED
    BY <2>2
<1>4. ASSUME NEW i \in DOMAIN frames'
      PROVE  /\ frames'[i].call \in {"edit", "setRoot", "abort"} => mstate' = "Transaction"
             /\ frames'[i].call = "undo" => mstate' = "Undo"
             /\ frames'[i].call = "redo" => mstate' = "Redo"
             /\ frames'[i].call \in {"abort", "undo", "redo"} =>
                   \A j \in 1 .. i - 1 : frames'[j].todo = <<>>
  <2>1. CASE call = Top.call /\ mstate' = mstate
    <3>1. i \in DOMAIN frames /\ frames'[i].call = frames[i].call
      BY <1>1, <1>2, <2>1 DEF Top
    <3>2. \A j \in 1 .. i - 1 : frames'[j] = frames[j]
      BY <1>1, <1>2
    <3> QED
      BY <2>1, <3>1, <3>2 DEF NestingOK
  <2>2. CASE /\ call = "step"
             /\ \A j \in 1 .. Len(frames) - 1 : frames[j].todo = <<>>
    <3>1. CASE i = Len(frames)
      BY <1>1, <2>2, <3>1
    <3>2. CASE i \in 1 .. Len(frames) - 1
      BY <1>1, <2>2, <3>2 DEF FrameOK
    <3> QED
      BY <1>1, <1>2, <3>1, <3>2
  <2> QED
    BY <2>1, <2>2
<1>5. \A i \in 1 .. Len(frames') - 1 :
         frames'[i].todo # <<>> => ~Locks(frames'[i].call, Head(frames'[i].todo))
  BY <1>1 DEF NestingOK
<1> QED
  BY <1>3, <1>4, <1>5 DEF NestingOK

\* In a transaction whose actions are all done, the document is made of the
\* current step and the recorded actions.
LEMMA QuietDocument ==
    ASSUME StateOK, NestingOK, DocumentOK,
           \A i \in DOMAIN frames : frames[i].todo = <<>>
    PROVE  doc = hist[min + current] \o txActions \/ mstate # "Transaction"
<1>1. \A i \in DOMAIN frames : frames[i].call \in {"step", "reset"}
  BY DEF StateOK, FrameOK
<1>2. ~Aborting
  BY <1>1 DEF Aborting
<1>3. Pending = <<>>
  BY <1>1, FramesType DEF Pending, Top
<1>4. CASE mstate = "Transaction"
  <2>1. hist[min + current] \o txActions \in Seq(Actions)
    <3>1. /\ hist[min + current] \in Seq(Actions)
          /\ txActions \in Seq(Actions)
      BY DEF StateOK, TypeOK, DocumentOK, Chain
    <3> QED
      BY <3>1, ConcatProperties
  <2> QED
    BY <1>2, <1>3, <1>4, <2>1, ConcatEmptySeq DEF DocumentOK
<1> QED
  BY <1>4

LEMMA BeginTransactionStep == ASSUME IInv, BeginTransaction PROVE IInv'
<1>1. /\ StateOK /\ mstate = "Idle" /\ mstate' = "Transaction"
      /\ UNCHANGED <<locked, frames, txActions, doc, stack, min, current, fault,
                     hist, slips>>
  BY DEF BeginTransaction, IInv, engineVars
<1>2. StateOK'
  BY <1>1 DEF StateOK, TypeOK
<1>3. ASSUME "leave" \notin slips
      PROVE  NestingOK /\ \A i \in DOMAIN frames : frames[i].todo = <<>>
  BY <1>1, <1>3, IdleCalls DEF IInv
<1>4. ASSUME "leave" \notin slips PROVE NestingOK'
  <2>1. \A i \in DOMAIN frames : frames[i].call \in {"step", "reset"}
    BY <1>1, <1>3, <1>4 DEF StateOK, FrameOK
  <2>2. TopLocks' <=> TopLocks
    BY <1>1 DEF TopLocks, Top, Locks
  <2> QED
    BY <1>1, <1>3, <1>4, <2>1, <2>2 DEF NestingOK
<1>5. ASSUME slips = {} PROVE DocumentOK'
  <2>1. NestingOK /\ DocumentOK /\ \A i \in DOMAIN frames : frames[i].todo = <<>>
    BY <1>3, <1>5 DEF IInv
  <2>2. txActions = <<>>
    BY <1>1, <2>1 DEF NestingOK
  <2>3. \A i \in DOMAIN frames : frames[i].call \in {"step", "reset"}
    BY <1>1, <2>1 DEF StateOK, FrameOK
  <2>4. Pending = <<>> /\ Pending' = <<>> /\ Chain'
    <3>1. Pending = <<>>
      BY <1>1, <2>3, FramesType DEF Pending, Top
    <3>2. Pending' = Pending
      BY ONLY <1>1 DEF Pending, Top
    <3>3. Chain'
      BY <1>1, <2>1 DEF DocumentOK, Chain
    <3> QED
      BY <3>1, <3>2, <3>3
  <2>5. doc = hist[min + current] \o <<>> \o <<>>
    <3>1. doc = hist[min + current] /\ hist[min + current] \in Seq(Actions)
      BY <1>1, <2>1 DEF DocumentOK, Chain, StateOK, TypeOK
    <3> QED
      BY <3>1, ConcatEmptySeq
  <2> QED
    BY <1>1, <2>1, <2>2, <2>3, <2>4, <2>5, FramesType DEF DocumentOK, Top
<1> QED
  BY <1>1, <1>2, <1>4, <1>5 DEF IInv

LEMMA LeaveNothingStep == ASSUME IInv, LeaveNothing PROVE IInv'
<1>1. /\ StateOK /\ mstate = "Transaction" /\ mstate' = "Idle" /\ txActions = <<>>
      /\ UNCHANGED <<locked, frames, txActions, doc, stack, min, current, fault, hist>>
      /\ slips' \subseteq Calls /\ slips \subseteq slips'
      /\ Acting => "leave" \in slips'
  BY DEF LeaveNothing, Leaving, Slip, IInv, StateOK, TypeOK, engineVars
<1>2. StateOK'
  BY <1>1 DEF StateOK, TypeOK
<1>3. ASSUME "leave" \notin slips'
      PROVE  /\ NestingOK
             /\ \A i \in DOMAIN frames : frames[i].todo = <<>>
             /\ \A i \in DOMAIN frames : frames[i].call \in {"step", "reset"}
  <2>1. NestingOK /\ \A i \in DOMAIN frames : frames[i].todo = <<>>
    BY <1>1, <1>3 DEF IInv, Acting
  <2> QED
    BY <1>1, <2>1 DEF StateOK, FrameOK
<1>4. ASSUME "leave" \notin slips' PROVE NestingOK'
  <2>1. TopLocks' <=> TopLocks
    BY <1>1 DEF TopLocks, Top, Locks
  <2> QED
    BY <1>1, <1>3, <1>4, <2>1 DEF NestingOK
<1>5. ASSUME slips' = {} PROVE DocumentOK'
  <2>1. NestingOK /\ DocumentOK
    BY <1>1, <1>3, <1>5 DEF IInv
  <2>2. doc = hist[min + current]
    <3>1. doc = hist[min + current] \o <<>>
      BY <1>1, <1>3, <1>5, <2>1, QuietDocument
    <3>2. hist[min + current] \in Seq(Actions)
      BY <1>1, <2>1 DEF DocumentOK, Chain, StateOK, TypeOK
    <3> QED
      BY <3>1, <3>2, ConcatEmptySeq
  <2>3. Chain'
    BY <1>1, <2>1 DEF DocumentOK, Chain
  <2> QED
    BY <1>1, <1>3, <1>5, <2>1, <2>2, <2>3, FramesType DEF DocumentOK, Top
<1> QED
  BY <1>2, <1>4, <1>5 DEF IInv

LEMMA LeaveAbortStep == ASSUME IInv, LeaveAbort PROVE IInv'
<1>1. /\ StateOK /\ Aborting /\ fault' = "iterators"
      /\ UNCHANGED <<mstate, locked, frames, txActions, doc, stack, min, current, hist>>
      /\ slips' \subseteq Calls
      /\ Acting => "leave" \in slips'
  BY DEF LeaveAbort, Leaving, Slip, IInv, StateOK, TypeOK, engineVars
<1>2. Acting
  BY <1>1 DEF Aborting, Acting, StateOK, FrameOK
<1>3. StateOK'
  BY <1>1 DEF StateOK, TypeOK
<1> QED
  BY <1>1, <1>2, <1>3 DEF IInv

\* The stack that commit leaves, with and without the trim at the front.
LEMMA CommitFacts ==
    ASSUME StateOK, Engine!CommitWindow(txActions)
    PROVE  \E d \in 0 .. current :
              /\ stack' \in Seq(Seq(Actions))
              /\ Len(stack') = current + 1 - d
              /\ min' = min + d
              /\ current' = current + 1 - d
              /\ \A i \in 1 .. current - d : stack'[i] = stack[i + d]
              /\ stack'[current + 1 - d] = txActions
<1> DEFINE kept == SubSeq(stack, 1, current)
           pushed == Append(kept, txActions)
<1>1. /\ stack \in Seq(Seq(Actions)) /\ current \in Nat /\ min \in Nat
      /\ current \in 0 .. Len(stack) /\ txActions \in Seq(Actions)
      /\ MaxSteps \in Nat /\ MaxSteps >= 4 /\ Len(stack) \in Nat
  BY ProtocolAssumption DEF StateOK, TypeOK
<1>2. /\ kept \in Seq(Seq(Actions)) /\ Len(kept) = current
      /\ \A i \in 1 .. current : kept[i] = stack[i]
  BY <1>1, PrefixFacts
<1>3. /\ pushed \in Seq(Seq(Actions)) /\ Len(pushed) = current + 1
      /\ \A i \in 1 .. current : pushed[i] = kept[i]
      /\ pushed[current + 1] = txActions
  BY <1>1, <1>2, AppendProperties
<1>4. pushed = Engine!Pushed(txActions)
  BY DEF Engine!Pushed, Engine!Truncated
<1> HIDE DEF kept, pushed
<1>5. CASE current + 1 > 2 * MaxSteps
  <2>1. /\ stack' = SubSeq(pushed, MaxSteps + 1, current + 1)
        /\ min' = min + MaxSteps /\ current' = current + 1 - MaxSteps
    BY <1>4, <1>5 DEF Engine!CommitWindow
  <2>2. /\ stack' \in Seq(Seq(Actions)) /\ Len(stack') = current + 1 - MaxSteps
        /\ \A i \in 1 .. current + 1 - MaxSteps : stack'[i] = pushed[MaxSteps + i]
    <3>1. /\ pushed \in Seq(Seq(Actions)) /\ Len(pushed) = current + 1
          /\ MaxSteps + 1 \in 1 .. Len(pushed) + 1
          /\ current + 1 \in 0 .. Len(pushed)
          /\ current \in Nat /\ MaxSteps \in Nat /\ MaxSteps + 1 <= current + 1
      BY <1>1, <1>3, <1>5
    <3>2. \A i \in 1 .. Len(pushed) : pushed[i] \in Seq(Actions)
      BY ONLY <3>1, ElementOfSeq
    <3>3. /\ SubSeq(pushed, MaxSteps + 1, current + 1) \in Seq(Seq(Actions))
          /\ Len(SubSeq(pushed, MaxSteps + 1, current + 1)) = current + 1 - MaxSteps
          /\ \A i \in 1 .. current + 1 - MaxSteps :
                SubSeq(pushed, MaxSteps + 1, current + 1)[i] = pushed[MaxSteps + i]
      <4>1. /\ MaxSteps + 1 \in Int /\ current + 1 \in Int
            /\ \A i \in MaxSteps + 1 .. current + 1 : pushed[i] \in Seq(Actions)
        BY ONLY <3>1, <3>2
      <4>2. /\ SubSeq(pushed, MaxSteps + 1, current + 1) \in Seq(Seq(Actions))
            /\ Len(SubSeq(pushed, MaxSteps + 1, current + 1)) =
                  IF MaxSteps + 1 <= current + 1
                  THEN (current + 1) - (MaxSteps + 1) + 1 ELSE 0
            /\ \A i \in 1 .. (current + 1) - (MaxSteps + 1) + 1 :
                  SubSeq(pushed, MaxSteps + 1, current + 1)[i]
                      = pushed[(MaxSteps + 1) + i - 1]
        BY ONLY <4>1, SubSeqProperties
      <4>3. (current + 1) - (MaxSteps + 1) + 1 = current + 1 - MaxSteps
        BY ONLY <3>1
      <4>4. \A i \in 1 .. current + 1 - MaxSteps : (MaxSteps + 1) + i - 1 = MaxSteps + i
        BY ONLY <3>1
      <4> QED
        BY ONLY <3>1, <4>2, <4>3, <4>4
    <3> QED
      BY ONLY <2>1, <3>3
  <2>3. \A i \in 1 .. current - MaxSteps : stack'[i] = stack[i + MaxSteps]
    <3> TAKE i \in 1 .. current - MaxSteps
    <3>1. /\ i \in 1 .. current + 1 - MaxSteps
          /\ MaxSteps + i \in 1 .. current /\ MaxSteps + i = i + MaxSteps
      BY <1>1, <1>5
    <3> QED
      BY ONLY <1>2, <1>3, <2>2, <3>1
  <2>4. stack'[current + 1 - MaxSteps] = txActions
    <3>1. /\ current + 1 - MaxSteps \in 1 .. current + 1 - MaxSteps
          /\ MaxSteps + (current + 1 - MaxSteps) = current + 1
      BY <1>1, <1>5
    <3> QED
      BY ONLY <1>3, <2>2, <3>1
  <2>5. MaxSteps \in 0 .. current
    BY <1>1, <1>5
  <2> QED
    BY <2>1, <2>2, <2>3, <2>4, <2>5
<1>6. CASE ~(current + 1 > 2 * MaxSteps)
  <2>1. stack' = pushed /\ min' = min /\ current' = current + 1
    BY <1>4, <1>6 DEF Engine!CommitWindow
  <2>2. 0 \in 0 .. current
    BY <1>1
  <2> QED
    BY <1>1, <1>2, <1>3, <2>1, <2>2
<1> QED
  BY <1>5, <1>6

LEMMA CommitStep == ASSUME IInv, Commit PROVE IInv'
<1>1. /\ StateOK /\ mstate = "Transaction" /\ mstate' = "Idle"
      /\ txActions # <<>> /\ txActions' = <<>>
      /\ Engine!CommitWindow(txActions)
      /\ frames' = Called("step", <<>>)
      /\ UNCHANGED <<locked, doc, fault>>
      /\ slips' \subseteq Calls /\ slips \subseteq slips'
      /\ Acting => "leave" \in slips'
      /\ hist' = [k \in min' .. min' + current' |->
                     IF k <= min + current THEN hist[k] ELSE doc]
  BY DEF Commit, Leaving, Slip, IInv, StateOK, TypeOK, engineVars, Engine!currentStep
<1>2. PICK d \in 0 .. current :
         /\ stack' \in Seq(Seq(Actions))
         /\ Len(stack') = current + 1 - d
         /\ min' = min + d
         /\ current' = current + 1 - d
         /\ \A i \in 1 .. current - d : stack'[i] = stack[i + d]
         /\ stack'[current + 1 - d] = txActions
  BY <1>1, CommitFacts
<1> DEFINE f == [call |-> "step", todo |-> <<>>, done |-> FALSE]
<1>3. f \in Frame /\ FrameOK(f) /\ <<>> \in Seq(Actions)
  BY EmptySeq DEF Frame, FrameOK
<1>4. /\ frames' \in Seq(Frame) /\ Top' = f /\ frames' # <<>>
      /\ \A i \in DOMAIN frames' : FrameOK(frames'[i])
  BY <1>1, <1>3, CallStep
<1>5. /\ current \in Nat /\ min \in Nat /\ Len(stack) \in Nat /\ current <= Len(stack)
      /\ doc \in Seq(Actions) /\ txActions \in Seq(Actions)
      /\ \A i \in 1 .. Len(stack) : stack[i] # <<>>
  BY <1>1 DEF StateOK, TypeOK
<1>6. \A i \in 1 .. Len(stack') : stack'[i] # <<>>
  <2> TAKE i \in 1 .. Len(stack')
  <2>1. CASE i = current + 1 - d
    BY <1>1, <1>2, <2>1
  <2>2. CASE i # current + 1 - d
    <3>1. i \in 1 .. current - d /\ i + d \in 1 .. Len(stack)
      BY <1>2, <1>5, <2>2
    <3> QED
      BY <1>2, <1>5, <3>1
  <2> QED
    BY <2>1, <2>2
<1>7. StateOK'
  <2>3. /\ mstate' \in {"Idle", "Transaction", "Undo", "Redo"}
        /\ locked' \in {"free", "held", "garbage"}
        /\ fault' \in {"none", "misfit", "iterators"} /\ slips' \subseteq Calls
    BY <1>1 DEF TypeOK, StateOK
  <2>4. /\ frames' \in Seq(Frame) /\ txActions' \in Seq(Actions)
        /\ doc' \in Seq(Actions)
    BY <1>1, <1>3, <1>4, <1>5
  <2>5. stack' \in Seq(Seq(Actions)) /\ min' \in Nat /\ current' \in Nat
    BY <1>2, <1>5
  <2>1. TypeOK'
    BY <2>3, <2>4, <2>5 DEF TypeOK
  <2>2. DOMAIN stack' = 1 .. Len(stack') /\ current' <= Len(stack')
    BY <1>2, <1>5
  <2> QED
    BY <1>4, <1>6, <2>1, <2>2 DEF StateOK
<1>8. ASSUME "leave" \notin slips'
      PROVE  /\ NestingOK /\ NestingOK' /\ \A i \in DOMAIN frames : frames[i].todo = <<>>
             /\ \A i \in 1 .. Len(frames') - 1 : frames'[i].todo = <<>>
             /\ Pending' = <<>>
  <2>1. NestingOK /\ \A i \in DOMAIN frames : frames[i].todo = <<>>
    BY <1>1, <1>8 DEF IInv, Acting
  <2>2. locked # "held"
    BY <1>1, <2>1, FramesType DEF NestingOK, TopLocks, Top
  <2> QED
    BY <1>1, <1>3, <2>1, <2>2, QuietCall
<1>9. ASSUME slips' = {} PROVE DocumentOK'
  <2>1. NestingOK /\ DocumentOK
    BY <1>1, <1>8, <1>9 DEF IInv
  <2>2. doc = hist[min + current] \o txActions
    BY <1>1, <1>8, <1>9, <2>1, QuietDocument
  <2>3. /\ \A k \in min .. min + Len(stack) : hist[k] \in Seq(Actions)
        /\ \A k \in 1 .. Len(stack) : hist[min + k] = hist[min + k - 1] \o stack[k]
    BY <2>1 DEF DocumentOK, Chain
  <2>4. DOMAIN hist' = min' .. min' + Len(stack')
    BY <1>1, <1>2
  <2>5. /\ \A k \in min' .. min + current : hist'[k] = hist[k]
        /\ hist'[min + current + 1] = doc
    BY <1>1, <1>2, <1>5
  <2>6. \A k \in min' .. min' + Len(stack') : hist'[k] \in Seq(Actions)
    <3> TAKE k \in min' .. min' + Len(stack')
    <3>1. \/ k = min + current + 1
          \/ k \in min' .. min + current /\ k \in min .. min + Len(stack)
      BY <1>2, <1>5
    <3> QED
      BY <1>5, <2>3, <2>5, <3>1
  <2>7. \A k \in 1 .. Len(stack') : hist'[min' + k] = hist'[min' + k - 1] \o stack'[k]
    <3> TAKE k \in 1 .. Len(stack')
    <3>1. CASE k = current + 1 - d
      <4>1. min' + k = min + current + 1 /\ min' + k - 1 = min + current
        BY <1>2, <1>5, <3>1
      <4>2. min + current \in min' .. min + current
        BY <1>2, <1>5
      <4> QED
        BY <1>2, <2>2, <2>5, <3>1, <4>1, <4>2
    <3>2. CASE k # current + 1 - d
      <4>0. /\ current \in Nat /\ min \in Nat /\ Len(stack) \in Nat
            /\ current <= Len(stack) /\ d \in 0 .. current /\ min' = min + d
            /\ k \in 1 .. current + 1 - d /\ k # current + 1 - d
        BY <1>2, <1>5, <3>2
      <4>1. /\ k \in 1 .. current - d /\ k + d \in 1 .. Len(stack)
            /\ min' + k = min + (k + d) /\ min' + k - 1 = min + (k + d) - 1
            /\ min + (k + d) \in min' .. min + current
            /\ min + (k + d) - 1 \in min' .. min + current
        <5>1. k \in 1 .. current - d /\ k + d \in 1 .. Len(stack)
          BY ONLY <4>0
        <5>2. min' + k = min + (k + d) /\ min' + k - 1 = min + (k + d) - 1
          BY ONLY <4>0
        <5>3. /\ min + (k + d) \in min' .. min + current
              /\ min + (k + d) - 1 \in min' .. min + current
          BY ONLY <4>0
        <5> QED
          BY ONLY <5>1, <5>2, <5>3
      <4> QED
        BY <1>2, <2>3, <2>5, <4>1
    <3> QED
      BY <3>1, <3>2
  <2>8. Chain'
    BY <2>4, <2>6, <2>7 DEF Chain
  <2>9. doc' = hist'[min' + current']
    <3>1. min' + current' = min + current + 1
      BY <1>2, <1>5
    <3> QED
      BY <1>1, <2>5, <3>1
  <2> QED
    BY <1>1, <1>4, <1>8, <1>9, <2>1, <2>8, <2>9 DEF DocumentOK
<1> QED
  BY <1>7, <1>8, <1>9 DEF IInv

\* The frames of an abort, an undo or a redo, and of a notification.
LEMMA ActingFrame ==
    ASSUME NEW call \in {"abort", "undo", "redo"},
           NEW todo \in Seq(Actions), todo # <<>>
    PROVE  /\ [call |-> call, todo |-> todo, done |-> FALSE] \in Frame
           /\ FrameOK([call |-> call, todo |-> todo, done |-> FALSE])
           /\ Head(todo) = todo[1]
<1>1. /\ [call |-> call, todo |-> todo, done |-> FALSE] \in Frame
      /\ FrameOK([call |-> call, todo |-> todo, done |-> FALSE])
  BY DEF Frame, FrameOK
<1>2. Head(todo) = todo[1]
  BY HeadTailProperties
<1> QED
  BY <1>1, <1>2

LEMMA NotifyFrame ==
    ASSUME NEW call \in {"step", "reset"}
    PROVE  /\ [call |-> call, todo |-> <<>>, done |-> FALSE] \in Frame
           /\ FrameOK([call |-> call, todo |-> <<>>, done |-> FALSE])
<1>1. <<>> \in Seq(Actions) /\ Len(<<>>) = 0
  BY EmptySeq
<1> QED
  BY <1>1 DEF Frame, FrameOK

LEMMA ReversedActions ==
    ASSUME NEW s \in Seq(Actions), s # <<>>
    PROVE  /\ Reversed(s) \in Seq(Actions) /\ Reversed(s) # <<>>
           /\ Reversed(Reversed(s)) = s
<1>1. Reversed(s) \in Seq(Actions) /\ Len(Reversed(s)) = Len(s)
  BY ReversedFacts
<1>2. Reversed(Reversed(s)) = s
  BY ReversedTwice
<1> QED
  BY <1>1, <1>2, ReversedEmpty

\* The actions of an abort, an undo or a redo begin.
LEMMA ActingCall ==
    ASSUME StateOK, NestingOK, \A i \in DOMAIN frames : frames[i].todo = <<>>,
           NEW call \in {"abort", "undo", "redo"},
           NEW todo \in Seq(Actions), todo # <<>>,
           frames' = Called(call, todo),
           locked' = IF Locks(call, todo[1]) THEN "held" ELSE locked,
           call = "abort" => mstate' = "Transaction",
           call = "undo" => mstate' = "Undo",
           call = "redo" => mstate' = "Redo",
           mstate' # "Transaction" => txActions' = <<>>
    PROVE  /\ NestingOK'
           /\ \A i \in 1 .. Len(frames') - 1 : frames'[i].todo = <<>>
           /\ Pending' = <<>>
<1>1. locked # "held"
  BY FramesType DEF NestingOK, TopLocks, Top
<1>2. locked' = "held" <=> todo # <<>> /\ Locks(call, Head(todo))
  <2>1. Head(todo) = todo[1] /\ todo # <<>>
    BY ActingFrame
  <2>2. locked' = "held" <=> Locks(call, todo[1])
    BY <1>1
  <2> QED
    BY <2>1, <2>2
<1>3. /\ [call |-> call, todo |-> todo, done |-> FALSE] \in Frame
      /\ FrameOK([call |-> call, todo |-> todo, done |-> FALSE])
  BY ActingFrame
<1> QED
  BY <1>2, <1>3, QuietCall

LEMMA AbortTransactionStep == ASSUME IInv, AbortTransaction PROVE IInv'
<1> DEFINE todo == Reversed(txActions)
<1>1. /\ StateOK /\ mstate = "Transaction" /\ txActions # <<>>
      /\ frames' = Called("abort", todo)
      /\ locked' = IF Locks("abort", todo[1]) THEN "held" ELSE locked
      /\ UNCHANGED <<mstate, txActions, doc, stack, min, current, fault, hist>>
      /\ slips' \subseteq Calls /\ slips \subseteq slips'
      /\ Acting => "leave" \in slips'
  BY DEF AbortTransaction, Leaving, Slip, IInv, StateOK, TypeOK, engineVars
<1>2. todo \in Seq(Actions) /\ todo # <<>> /\ Reversed(todo) = txActions
  BY <1>1, ReversedActions DEF StateOK, TypeOK
<1> HIDE DEF todo
<1> DEFINE f == [call |-> "abort", todo |-> todo, done |-> FALSE]
<1>3. f \in Frame /\ FrameOK(f)
  BY <1>2, ActingFrame
<1>4. /\ frames' \in Seq(Frame) /\ Top' = f /\ frames' # <<>>
      /\ DOMAIN frames' = 1 .. Len(frames') /\ Len(frames') = Len(frames) + 1
      /\ frames'[Len(frames) + 1] = Top' /\ Len(frames) \in Nat
      /\ \A i \in DOMAIN frames' : FrameOK(frames'[i])
  BY <1>1, <1>3, CallStep, FramesType
<1>5. StateOK'
  <2>1. locked' \in {"free", "held", "garbage"}
    BY <1>1 DEF StateOK, TypeOK
  <2> QED
    BY <1>1, <1>4, <2>1 DEF StateOK, TypeOK
<1>6. ASSUME "leave" \notin slips'
      PROVE  /\ NestingOK /\ NestingOK' /\ \A i \in DOMAIN frames : frames[i].todo = <<>>
             /\ \A i \in 1 .. Len(frames') - 1 : frames'[i].todo = <<>>
             /\ Pending' = <<>>
  <2>1. NestingOK /\ \A i \in DOMAIN frames : frames[i].todo = <<>>
    BY <1>1, <1>6 DEF IInv, Acting
  <2> QED
    BY <1>1, <1>2, <2>1, ActingCall
<1>7. ASSUME slips' = {} PROVE DocumentOK'
  <2>1. NestingOK /\ DocumentOK
    BY <1>1, <1>6, <1>7 DEF IInv
  <2>2. doc = hist[min + current] \o txActions
    BY <1>1, <1>6, <1>7, <2>1, QuietDocument
  <2>3. Left(Top') = todo
    BY <1>4 DEF Left
  <2>4. Chain'
    BY <1>1, <2>1 DEF DocumentOK, Chain
  <2>5. Aborting'
    <3>1. Len(frames) + 1 \in DOMAIN frames' /\ frames'[Len(frames) + 1].call = "abort"
      BY <1>4
    <3> QED
      BY <3>1 DEF Aborting
  <2>6. doc' = hist'[min' + current'] \o Reversed(Left(Top'))
    BY <1>1, <1>2, <2>2, <2>3
  <2> QED
    BY <1>1, <1>4, <1>6, <1>7, <2>1, <2>4, <2>5, <2>6 DEF DocumentOK
<1> QED
  BY <1>5, <1>6, <1>7 DEF IInv

LEMMA UndoStep == ASSUME IInv, Undo PROVE IInv'
<1> DEFINE s == stack[current]
           todo == Reversed(s)
           f == [call |-> "undo", todo |-> todo, done |-> FALSE]
<1>1. /\ StateOK /\ mstate = "Idle" /\ current # 0 /\ mstate' = "Undo"
      /\ frames' = Called("undo", todo)
      /\ locked' = IF Locks("undo", todo[1]) THEN "held" ELSE locked
      /\ UNCHANGED <<txActions, doc, stack, min, current, fault, hist, slips>>
  BY DEF Undo, IInv, engineVars
<1>2. /\ current \in 1 .. Len(stack) /\ s \in Seq(Actions) /\ s # <<>>
      /\ current \in Nat /\ min \in Nat
  BY <1>1 DEF StateOK, TypeOK
<1>3. todo \in Seq(Actions) /\ todo # <<>> /\ Reversed(todo) = s
  BY <1>2, ReversedActions
<1> HIDE DEF s, todo
<1>4. f \in Frame /\ FrameOK(f)
  BY <1>3, ActingFrame
<1>5. /\ frames' \in Seq(Frame) /\ Top' = f /\ frames' # <<>>
      /\ \A i \in DOMAIN frames' : FrameOK(frames'[i])
  BY <1>1, <1>4, CallStep, FramesType
<1>6. StateOK'
  <2>1. locked' \in {"free", "held", "garbage"}
    BY <1>1 DEF StateOK, TypeOK
  <2> QED
    BY <1>1, <1>5, <2>1 DEF StateOK, TypeOK
<1>7. ASSUME "leave" \notin slips
      PROVE  /\ NestingOK /\ NestingOK'
             /\ \A i \in 1 .. Len(frames') - 1 : frames'[i].todo = <<>>
             /\ Pending' = <<>>
  <2>1. NestingOK /\ \A i \in DOMAIN frames : frames[i].todo = <<>>
    BY <1>1, <1>7, IdleCalls DEF IInv
  <2>2. txActions' = <<>>
    BY <1>1, <2>1 DEF NestingOK
  <2> QED
    BY <1>1, <1>3, <2>1, <2>2, ActingCall
<1>8. ASSUME slips = {} PROVE DocumentOK'
  <2>1. NestingOK /\ DocumentOK
    BY <1>7, <1>8 DEF IInv
  <2>2. Left(Top') = todo
    BY <1>5 DEF Left
  <2>3. doc' = hist'[min' + current' - 1] \o Reversed(Left(Top'))
    <3>1. doc = hist[min + current]
      BY <1>1, <2>1 DEF DocumentOK
    <3>2. hist[min + current] = hist[min + current - 1] \o s
      BY <1>2, <2>1 DEF DocumentOK, Chain, s
    <3> QED
      BY <1>1, <1>3, <2>2, <3>1, <3>2
  <2>4. Chain'
    BY <1>1, <2>1 DEF DocumentOK, Chain
  <2> QED
    BY <1>1, <1>2, <1>5, <1>7, <1>8, <2>1, <2>3, <2>4 DEF DocumentOK
<1> QED
  BY <1>1, <1>6, <1>7, <1>8 DEF IInv

LEMMA RedoStep == ASSUME IInv, Redo PROVE IInv'
<1> DEFINE todo == stack[current + 1]
           f == [call |-> "redo", todo |-> todo, done |-> FALSE]
<1>1. /\ StateOK /\ mstate = "Idle" /\ current # Len(stack) /\ mstate' = "Redo"
      /\ frames' = Called("redo", todo)
      /\ locked' = IF Locks("redo", todo[1]) THEN "held" ELSE locked
      /\ UNCHANGED <<txActions, doc, stack, min, current, fault, hist, slips>>
  BY DEF Redo, IInv, engineVars
<1>2. /\ current + 1 \in 1 .. Len(stack) /\ todo \in Seq(Actions) /\ todo # <<>>
      /\ current \in Nat /\ min \in Nat /\ Len(stack) \in Nat /\ current < Len(stack)
  BY <1>1 DEF StateOK, TypeOK
<1> HIDE DEF todo
<1>4. f \in Frame /\ FrameOK(f)
  BY <1>2, ActingFrame
<1>5. /\ frames' \in Seq(Frame) /\ Top' = f /\ frames' # <<>>
      /\ \A i \in DOMAIN frames' : FrameOK(frames'[i])
  BY <1>1, <1>4, CallStep, FramesType
<1>6. StateOK'
  <2>1. locked' \in {"free", "held", "garbage"}
    BY <1>1 DEF StateOK, TypeOK
  <2> QED
    BY <1>1, <1>5, <2>1 DEF StateOK, TypeOK
<1>7. ASSUME "leave" \notin slips
      PROVE  /\ NestingOK /\ NestingOK'
             /\ \A i \in 1 .. Len(frames') - 1 : frames'[i].todo = <<>>
             /\ Pending' = <<>>
  <2>1. NestingOK /\ \A i \in DOMAIN frames : frames[i].todo = <<>>
    BY <1>1, <1>7, IdleCalls DEF IInv
  <2>2. txActions' = <<>>
    BY <1>1, <2>1 DEF NestingOK
  <2> QED
    BY <1>1, <1>2, <2>1, <2>2, ActingCall
<1>8. ASSUME slips = {} PROVE DocumentOK'
  <2>1. NestingOK /\ DocumentOK
    BY <1>7, <1>8 DEF IInv
  <2>2. Left(Top') = todo
    BY <1>5 DEF Left
  <2>3. hist'[min' + current' + 1] = doc' \o Left(Top')
    <3>1. doc = hist[min + current]
      BY <1>1, <2>1 DEF DocumentOK
    <3>2. hist[min + (current + 1)] = hist[min + (current + 1) - 1] \o todo
      BY <1>2, <2>1 DEF DocumentOK, Chain, todo
    <3>3. min + (current + 1) = min + current + 1 /\ min + (current + 1) - 1 = min + current
      BY <1>2
    <3> QED
      BY <1>1, <2>2, <3>1, <3>2, <3>3
  <2>4. Chain'
    BY <1>1, <2>1 DEF DocumentOK, Chain
  <2> QED
    BY <1>1, <1>2, <1>5, <1>7, <1>8, <2>1, <2>3, <2>4 DEF DocumentOK
<1> QED
  BY <1>1, <1>6, <1>7, <1>8 DEF IInv

\* A notification that nothing precedes.
LEMMA NotifyStep ==
    ASSUME IInv, NEW call \in {"step", "reset"}, mstate = "Idle",
           frames' = Called(call, <<>>),
           UNCHANGED <<mstate, locked, txActions, doc, stack, min, current, fault,
                       hist, slips>>
    PROVE  IInv'
<1> DEFINE f == [call |-> call, todo |-> <<>>, done |-> FALSE]
<1>1. StateOK
  BY DEF IInv
<1>2. f \in Frame /\ FrameOK(f)
  BY NotifyFrame
<1>3. /\ frames' \in Seq(Frame) /\ Top' = f /\ frames' # <<>>
      /\ \A i \in DOMAIN frames' : FrameOK(frames'[i])
  BY <1>1, <1>2, CallStep
<1>4. StateOK'
  BY <1>1, <1>3 DEF StateOK, TypeOK
<1>5. ASSUME "leave" \notin slips
      PROVE  /\ NestingOK'
             /\ \A i \in 1 .. Len(frames') - 1 : frames'[i].todo = <<>>
  <2>1. NestingOK /\ \A i \in DOMAIN frames : frames[i].todo = <<>>
    BY <1>1, <1>5, IdleCalls DEF IInv
  <2>2. locked # "held"
    BY <1>1, <2>1, FramesType DEF NestingOK, TopLocks, Top
  <2>3. mstate' # "Transaction" => txActions' = <<>>
    BY <2>1 DEF NestingOK
  <2> QED
    BY <1>1, <1>2, <2>1, <2>2, <2>3, QuietCall
<1>6. ASSUME slips = {} PROVE DocumentOK'
  <2>1. DocumentOK
    BY <1>6 DEF IInv
  <2>2. Chain'
    BY <2>1 DEF DocumentOK, Chain
  <2>3. doc' = hist'[min' + current'] /\ fault' = "none"
    BY <1>6, <2>1 DEF DocumentOK
  <2>4. \A i \in 1 .. Len(frames') - 1 : frames'[i].todo = <<>>
    BY <1>5, <1>6
  <2>5. Top'.call \in {"step", "reset"}
    BY <1>3
  <2> QED
    BY <2>2, <2>3, <2>4, <2>5 DEF DocumentOK
<1> QED
  BY <1>4, <1>5, <1>6 DEF IInv

LEMMA StepNowhereStep == ASSUME IInv, StepNowhere PROVE IInv'
BY NotifyStep DEF StepNowhere, engineVars

LEMMA ResetStep == ASSUME IInv, Reset PROVE IInv'
BY NotifyStep DEF Reset, engineVars

----------------------------------------------------------------------------
(***************************************************************************)
(* notify returns, and the action goes on.                                 *)
(***************************************************************************)

\* The action that is executed fits the document.
LEMMA ExecuteFits ==
    ASSUME IInv, slips = {}, frames # <<>>, Top.todo # <<>>, ~Top.done,
           Undoing(Top.call)
    PROVE  /\ doc # <<>> /\ doc[Len(doc)] = Head(Top.todo)
           /\ Top.call = "abort" =>
                 SubSeq(doc, 1, Len(doc) - 1)
                     = hist[min + current] \o Reversed(Tail(Top.todo))
           /\ Top.call = "undo" =>
                 SubSeq(doc, 1, Len(doc) - 1)
                     = hist[min + current - 1] \o Reversed(Tail(Top.todo))
<1>1. StateOK /\ DocumentOK /\ Top \in Frame
  BY FramesType DEF IInv
<1>2. Top.todo \in Seq(Actions) /\ Left(Top) = Top.todo
  BY <1>1 DEF Frame, Left
<1>3. CASE Top.call = "abort"
  <2>1. hist[min + current] \in Seq(Actions)
    BY <1>1 DEF DocumentOK, Chain, StateOK, TypeOK
  <2>2. doc = hist[min + current] \o Reversed(Top.todo)
    BY <1>1, <1>2, <1>3 DEF DocumentOK
  <2>3. Top.todo \in Seq(Actions) /\ Top.todo # <<>> /\ doc \in Seq(Actions)
    BY <1>1, <1>2 DEF StateOK, TypeOK
  <2>4. /\ doc # <<>> /\ doc[Len(doc)] = Head(Top.todo)
        /\ SubSeq(doc, 1, Len(doc) - 1) = hist[min + current] \o Reversed(Tail(Top.todo))
    <3> DEFINE h == hist[min + current]
               s == Top.todo
    <3>1. h \in Seq(Actions) /\ s \in Seq(Actions) /\ s # <<>> /\ doc \in Seq(Actions)
          /\ doc = h \o Reversed(s)
      BY <2>1, <2>2, <2>3
    <3> HIDE DEF h, s
    <3>2. /\ doc # <<>> /\ doc[Len(doc)] = Head(s)
          /\ SubSeq(doc, 1, Len(doc) - 1) = h \o Reversed(Tail(s))
      BY ONLY <3>1, OneBack, ZenonT(30)
    <3> QED
      BY <3>2 DEF h, s
  <2> QED
    BY <1>3, <2>4
<1>4. CASE Top.call = "undo"
  <2>0. /\ min \in Nat /\ current \in Nat /\ current > 0
        /\ Len(stack) \in Nat /\ current <= Len(stack)
        /\ \A k \in min .. min + Len(stack) : hist[k] \in Seq(Actions)
    BY <1>1, <1>4 DEF DocumentOK, Chain, StateOK, TypeOK
  <2>1. hist[min + current - 1] \in Seq(Actions)
    <3>1. min + current - 1 \in min .. min + Len(stack)
      BY ONLY <2>0
    <3> QED
      BY ONLY <2>0, <3>1
  <2>2. doc = hist[min + current - 1] \o Reversed(Top.todo)
    BY <1>1, <1>2, <1>4 DEF DocumentOK
  <2>3. Top.todo \in Seq(Actions) /\ Top.todo # <<>> /\ doc \in Seq(Actions)
    BY <1>1, <1>2 DEF StateOK, TypeOK
  <2>4. /\ doc # <<>> /\ doc[Len(doc)] = Head(Top.todo)
        /\ SubSeq(doc, 1, Len(doc) - 1) = hist[min + current - 1] \o Reversed(Tail(Top.todo))
    <3> DEFINE h == hist[min + current - 1]
               s == Top.todo
    <3>1. h \in Seq(Actions) /\ s \in Seq(Actions) /\ s # <<>> /\ doc \in Seq(Actions)
          /\ doc = h \o Reversed(s)
      BY <2>1, <2>2, <2>3
    <3> HIDE DEF h, s
    <3>2. /\ doc # <<>> /\ doc[Len(doc)] = Head(s)
          /\ SubSeq(doc, 1, Len(doc) - 1) = h \o Reversed(Tail(s))
      BY ONLY <3>1, OneBack, ZenonT(30)
    <3> QED
      BY <3>2 DEF h, s
  <2> QED
    BY <1>4, <2>4
<1> QED
  BY <1>3, <1>4 DEF Undoing

\* With one action done, an edit has one to record and the others fewer left.
LEMMA ExecutedDocument ==
    ASSUME StateOK, NestingOK, DocumentOK, slips = {}, IInv,
           frames # <<>>, Top.todo # <<>>, ~Top.done, Top.call # "setRoot",
           Top'.call = Top.call, Top'.todo = Top.todo, Top'.done = TRUE,
           frames' # <<>>, Len(frames') = Len(frames),
           DOMAIN frames' = 1 .. Len(frames'),
           \A i \in 1 .. Len(frames) - 1 : frames'[i] = frames[i],
           frames'[Len(frames)] = Top',
           doc' = IF Undoing(Top.call) THEN SubSeq(doc, 1, Len(doc) - 1)
                  ELSE Append(doc, Head(Top.todo)),
           UNCHANGED <<mstate, txActions, stack, min, current, fault, hist>>
    PROVE  DocumentOK'
<1>1. /\ Top \in Frame /\ FrameOK(Top) /\ Len(frames) \in Nat \ {0}
      /\ DOMAIN frames = 1 .. Len(frames) /\ Top = frames[Len(frames)]
  BY FramesType DEF Top
<1>2. /\ Top.todo \in Seq(Actions) /\ Head(Top.todo) \in Actions
      /\ Top.call \in {"edit", "abort", "undo", "redo"}
      /\ Left(Top) = Top.todo
  BY <1>1, HeadTailProperties DEF Frame, FrameOK, Left
<1>3. Left(Top') = Tail(Top.todo)
  BY DEF Left
<1>4. Chain'
  BY DEF DocumentOK, Chain
<1>5. mstate # "Idle"
  BY <1>1, IdleCalls
<1>6. \A i \in 1 .. Len(frames') - 1 :
         frames'[i].todo # <<>> => Early(frames'[i])
  BY DEF DocumentOK
<1>7. Pending = <<>> /\ Pending' = IF Top.call = "edit" THEN Top.todo ELSE <<>>
  BY DEF Pending
<1>8. /\ doc \in Seq(Actions) /\ txActions \in Seq(Actions)
      /\ hist[min + current] \in Seq(Actions)
  BY DEF StateOK, TypeOK, DocumentOK, Chain
<1>9. CASE Top.call = "edit"
  <2>1. ~Undoing(Top.call)
    BY <1>9 DEF Undoing
  <2>2. ~Aborting
    BY <1>1, <1>9 DEF DocumentOK, Early, StateOK, FrameOK, Aborting
  <2>3. Top.todo = <<Head(Top.todo)>>
    BY <1>1, <1>2, <1>9 DEF FrameOK
  <2>4. doc = hist[min + current] \o txActions
    <3>1. mstate = "Transaction"
      BY <1>1, <1>9 DEF NestingOK
    <3>2. doc = hist[min + current] \o txActions \o <<>>
      BY <1>7, <2>2, <3>1 DEF DocumentOK
    <3> QED
      BY <1>8, <3>2, ConcatProperties, ConcatEmptySeq
  <2>5. Append(doc, Head(Top.todo)) = doc \o <<Head(Top.todo)>>
    BY <1>2, <1>8, AppendIsConcat
  <2>6. doc' = hist[min + current] \o txActions \o Top.todo
    BY <2>1, <2>3, <2>4, <2>5
  <2> QED
    BY <1>4, <1>5, <1>6, <1>7, <1>9, <2>6 DEF DocumentOK
<1>10. CASE Undoing(Top.call)
  <2>1. Top.call # "edit" /\ Top.call # "redo"
    BY <1>10 DEF Undoing
  <2>2. /\ Top.call = "abort" =>
              doc' = hist[min + current] \o Reversed(Left(Top'))
        /\ Top.call = "undo" =>
              doc' = hist[min + current - 1] \o Reversed(Left(Top'))
    BY <1>3, <1>10, ExecuteFits
  <2>3. mstate = "Transaction" => Aborting'
    <3> HAVE mstate = "Transaction"
    <3>1. Top.call = "abort"
      BY <1>1, <1>2, <2>1 DEF NestingOK
    <3> QED
      BY <1>1, <3>1 DEF Aborting
  <2> QED
    BY <1>1, <1>4, <1>5, <1>6, <2>1, <2>2, <2>3 DEF DocumentOK
<1>11. CASE Top.call = "redo"
  <2>1. ~Undoing(Top.call)
    BY <1>11 DEF Undoing
  <2>2. mstate = "Redo"
    BY <1>1, <1>11 DEF NestingOK
  <2>3. Append(doc, Head(Top.todo)) \o Tail(Top.todo) = doc \o Top.todo
    BY <1>2, <1>8, OneForth
  <2>4. hist[min + current + 1] = doc' \o Left(Top')
    BY <1>2, <1>3, <1>11, <2>1, <2>3 DEF DocumentOK
  <2> QED
    BY <1>4, <1>5, <1>6, <1>11, <2>2, <2>4 DEF DocumentOK
<1> QED
  BY <1>2, <1>9, <1>10, <1>11 DEF Undoing

LEMMA ExecuteStep == ASSUME IInv, Execute PROVE IInv'
<1> DEFINE a == Head(Top.todo)
           f == [call |-> Top.call, todo |-> Top.todo, done |-> TRUE]
<1>1. /\ StateOK /\ frames # <<>> /\ Top.todo # <<>> /\ ~Top.done
      /\ Top.call # "setRoot"
      /\ UNCHANGED <<mstate, locked, txActions, stack, min, current, hist, slips>>
      /\ fault = "none"
  BY DEF Execute, IInv, engineVars, Running
<1>2. /\ Top \in Frame /\ FrameOK(Top) /\ doc \in Seq(Actions) /\ a \in Actions
      /\ Top.todo \in Seq(Actions)
      /\ Top.call \in {"edit", "setRoot", "abort", "undo", "redo", "step", "reset"}
  BY <1>1, FramesType, HeadTailProperties DEF Frame, StateOK, TypeOK
<1>3. CASE Undoing(Top.call) /\ (doc = <<>> \/ doc[Len(doc)] # a)
  <2>1. fault' = "misfit" /\ UNCHANGED <<doc, frames>>
    BY <1>3 DEF Execute
  <2>2. StateOK'
    BY <1>1, <2>1 DEF StateOK, TypeOK
  <2>3. NestingOK => NestingOK'
    <3>1. TopLocks' <=> TopLocks
      BY ONLY <1>1, <2>1 DEF TopLocks, Top, Locks
    <3> QED
      BY <1>1, <2>1, <3>1 DEF NestingOK
  <2>4. slips # {}
    BY <1>1, <1>3, ExecuteFits
  <2> QED
    BY <1>1, <2>2, <2>3, <2>4 DEF IInv
<1>4. CASE ~(Undoing(Top.call) /\ (doc = <<>> \/ doc[Len(doc)] # a))
  <2>1. /\ doc' = IF Undoing(Top.call) THEN SubSeq(doc, 1, Len(doc) - 1)
                  ELSE Append(doc, a)
        /\ frames' = Replaced(Top.call, Top.todo, TRUE)
        /\ UNCHANGED fault
    BY <1>4 DEF Execute
  <2>2. f \in Frame /\ FrameOK(f)
    BY <1>1, <1>2 DEF Frame, FrameOK
  <2>3. /\ frames' \in Seq(Frame) /\ frames' # <<>>
        /\ Len(frames') = Len(frames)
        /\ DOMAIN frames' = 1 .. Len(frames')
        /\ \A i \in 1 .. Len(frames) - 1 : frames'[i] = frames[i]
        /\ Top' = f /\ frames'[Len(frames)] = Top'
        /\ \A i \in DOMAIN frames' : FrameOK(frames'[i])
    BY <1>1, <2>1, <2>2, GoOnStep
  <2>4. doc' \in Seq(Actions)
    <3>1. CASE Undoing(Top.call)
      <4>1. doc # <<>>
        BY <1>4, <3>1
      <4>2. Len(doc) - 1 \in 0 .. Len(doc)
        BY <1>2, <4>1, EmptySeq, LenProperties
      <4>3. SubSeq(doc, 1, Len(doc) - 1) \in Seq(Actions)
        BY ONLY <1>2, <4>2, PrefixFacts
      <4> QED
        BY <2>1, <3>1, <4>3
    <3>2. CASE ~Undoing(Top.call)
      BY <1>2, <2>1, <3>2, AppendProperties
    <3> QED
      BY <3>1, <3>2
  <2>5. StateOK'
    BY <1>1, <2>1, <2>3, <2>4 DEF StateOK, TypeOK
  <2>6. ASSUME "leave" \notin slips PROVE NestingOK'
    <3>1. NestingOK
      BY <2>6 DEF IInv
    <3>2. locked' = "held" <=> Top.todo # <<>> /\ Locks(Top.call, Head(Top.todo))
      BY <1>1, <3>1 DEF NestingOK, TopLocks
    <3>3. mstate' = mstate /\ (mstate' # "Transaction" => txActions' = <<>>)
      BY <1>1, <3>1 DEF NestingOK
    <3> QED
      BY <1>1, <2>1, <2>2, <3>1, <3>2, <3>3, GoingOn
  <2>7. ASSUME slips = {} PROVE DocumentOK'
    <3>1. NestingOK /\ DocumentOK
      BY <2>7 DEF IInv
    <3>2. Top'.call = Top.call /\ Top'.todo = Top.todo /\ Top'.done = TRUE
      BY <2>3
    <3> QED
      BY <1>1, <2>1, <2>3, <2>7, <3>1, <3>2, ExecutedDocument
  <2> QED
    BY <1>1, <2>5, <2>6, <2>7 DEF IInv
<1> QED
  BY <1>3, <1>4

LEMMA NextActionStep == ASSUME IInv, NextAction PROVE IInv'
<1> DEFINE todo == Tail(Top.todo)
           f == [call |-> Top.call, todo |-> todo, done |-> FALSE]
<1>1. /\ StateOK /\ frames # <<>> /\ Top.done /\ Len(Top.todo) > 1
      /\ locked' = Lock(Top.call, Top.todo[2])
      /\ frames' = Replaced(Top.call, todo, FALSE)
      /\ UNCHANGED <<mstate, txActions, doc, stack, min, current, fault, hist, slips>>
  BY DEF NextAction, IInv, engineVars
<1>2. Top \in Frame /\ FrameOK(Top) /\ Top.todo \in Seq(Actions)
  BY <1>1, FramesType DEF Frame
<1>3. /\ Top.call \in {"abort", "undo", "redo"} /\ Top.todo # <<>>
      /\ Left(Top) = todo
  BY <1>1, <1>2 DEF Frame, FrameOK, Left
<1>4. todo \in Seq(Actions) /\ todo # <<>> /\ Head(todo) = Top.todo[2]
  <2>1. /\ todo \in Seq(Actions) /\ Len(todo) = Len(Top.todo) - 1
        /\ \A i \in 1 .. Len(Top.todo) - 1 : todo[i] = Top.todo[i + 1]
    BY <1>2, <1>3, HeadTailProperties
  <2>2. Len(Top.todo) \in Nat /\ 1 \in 1 .. Len(Top.todo) - 1 /\ Len(todo) # 0
    BY <1>1, <1>2, <2>1, LenProperties
  <2>3. todo # <<>>
    BY <2>1, <2>2, EmptySeq
  <2>4. Head(todo) = todo[1]
    BY <2>1, <2>3, HeadTailProperties
  <2>5. todo[1] = Top.todo[2]
    BY <2>1, <2>2
  <2> QED
    BY <2>1, <2>3, <2>4, <2>5
<1> HIDE DEF todo
<1>5. f \in Frame /\ FrameOK(f)
  BY <1>3, <1>4, ActingFrame
<1>6. /\ frames' \in Seq(Frame) /\ frames' # <<>>
      /\ Len(frames') = Len(frames)
      /\ DOMAIN frames' = 1 .. Len(frames')
      /\ \A i \in 1 .. Len(frames) - 1 : frames'[i] = frames[i]
      /\ Top' = f /\ frames'[Len(frames)] = Top'
      /\ \A i \in DOMAIN frames' : FrameOK(frames'[i])
  BY <1>1, <1>5, GoOnStep
<1>8. StateOK'
  <2>1. locked' \in {"free", "held", "garbage"}
    BY <1>1 DEF Lock
  <2> QED
    BY <1>1, <1>6, <2>1 DEF StateOK, TypeOK
<1>9. ASSUME "leave" \notin slips PROVE NestingOK'
  <2>1. NestingOK
    BY <1>9 DEF IInv
  <2>2. locked' = "held" <=> todo # <<>> /\ Locks(Top.call, Head(todo))
    BY <1>1, <1>4 DEF Lock
  <2>3. mstate' = mstate /\ (mstate' # "Transaction" => txActions' = <<>>)
    BY <1>1, <2>1 DEF NestingOK
  <2> QED
    BY <1>1, <1>5, <2>1, <2>2, <2>3, GoingOn
<1>10. ASSUME slips = {} PROVE DocumentOK'
  <2>1. NestingOK /\ DocumentOK
    BY <1>10 DEF IInv
  <2>2. Left(Top') = Left(Top) /\ Top'.call = Top.call
    BY <1>3, <1>6 DEF Left
  <2>3. Pending = <<>> /\ Pending' = <<>>
    BY <1>3, <2>2 DEF Pending
  <2>4. Chain'
    BY <1>1, <2>1 DEF DocumentOK, Chain
  <2>5. Aborting => Aborting'
    <3>1. ASSUME NEW i \in DOMAIN frames, frames[i].call = "abort" PROVE Aborting'
      <4>1. i \in DOMAIN frames' /\ frames'[i].call = frames[i].call
        <5>1. /\ Len(frames) \in Nat \ {0} /\ DOMAIN frames = 1 .. Len(frames)
              /\ Top = frames[Len(frames)]
          BY <1>1, FramesType DEF Top
        <5>2. i = Len(frames) \/ i \in 1 .. Len(frames) - 1
          BY <5>1
        <5> QED
          BY <1>6, <2>2, <5>1, <5>2
      <4> QED
        BY <3>1, <4>1 DEF Aborting
    <3> QED
      BY <3>1 DEF Aborting
  <2>6. \A i \in 1 .. Len(frames') - 1 :
           frames'[i].todo # <<>> => Early(frames'[i])
    BY <1>6, <2>1 DEF DocumentOK
  <2> QED
    BY <1>1, <1>3, <1>6, <2>1, <2>2, <2>3, <2>4, <2>5, <2>6 DEF DocumentOK
<1> QED
  BY <1>1, <1>8, <1>9, <1>10 DEF IInv

\* The actions of the innermost call are over: it is no edit, and no other call
\* has an action under way.
LEMMA LastAction ==
    ASSUME StateOK, NestingOK, frames # <<>>,
           Top.call \in {"abort", "undo", "redo"}
    PROVE  /\ \A i \in 1 .. Len(frames) - 1 : frames[i].todo = <<>>
           /\ Top.call = "abort" => mstate = "Transaction"
           /\ Top.call \in {"undo", "redo"} => txActions = <<>>
<1>1. /\ Len(frames) \in Nat \ {0} /\ DOMAIN frames = 1 .. Len(frames)
      /\ Top = frames[Len(frames)]
  BY FramesType DEF Top
<1> QED
  BY <1>1 DEF NestingOK

\* An undo or a redo goes on to its StepChange.
LEMMA StepDone ==
    ASSUME IInv, frames # <<>>, Top.call \in {"undo", "redo"},
           locked' = "free", mstate' = "Idle", frames' = Replaced("step", <<>>, FALSE),
           current' \in 0 .. Len(stack),
           slips = {} => doc = hist[min + current'],
           UNCHANGED <<txActions, doc, stack, min, fault, hist, slips>>
    PROVE  IInv'
<1> DEFINE f == [call |-> "step", todo |-> <<>>, done |-> FALSE]
<1>1. StateOK
  BY DEF IInv
<1>2. f \in Frame /\ FrameOK(f)
  BY NotifyFrame
<1>3. /\ frames' \in Seq(Frame) /\ frames' # <<>>
      /\ Len(frames') = Len(frames)
      /\ \A i \in 1 .. Len(frames) - 1 : frames'[i] = frames[i]
      /\ Top' = f /\ frames'[Len(frames)] = Top'
      /\ \A i \in DOMAIN frames' : FrameOK(frames'[i])
  BY <1>1, <1>2, GoOnStep
<1>4. StateOK'
  <2>1. stack \in Seq(Seq(Actions)) /\ Len(stack) \in Nat
    BY <1>1, LenProperties DEF StateOK, TypeOK
  <2>2. current' \in Nat /\ current' <= Len(stack)
    BY <2>1
  <2>3. TypeOK'
    BY <1>1, <1>3, <2>2 DEF StateOK, TypeOK
  <2> QED
    BY <1>1, <1>3, <2>2, <2>3 DEF StateOK
<1>5. ASSUME "leave" \notin slips
      PROVE  /\ NestingOK'
             /\ \A i \in 1 .. Len(frames') - 1 : frames'[i].todo = <<>>
  <2>1. NestingOK
    BY <1>5 DEF IInv
  <2>2. /\ \A i \in 1 .. Len(frames) - 1 : frames[i].todo = <<>>
        /\ txActions' = <<>>
    BY <1>1, <2>1, LastAction
  <2>3. NestingOK'
    BY <1>1, <1>2, <2>1, <2>2, GoingOn
  <2> QED
    BY <1>3, <2>2, <2>3
<1>6. ASSUME slips = {} PROVE DocumentOK'
  <2>1. DocumentOK
    BY <1>6 DEF IInv
  <2>2. Chain'
    BY <2>1 DEF DocumentOK, Chain
  <2>3. doc' = hist'[min' + current'] /\ fault' = "none"
    BY <1>6, <2>1 DEF DocumentOK
  <2>4. \A i \in 1 .. Len(frames') - 1 : frames'[i].todo = <<>>
    BY <1>5, <1>6
  <2>5. Top'.call = "step"
    BY <1>3
  <2> QED
    BY <2>2, <2>3, <2>4, <2>5 DEF DocumentOK
<1> QED
  BY <1>4, <1>5, <1>6 DEF IInv

\* With one action left and that one done, nothing is left to do.
LEMMA NothingLeft ==
    ASSUME NEW h \in Seq(Actions), NEW todo \in Seq(Actions), Len(todo) = 1
    PROVE  h \o Reversed(Tail(todo)) = h /\ h \o Tail(todo) = h
<1>1. Tail(todo) = <<>>
  <2>1. todo # <<>>
    BY EmptySeq
  <2>2. Tail(todo) \in Seq(Actions) /\ Len(Tail(todo)) = 0
    BY <2>1, HeadTailProperties
  <2> QED
    BY <2>2, EmptySeq
<1>2. h \o <<>> = h
  BY ConcatEmptySeq
<1> QED
  BY <1>1, <1>2, ReversedEmpty

LEMMA UndoReturnsStep == ASSUME IInv, UndoReturns PROVE IInv'
<1>1. /\ StateOK /\ frames # <<>> /\ Top.call = "undo" /\ Top.done = TRUE
      /\ Len(Top.todo) = 1 /\ locked' = "free" /\ mstate' = "Idle"
      /\ frames' = Replaced("step", <<>>, FALSE)
      /\ current # 0 /\ current' = current - 1
      /\ UNCHANGED <<txActions, doc, stack, min, fault, hist, slips>>
  BY DEF UndoReturns, Returned, Engine!StepBack, IInv
<1>2. /\ current \in Nat /\ min \in Nat /\ Len(stack) \in Nat /\ current <= Len(stack)
      /\ Top.todo \in Seq(Actions)
  BY <1>1, FramesType DEF StateOK, TypeOK, Frame
<1>3. ASSUME slips = {} PROVE doc = hist[min + current']
  <2>1. DocumentOK
    BY <1>3 DEF IInv
  <2>2. hist[min + current - 1] \in Seq(Actions)
    BY <1>1, <1>2, <2>1 DEF DocumentOK, Chain
  <2>3. doc = hist[min + current - 1] \o Reversed(Tail(Top.todo))
    BY <1>1, <2>1 DEF DocumentOK, Left
  <2>4. doc = hist[min + current - 1]
    BY <1>1, <1>2, <2>2, <2>3, NothingLeft
  <2>5. min + current - 1 = min + current'
    BY <1>1, <1>2
  <2> QED
    BY <2>4, <2>5
<1>4. current' \in 0 .. Len(stack)
  BY <1>1, <1>2
<1> QED
  BY <1>1, <1>3, <1>4, StepDone

LEMMA RedoReturnsStep == ASSUME IInv, RedoReturns PROVE IInv'
<1>1. /\ StateOK /\ frames # <<>> /\ Top.call = "redo" /\ Top.done = TRUE
      /\ Len(Top.todo) = 1 /\ locked' = "free" /\ mstate' = "Idle"
      /\ frames' = Replaced("step", <<>>, FALSE)
      /\ current # Len(stack) /\ current' = current + 1
      /\ UNCHANGED <<txActions, doc, stack, min, fault, hist, slips>>
  BY DEF RedoReturns, Returned, Engine!StepForward, IInv
<1>2. /\ current \in Nat /\ min \in Nat /\ Len(stack) \in Nat /\ current <= Len(stack)
      /\ Top.todo \in Seq(Actions) /\ doc \in Seq(Actions)
  BY <1>1, FramesType DEF StateOK, TypeOK, Frame
<1>3. ASSUME slips = {} PROVE doc = hist[min + current']
  <2>1. DocumentOK
    BY <1>3 DEF IInv
  <2>3. hist[min + current + 1] = doc \o Tail(Top.todo)
    BY <1>1, <2>1 DEF DocumentOK, Left
  <2>4. doc \o Tail(Top.todo) = doc
    BY <1>1, <1>2, NothingLeft
  <2>5. min + current + 1 = min + current'
    BY <1>1, <1>2
  <2> QED
    BY <2>3, <2>4, <2>5
<1>4. current' \in 0 .. Len(stack)
  BY <1>1, <1>2
<1> QED
  BY <1>1, <1>3, <1>4, StepDone

LEMMA EditEndsStep == ASSUME IInv, EditEnds PROVE IInv'
<1> DEFINE a == Head(Top.todo)
<1>1. /\ StateOK /\ frames # <<>> /\ Top.call = "edit" /\ Top.done = TRUE
      /\ locked' = "free"
      /\ txActions' = Append(txActions, a)
      /\ frames' = Below
      /\ fault' \in {"none", "iterators"} /\ (~Aborting => fault' = "none")
      /\ UNCHANGED <<mstate, doc, stack, min, current, hist, slips>>
  BY DEF EditEnds, Returned, IInv, engineVars
<1>2. /\ Top \in Frame /\ FrameOK(Top) /\ Top.todo \in Seq(Actions)
      /\ txActions \in Seq(Actions)
      /\ Len(frames) \in Nat \ {0} /\ DOMAIN frames = 1 .. Len(frames)
      /\ Top = frames[Len(frames)]
  BY <1>1, FramesType DEF Frame, StateOK, TypeOK, Top
<1>3. Top.todo # <<>> /\ a \in Actions /\ Top.todo = <<a>>
  BY <1>1, <1>2, HeadTailProperties DEF FrameOK
<1>4. /\ frames' \in Seq(Frame)
      /\ Len(frames') = Len(frames) - 1
      /\ DOMAIN frames' = 1 .. Len(frames')
      /\ \A i \in 1 .. Len(frames) - 1 : frames'[i] = frames[i]
      /\ frames' # <<>> => /\ Len(frames) - 1 \in 1 .. Len(frames) - 1
                           /\ Top' = frames[Len(frames) - 1]
      /\ \A i \in DOMAIN frames' : FrameOK(frames'[i])
  BY <1>1, ReturnStep
<1>5. txActions' \in Seq(Actions)
  BY <1>1, <1>2, <1>3, AppendProperties
<1>6. StateOK'
  BY <1>1, <1>4, <1>5 DEF StateOK, TypeOK
<1>7. ASSUME "leave" \notin slips PROVE NestingOK' /\ mstate = "Transaction"
  <2>1. NestingOK
    BY <1>7 DEF IInv
  <2>2. mstate = "Transaction"
    BY <1>1, <1>2, <2>1 DEF NestingOK
  <2> QED
    BY <1>1, <2>1, <2>2, Returning
<1>8. ASSUME slips = {} PROVE DocumentOK'
  <2>1. NestingOK /\ DocumentOK /\ mstate = "Transaction"
    BY <1>7, <1>8 DEF IInv
  <2>2. ~Aborting
    BY <1>1, <1>2, <2>1 DEF DocumentOK, Early, StateOK, FrameOK, Aborting
  <2>3. \A i \in DOMAIN frames' :
           frames'[i].todo # <<>> => Early(frames'[i])
    BY <1>2, <1>4, <2>1 DEF DocumentOK
  <2>4. Pending' = <<>>
    <3>1. frames' # <<>> => Len(frames) - 1 \in DOMAIN frames' /\ Top' = frames'[Len(frames) - 1]
      BY <1>2, <1>4
    <3>2. frames' # <<>> => ~(Top'.call = "edit" /\ Top'.done)
      BY <1>4, <2>3, <3>1 DEF FrameOK, Early
    <3> QED
      BY <3>2 DEF Pending
  <2>5. /\ hist[min + current] \in Seq(Actions)
        /\ doc = hist[min + current] \o txActions \o <<a>>
    <3>1. Pending = <<a>>
      BY <1>1, <1>3 DEF Pending
    <3> QED
      <4>1. hist[min + current] \in Seq(Actions)
        BY <1>1, <2>1 DEF DocumentOK, Chain, StateOK, TypeOK
      <4>2. doc = hist[min + current] \o txActions \o Pending
        BY <2>1, <2>2 DEF DocumentOK
      <4> QED
        BY ONLY <3>1, <4>1, <4>2
  <2>6. doc' = hist'[min' + current'] \o txActions' \o Pending'
    <3> DEFINE h == hist[min + current]
    <3>1. h \in Seq(Actions) /\ doc = h \o txActions \o <<a>>
      BY <2>5
    <3> HIDE DEF h
    <3>2. (h \o txActions) \o <<a>> = h \o Append(txActions, a)
      <4>1. a \in Actions /\ txActions \in Seq(Actions)
        BY <1>2, <1>3
      <4> HIDE DEF a
      <4> QED
        <5>1. /\ h \o Append(txActions, a) = Append(h \o txActions, a)
              /\ (h \o txActions) \o <<a>> = Append(h \o txActions, a)
          BY ONLY <3>1, <4>1, AppendConcat
        <5> QED
          BY <5>1
    <3>3. h \o txActions' \in Seq(Actions)
      BY <1>5, <3>1, ConcatProperties
    <3>4. (h \o txActions') \o <<>> = h \o txActions'
      BY <3>3, ConcatEmptySeq
    <3>5. doc' = (h \o txActions') \o Pending'
      BY <1>1, <2>4, <3>1, <3>2, <3>4
    <3> QED
      BY <1>1, <3>5 DEF h
  <2>7. Chain'
    BY <1>1, <2>1 DEF DocumentOK, Chain
  <2>8. \A i \in DOMAIN frames' : frames'[i].call \in {"edit", "setRoot", "step", "reset"}
    BY <1>4, <2>3 DEF FrameOK, Early
  <2>9. frames' # <<>> => Top'.call \in {"edit", "setRoot", "step", "reset"}
    BY <1>4, <2>8
  <2>10. \A i \in 1 .. Len(frames') - 1 : i \in DOMAIN frames'
    BY <1>2, <1>4
  <2>11. fault' = "none" /\ mstate' = "Transaction"
    BY <1>1, <2>1, <2>2
  <2> QED
    BY ONLY <2>3, <2>6, <2>7, <2>9, <2>10, <2>11 DEF DocumentOK
<1> QED
  BY <1>1, <1>6, <1>7, <1>8 DEF IInv

LEMMA AbortReturnsStep == ASSUME IInv, AbortReturns PROVE IInv'
<1>1. /\ StateOK /\ frames # <<>> /\ Top.call = "abort" /\ Top.done = TRUE
      /\ Len(Top.todo) = 1
      /\ locked' = "free" /\ txActions' = <<>> /\ mstate' = "Idle"
      /\ frames' = Below
      /\ UNCHANGED <<doc, stack, min, current, fault, hist, slips>>
  BY DEF AbortReturns, Returned, IInv, engineVars
<1>2. /\ Top \in Frame /\ Top.todo \in Seq(Actions) /\ <<>> \in Seq(Actions)
      /\ Len(frames) \in Nat \ {0}
  BY <1>1, FramesType DEF Frame, Top
<1>3. /\ frames' \in Seq(Frame)
      /\ Len(frames') = Len(frames) - 1
      /\ DOMAIN frames' = 1 .. Len(frames')
      /\ \A i \in 1 .. Len(frames) - 1 : frames'[i] = frames[i]
      /\ frames' # <<>> => /\ Len(frames) - 1 \in 1 .. Len(frames) - 1
                           /\ Top' = frames[Len(frames) - 1]
      /\ \A i \in DOMAIN frames' : FrameOK(frames'[i])
  BY <1>1, ReturnStep
<1>4. StateOK'
  BY <1>1, <1>2, <1>3 DEF StateOK, TypeOK
<1>5. ASSUME "leave" \notin slips
      PROVE  NestingOK' /\ \A i \in 1 .. Len(frames) - 1 : frames[i].todo = <<>>
  <2>1. NestingOK
    BY <1>5 DEF IInv
  <2>2. \A i \in 1 .. Len(frames) - 1 : frames[i].todo = <<>>
    BY <1>1, <2>1, LastAction
  <2> QED
    BY <1>1, <2>1, <2>2, Returning
<1>6. ASSUME slips = {} PROVE DocumentOK'
  <2>1. DocumentOK
    BY <1>6 DEF IInv
  <2>2. doc = hist[min + current]
    <3>1. hist[min + current] \in Seq(Actions)
      BY <1>1, <2>1 DEF DocumentOK, Chain, StateOK, TypeOK
    <3>2. doc = hist[min + current] \o Reversed(Tail(Top.todo))
      BY <1>1, <2>1 DEF DocumentOK, Left
    <3> QED
      BY <1>1, <1>2, <3>1, <3>2, NothingLeft
  <2>3. Chain'
    BY <1>1, <2>1 DEF DocumentOK, Chain
  <2>4. \A i \in DOMAIN frames' : frames'[i].todo = <<>>
    BY <1>2, <1>3, <1>5, <1>6
  <2>5. \A i \in DOMAIN frames' : frames'[i].call \in {"step", "reset"}
    BY <1>3, <2>4 DEF FrameOK
  <2>6. frames' # <<>> => Top'.call \in {"step", "reset"}
    BY <1>2, <1>3, <2>5
  <2> QED
    BY <1>1, <1>2, <1>3, <2>1, <2>2, <2>3, <2>4, <2>6 DEF DocumentOK
<1> QED
  BY <1>1, <1>4, <1>5, <1>6 DEF IInv

\* A notification has no lock.
LEMMA NotifyUnlocked ==
    ASSUME StateOK, NestingOK, frames # <<>>, Top.call \in {"step", "reset"}
    PROVE  locked # "held"
BY FramesType DEF NestingOK, TopLocks, FrameOK

\* A notification or setRoot returns to a call that has not changed the document,
\* to another notification, or to code outside.
LEMMA NotifiedFrames ==
    ASSUME StateOK, NestingOK, frames # <<>>,
           Top.call \in {"setRoot", "step", "reset"},
           frames' = Below, locked' # "held", mstate' = mstate,
           mstate' # "Transaction" => txActions' = <<>>
    PROVE  /\ NestingOK'
           /\ Pending = <<>>
           /\ DocumentOK =>
                 /\ \A i \in DOMAIN frames' :
                       frames'[i].todo # <<>> =>
                           Early(frames'[i])
                 /\ frames' # <<>> => Top'.call \in {"edit", "setRoot", "step", "reset"}
                 /\ Pending' = <<>>
                 /\ ~Aborting /\ ~Aborting'
<1>1. /\ Len(frames) \in Nat \ {0} /\ DOMAIN frames = 1 .. Len(frames)
      /\ Top = frames[Len(frames)]
  BY FramesType DEF Top
<1>2. /\ Len(frames') = Len(frames) - 1
      /\ DOMAIN frames' = 1 .. Len(frames')
      /\ \A i \in 1 .. Len(frames) - 1 : frames'[i] = frames[i]
      /\ frames' # <<>> => /\ Len(frames) - 1 \in 1 .. Len(frames) - 1
                           /\ Top' = frames[Len(frames) - 1]
      /\ \A i \in DOMAIN frames' : FrameOK(frames'[i])
      /\ frames' \in Seq(Frame)
  BY ReturnStep
<1>4. NestingOK'
  BY Returning
<1>5. Pending = <<>>
  BY DEF Pending
<1>6. ASSUME DocumentOK
      PROVE  /\ \A i \in DOMAIN frames' :
                   frames'[i].todo # <<>> =>
                       Early(frames'[i])
             /\ frames' # <<>> => Top'.call \in {"edit", "setRoot", "step", "reset"}
             /\ Pending' = <<>>
             /\ ~Aborting /\ ~Aborting'
  <2>1. \A i \in DOMAIN frames' :
           frames'[i].todo # <<>> => Early(frames'[i])
    BY <1>1, <1>2, <1>6 DEF DocumentOK
  <2>2. \A i \in DOMAIN frames' : frames'[i].call \in {"edit", "setRoot", "step", "reset"}
    BY <1>2, <2>1 DEF FrameOK, Early
  <2>3. \A i \in DOMAIN frames' : ~(frames'[i].call = "edit" /\ frames'[i].done)
    BY <1>2, <2>1 DEF FrameOK, Early
  <2>4. frames' # <<>> => Len(frames) - 1 \in DOMAIN frames' /\ Top' = frames'[Len(frames) - 1]
    BY <1>1, <1>2
  <2>5. Pending' = <<>>
    BY <2>3, <2>4 DEF Pending
  <2>6. ~Aborting'
    BY <2>2 DEF Aborting
  <2>7. ASSUME NEW i \in DOMAIN frames, frames[i].call = "abort" PROVE FALSE
    <3>1. CASE i = Len(frames)
      BY <1>1, <2>7, <3>1
    <3>2. CASE i \in 1 .. Len(frames) - 1
      BY <1>2, <2>2, <2>7, <3>2
    <3> QED
      BY <1>1, <3>1, <3>2
  <2> QED
    BY <2>1, <2>2, <2>4, <2>5, <2>6, <2>7 DEF Aborting
<1> QED
  BY <1>4, <1>5, <1>6

LEMMA ChangeRootStep == ASSUME IInv, ChangeRoot PROVE IInv'
<1> DEFINE f == [call |-> "setRoot", todo |-> Top.todo, done |-> TRUE]
<1>1. /\ StateOK /\ frames # <<>> /\ Top.call = "setRoot"
      /\ frames' = Replaced("setRoot", Top.todo, TRUE)
      /\ UNCHANGED <<mstate, locked, txActions, doc, stack, min, current, fault,
                     hist, slips>>
  BY DEF ChangeRoot, Returned, IInv, engineVars
<1>2. /\ Top \in Frame /\ FrameOK(Top) /\ Len(frames) \in Nat \ {0}
      /\ DOMAIN frames = 1 .. Len(frames) /\ Top = frames[Len(frames)]
  BY <1>1, FramesType DEF Top
<1>3. f \in Frame /\ FrameOK(f)
  BY <1>1, <1>2 DEF Frame, FrameOK
<1>4. /\ frames' \in Seq(Frame) /\ frames' # <<>>
      /\ Len(frames') = Len(frames)
      /\ DOMAIN frames' = 1 .. Len(frames')
      /\ \A i \in 1 .. Len(frames) - 1 : frames'[i] = frames[i]
      /\ Top' = f /\ frames'[Len(frames)] = Top'
      /\ \A i \in DOMAIN frames' : FrameOK(frames'[i])
  BY <1>1, <1>3, GoOnStep
<1>5. StateOK'
  BY <1>1, <1>4 DEF StateOK, TypeOK
<1>6. ASSUME "leave" \notin slips PROVE NestingOK'
  <2>1. NestingOK
    BY <1>6 DEF IInv
  <2>2. locked' = "held" <=> Top.todo # <<>> /\ Locks("setRoot", Head(Top.todo))
    BY <1>1, <2>1 DEF NestingOK, TopLocks
  <2>3. mstate' # "Transaction" => txActions' = <<>>
    BY <1>1, <2>1 DEF NestingOK
  <2> QED
    BY <1>1, <1>3, <2>1, <2>2, <2>3, GoingOn
<1>7. ASSUME slips = {} PROVE DocumentOK'
  <2>1. NestingOK /\ DocumentOK
    BY <1>7 DEF IInv
  <2>2. Pending = <<>> /\ Pending' = <<>>
    BY <1>1, <1>4 DEF Pending
  <2>3. Chain'
    BY <1>1, <2>1 DEF DocumentOK, Chain
  <2>4. \A i \in DOMAIN frames : frames'[i].call = frames[i].call
    <3> TAKE i \in DOMAIN frames
    <3>1. CASE i = Len(frames)
      <4>1. frames[i].call = "setRoot"
        BY <1>1, <1>2, <3>1
      <4>2. frames'[i].call = "setRoot"
        BY <1>4, <3>1
      <4> QED
        BY <4>1, <4>2
    <3>2. CASE i \in 1 .. Len(frames) - 1
      BY <1>4, <3>2
    <3> QED
      BY <1>2, <3>1, <3>2
  <2>5. Aborting => Aborting'
    BY <1>2, <1>4, <2>4 DEF Aborting
  <2>6. \A i \in 1 .. Len(frames') - 1 : frames'[i].todo # <<>> => Early(frames'[i])
    BY <1>4, <2>1 DEF DocumentOK
  <2>7. Top'.call = "setRoot"
    BY <1>4
  <2>8. mstate' = "Idle" => doc' = hist'[min' + current']
    BY <1>1, <2>1 DEF DocumentOK
  <2>9. mstate' = "Transaction" /\ ~Aborting' =>
           doc' = hist'[min' + current'] \o txActions' \o Pending'
    BY <1>1, <2>1, <2>2, <2>5 DEF DocumentOK
  <2>10. fault' = "none"
    BY <1>1, <2>1 DEF DocumentOK
  <2> QED
    BY ONLY <2>3, <2>6, <2>7, <2>8, <2>9, <2>10 DEF DocumentOK
<1> QED
  BY <1>1, <1>5, <1>6, <1>7 DEF IInv

\* A call returns that has made no difference to the document.
LEMMA QuietReturn ==
    ASSUME IInv, frames # <<>>, Top.call \in {"setRoot", "step"}, frames' = Below,
           locked' \in {"free", "held", "garbage"},
           "leave" \notin slips => locked' # "held",
           UNCHANGED <<mstate, txActions, doc, stack, min, current, fault, hist, slips>>
    PROVE  IInv'
<1>1. StateOK
  BY DEF IInv
<1>2. frames' \in Seq(Frame) /\ \A i \in DOMAIN frames' : FrameOK(frames'[i])
  BY <1>1, ReturnStep
<1>3. StateOK'
  BY <1>1, <1>2 DEF StateOK, TypeOK
<1>4. ASSUME "leave" \notin slips PROVE NestingOK /\ NestingOK'
  <2>1. NestingOK /\ (mstate' # "Transaction" => txActions' = <<>>)
    BY <1>4 DEF IInv, NestingOK
  <2> QED
    BY <1>1, <1>4, <2>1, NotifiedFrames
<1>5. ASSUME slips = {} PROVE DocumentOK'
  <2>1. /\ NestingOK /\ DocumentOK
        /\ mstate' # "Transaction" => txActions' = <<>>
    BY <1>4, <1>5 DEF IInv, NestingOK
  <2>2. /\ Pending = <<>> /\ Pending' = <<>>
        /\ \A i \in DOMAIN frames' :
              frames'[i].todo # <<>> => Early(frames'[i])
        /\ frames' # <<>> => Top'.call \in {"edit", "setRoot", "step", "reset"}
        /\ ~Aborting
    BY <1>1, <1>5, <2>1, NotifiedFrames
  <2>3. Chain'
    BY <1>1, <2>1 DEF DocumentOK, Chain
  <2>4. \A i \in 1 .. Len(frames') - 1 : i \in DOMAIN frames'
    BY <1>2, LenProperties
  <2>5. mstate' = "Idle" => doc' = hist'[min' + current']
    BY <1>1, <2>1 DEF DocumentOK
  <2>6. mstate' = "Transaction" =>
           doc' = hist'[min' + current'] \o txActions' \o Pending'
    BY <1>1, <2>1, <2>2 DEF DocumentOK
  <2>7. fault' = "none"
    BY <1>1, <2>1 DEF DocumentOK
  <2> QED
    BY ONLY <2>2, <2>3, <2>4, <2>5, <2>6, <2>7 DEF DocumentOK
<1> QED
  BY <1>1, <1>3, <1>4, <1>5 DEF IInv

LEMMA StepReturnsStep == ASSUME IInv, StepReturns PROVE IInv'
<1>1. /\ StateOK /\ frames # <<>> /\ Top.call = "step" /\ frames' = Below
      /\ UNCHANGED <<mstate, locked, txActions, doc, stack, min, current, fault,
                     hist, slips>>
  BY DEF StepReturns, Returned, IInv, engineVars
<1>2. locked' \in {"free", "held", "garbage"}
  BY <1>1 DEF StateOK, TypeOK
<1>3. "leave" \notin slips => locked' # "held"
  BY <1>1, NotifyUnlocked DEF IInv
<1> QED
  BY <1>1, <1>2, <1>3, QuietReturn

LEMMA SetRootEndsStep == ASSUME IInv, SetRootEnds PROVE IInv'
<1>1. /\ frames # <<>> /\ Top.call = "setRoot" /\ frames' = Below
      /\ locked' = "free"
      /\ UNCHANGED <<mstate, txActions, doc, stack, min, current, fault, hist, slips>>
  BY DEF SetRootEnds, Returned, engineVars
<1> QED
  BY <1>1, QuietReturn

LEMMA ResetReturnsStep == ASSUME IInv, ResetReturns PROVE IInv'
<1>1. /\ StateOK /\ frames # <<>> /\ Top.call = "reset" /\ frames' = Below
      /\ stack' = <<>> /\ min' = 0 /\ current' = 0 /\ doc' = <<>>
      /\ hist' = [k \in {0} |-> <<>>]
      /\ UNCHANGED <<mstate, locked, txActions, fault>>
      /\ slips' \subseteq Calls /\ slips \subseteq slips'
      /\ slips' = {} => mstate = "Idle"
  BY DEF ResetReturns, Returned, Engine!ResetWindow, Slip, IInv, StateOK, TypeOK
<1>2. frames' \in Seq(Frame) /\ \A i \in DOMAIN frames' : FrameOK(frames'[i])
  BY <1>1, ReturnStep
<1>3. /\ <<>> \in Seq(Actions) /\ <<>> \in Seq(Seq(Actions)) /\ Len(<<>>) = 0
      /\ DOMAIN <<>> = {}
  BY EmptySeq
<1>4. StateOK'
  BY <1>1, <1>2, <1>3 DEF StateOK, TypeOK
<1>5. ASSUME "leave" \notin slips' PROVE NestingOK /\ NestingOK'
  <2>1. NestingOK /\ (mstate' # "Transaction" => txActions' = <<>>)
    BY <1>1, <1>5 DEF IInv, NestingOK
  <2> QED
    BY <1>1, <2>1, NotifyUnlocked, NotifiedFrames
<1>6. ASSUME slips' = {} PROVE DocumentOK'
  <2>1. /\ NestingOK /\ DocumentOK /\ slips = {} /\ mstate' = "Idle"
        /\ mstate' # "Transaction" => txActions' = <<>>
    BY <1>1, <1>5, <1>6 DEF IInv, NestingOK
  <2>2. /\ \A i \in DOMAIN frames' :
              frames'[i].todo # <<>> => Early(frames'[i])
        /\ frames' # <<>> => Top'.call \in {"edit", "setRoot", "step", "reset"}
    BY <1>1, <2>1, NotifyUnlocked, NotifiedFrames
  <2>3. Chain'
    BY <1>1, <1>3 DEF Chain
  <2>4. \A i \in 1 .. Len(frames') - 1 : i \in DOMAIN frames'
    BY <1>2, LenProperties
  <2>5. doc' = hist'[min' + current'] /\ fault' = "none"
    BY <1>1, <2>1 DEF DocumentOK
  <2> QED
    BY ONLY <2>1, <2>2, <2>3, <2>4, <2>5 DEF DocumentOK
<1> QED
  BY <1>1, <1>4, <1>5, <1>6 DEF IInv

----------------------------------------------------------------------------
(***************************************************************************)
(* The theorems.                                                           *)
(***************************************************************************)
LEMMA InvStep == IInv /\ [Next]_vars => IInv'
<1> SUFFICES ASSUME IInv, [Next]_vars PROVE IInv'
  OBVIOUS
<1>1. CASE UNCHANGED vars
  <2>1. UNCHANGED <<mstate, locked, frames, txActions, doc, stack, min, current,
                    fault, hist, slips>>
    BY <1>1 DEF vars, engineVars
  <2>2. StateOK' <=> StateOK
    BY ONLY <2>1 DEF StateOK, TypeOK
  <2>3. NestingOK' <=> NestingOK
    BY ONLY <2>1 DEF NestingOK, TopLocks, Top, Locks
  <2>4. DocumentOK' <=> DocumentOK
    BY ONLY <2>1 DEF DocumentOK, Chain, Aborting, Pending, Left, Top, Early
  <2> QED
    BY <2>1, <2>2, <2>3, <2>4 DEF IInv
<1>2. CASE Next
  BY <1>2, EditStep, SetRootStep, BeginTransactionStep, LeaveNothingStep,
     CommitStep, AbortTransactionStep, LeaveAbortStep, UndoStep, RedoStep,
     StepNowhereStep, ResetStep, ExecuteStep, EditEndsStep, ChangeRootStep,
     SetRootEndsStep, NextActionStep, AbortReturnsStep,
     UndoReturnsStep, RedoReturnsStep, StepReturnsStep, ResetReturnsStep DEF Next
<1> QED
  BY <1>1, <1>2

LEMMA InvAlways == Spec => []IInv
BY InvInit, InvStep, PTL DEF Spec

\* The state of the model, the engine and the calls under way keeps its types,
\* whatever notify calls, the slips included.
THEOREM ProtocolTypeCorrect == Spec => []TypeOK
<1>1. IInv => TypeOK
  BY DEF IInv, StateOK
<1> QED
  BY InvAlways, <1>1, PTL

\* A garbage lock is that of a model in which nothing is made, recorded or under
\* way.
GarbageOK ==
    locked = "garbage" =>
        /\ doc = <<>> /\ txActions = <<>> /\ stack = <<>>
        /\ \A i \in DOMAIN frames : frames[i].todo = <<>>

LEMMA GarbageStep == IInv /\ GarbageOK /\ [Next]_vars => GarbageOK'
<1> SUFFICES ASSUME IInv, GarbageOK, [Next]_vars, locked' = "garbage"
             PROVE  /\ doc' = <<>> /\ txActions' = <<>> /\ stack' = <<>>
                    /\ \A i \in DOMAIN frames' : frames'[i].todo = <<>>
  BY DEF GarbageOK
<1>1. /\ locked' \in {"free", "held", locked}
  BY DEF Next, vars, Edit, SetRoot, BeginTransaction, LeaveNothing, Commit,
         AbortTransaction, LeaveAbort, Undo, Redo, StepNowhere, Reset, Execute,
         EditEnds, ChangeRoot, SetRootEnds, NextAction, AbortReturns, UndoReturns,
         RedoReturns, StepReturns, ResetReturns, Lock
<1>2. /\ locked = "garbage" /\ doc = <<>> /\ txActions = <<>> /\ stack = <<>>
      /\ \A i \in DOMAIN frames : frames[i].todo = <<>>
  BY <1>1 DEF GarbageOK
<1>3. /\ frames \in Seq(Frame) /\ Len(frames) \in Nat
      /\ DOMAIN frames = 1 .. Len(frames)
      /\ frames # <<>> => /\ Top.todo = <<>> /\ ~Top.done
                          /\ Top.call \in {"step", "reset"}
  <2>1. frames # <<>> => Len(frames) \in DOMAIN frames /\ FrameOK(Top)
    BY FramesType DEF IInv
  <2> QED
    BY <1>2, <2>1, FramesType DEF IInv, FrameOK, Top
<1>4. current = 0 /\ Len(stack) = 0
  BY <1>2 DEF IInv, StateOK, TypeOK
<1>5. ASSUME NEW call \in {"step", "reset"}, frames' = Called(call, <<>>)
      PROVE  \A i \in DOMAIN frames' : frames'[i].todo = <<>>
  <2>1. /\ [call |-> call, todo |-> <<>>, done |-> FALSE] \in Frame
        /\ FrameOK([call |-> call, todo |-> <<>>, done |-> FALSE])
    BY NotifyFrame
  <2>2. /\ DOMAIN frames' = 1 .. Len(frames) + 1
        /\ \A i \in 1 .. Len(frames) : frames'[i] = frames[i]
        /\ frames'[Len(frames) + 1].todo = <<>>
    BY <1>5, <2>1, CallStep DEF IInv
  <2> QED
    BY <1>2, <1>3, <2>2
<1>6. ASSUME frames # <<>>, frames' = Below
      PROVE  \A i \in DOMAIN frames' : frames'[i].todo = <<>>
  <2>1. /\ DOMAIN frames' = 1 .. Len(frames) - 1
        /\ \A i \in 1 .. Len(frames) - 1 : frames'[i] = frames[i]
    BY <1>6, ReturnStep DEF IInv
  <2> QED
    BY <1>2, <1>3, <2>1
<1>7. CASE UNCHANGED vars \/ BeginTransaction \/ LeaveNothing \/ LeaveAbort
  BY <1>2, <1>7 DEF vars, engineVars, BeginTransaction, LeaveNothing, LeaveAbort
<1>8. CASE StepNowhere \/ Reset
  BY <1>2, <1>5, <1>8 DEF StepNowhere, Reset, engineVars
<1>9. CASE StepReturns
  BY <1>2, <1>6, <1>9 DEF StepReturns, Returned, engineVars
<1>10. CASE ResetReturns
  BY <1>2, <1>6, <1>10 DEF ResetReturns, Returned, Engine!ResetWindow
<1>11. CASE \/ \E a \in Edits : Edit(a)
            \/ \E a \in RootChanges \cup NullChanges : SetRoot(a)
  BY <1>2, <1>11 DEF Edit, SetRoot, ModelWritable
<1>12. CASE Commit \/ AbortTransaction
  BY <1>2, <1>12 DEF Commit, AbortTransaction
<1>13. CASE Undo \/ Redo
  BY <1>4, <1>13 DEF Undo, Redo
<1>14. CASE Execute \/ EditEnds \/ ChangeRoot \/ SetRootEnds \/ NextAction
            \/ AbortReturns \/ UndoReturns \/ RedoReturns
  BY <1>3, <1>14 DEF Execute, EditEnds, ChangeRoot, SetRootEnds, NextAction,
                     AbortReturns, UndoReturns, RedoReturns, Returned
<1> QED
  BY <1>7, <1>8, <1>9, <1>10, <1>11, <1>12, <1>13, <1>14 DEF Next

\* _lockedNode is that of the innermost action, setRoot's and its two
\* notifications included, for calls nested to any depth, as long as no
\* transaction is left within an action; and what the constructor has left in it
\* stays there only in a model that is never edited.
THEOREM LockAlwaysMatches == Spec => []LockMatches
<1>1. Init => GarbageOK
  BY EmptySeq DEF Init, GarbageOK
<1>2. IInv /\ GarbageOK => LockMatches
  BY DEF IInv, NestingOK, TopLocks, GarbageOK, LockMatches
<1> QED
  BY InvAlways, GarbageStep, <1>1, <1>2, PTL DEF Spec

\* Nothing is recorded outside of a transaction, with the same reservation:
\* what pushAction asserts.
THEOREM NothingLeftOver == Spec => []NothingLeftRecorded
<1>1. IInv => NothingLeftRecorded
  BY DEF IInv, NestingOK, NothingLeftRecorded
<1> QED
  BY InvAlways, <1>1, PTL

\* A transaction records its actions in the order in which they changed the
\* document, also when notify edits before an insertion into a sheet.
THEOREM AlwaysRecordedInOrder == Spec => []RecordedInOrder
<1>1. IInv => RecordedInOrder
  BY DEF IInv, DocumentOK, Pending, RecordedInOrder, Engine!currentStep
<1> QED
  BY InvAlways, <1>1, PTL

\* Every action is undone on the document it has left, and an idle model has the
\* document of its current step, whatever notify undoes, redoes, edits, commits
\* or aborts.
THEOREM AlwaysRestored == Spec => []Restored
<1>1. IInv => Restored
  BY DEF IInv, DocumentOK, Restored, Engine!currentStep
<1> QED
  BY InvAlways, <1>1, PTL

----------------------------------------------------------------------------
(***************************************************************************)
(* The transaction that an undo or a redo executes.                        *)
(***************************************************************************)
Stepping(f) == f.call \in {"undo", "redo"}
NoneSteps == \A i \in DOMAIN frames : ~Stepping(frames[i])

\* A step is the innermost call, and its state refuses every other one.
StepOK ==
    /\ \A i \in DOMAIN frames :
          Stepping(frames[i]) => i = Len(frames) /\ mstate \in {"Undo", "Redo"}
    /\ StepStays

LEMMA RestWhole ==
    ASSUME NEW S, NEW s \in Seq(S)
    PROVE  RestOf(s, s)
<1>1. Len(s) \in Nat
  BY LenProperties
<1>2. SubSeq(s, 0 + 1, Len(s)) = s
  <2>1. Len(s) \in 0 .. Len(s)
    BY <1>1
  <2>2. /\ SubSeq(s, 1, Len(s)) \in Seq(S)
        /\ Len(SubSeq(s, 1, Len(s))) = Len(s)
        /\ \A i \in 1 .. Len(s) : SubSeq(s, 1, Len(s))[i] = s[i]
    BY <2>1, PrefixFacts
  <2> QED
    BY <2>2, SeqEqual
<1> QED
  BY <1>1, <1>2 DEF RestOf

LEMMA RestTail ==
    ASSUME NEW S, NEW s \in Seq(S), NEW t \in Seq(S), t # <<>>, RestOf(t, s)
    PROVE  RestOf(Tail(t), s)
<1>1. PICK k \in 0 .. Len(s) : t = SubSeq(s, k + 1, Len(s))
  BY DEF RestOf
<1>2. Len(s) \in Nat /\ \A i \in 1 .. Len(s) : s[i] \in S
  BY LenProperties, ElementOfSeq
<1>3. /\ Len(t) \in Nat \ {0} /\ Tail(t) \in Seq(S) /\ Len(Tail(t)) = Len(t) - 1
      /\ \A i \in 1 .. Len(t) - 1 : Tail(t)[i] = t[i + 1]
  BY EmptySeq, HeadTailProperties
<1>4. /\ Len(t) = Len(s) - k
      /\ \A i \in 1 .. Len(s) - k : t[i] = s[k + i]
  <2>1. k + 1 \in 1 .. Len(s) + 1 /\ \A i \in k + 1 .. Len(s) : s[i] \in S
    BY <1>2
  <2>2. /\ Len(SubSeq(s, k + 1, Len(s))) = IF k + 1 <= Len(s) THEN Len(s) - (k + 1) + 1 ELSE 0
        /\ \A i \in 1 .. Len(s) - (k + 1) + 1 :
              SubSeq(s, k + 1, Len(s))[i] = s[k + 1 + i - 1]
    BY ONLY <1>2, <2>1, k \in 0 .. Len(s), SubSeqProperties
  <2>3. k \in Nat /\ k <= Len(s)
    BY <1>2
  <2>4. Len(s) - (k + 1) + 1 = Len(s) - k
        /\ \A i \in 1 .. Len(s) - k : k + 1 + i - 1 = k + i
    BY <1>2, <2>3
  <2>5. Len(t) = Len(s) - k
    <3>1. (IF k + 1 <= Len(s) THEN Len(s) - (k + 1) + 1 ELSE 0) = Len(s) - k
      BY <1>2, <2>3
    <3> QED
      BY ONLY <1>1, <2>2, <3>1
  <2>6. ASSUME NEW i \in 1 .. Len(s) - k PROVE t[i] = s[k + i]
    <3>1. i \in 1 .. Len(s) - (k + 1) + 1 /\ k + 1 + i - 1 = k + i
      BY ONLY <2>4, i \in 1 .. Len(s) - k
    <3> QED
      BY ONLY <1>1, <2>2, <3>1
  <2> QED
    BY <2>5, <2>6
<1>5. k + 1 \in 0 .. Len(s) /\ k \in Nat
  BY <1>2, <1>3, <1>4
<1>6. Tail(t) = SubSeq(s, k + 1 + 1, Len(s))
  <2>1. k + 2 \in 1 .. Len(s) + 1 /\ \A i \in k + 2 .. Len(s) : s[i] \in S
    BY <1>2, <1>5
  <2>2. /\ SubSeq(s, k + 2, Len(s)) \in Seq(S)
        /\ Len(SubSeq(s, k + 2, Len(s)))
              = IF k + 2 <= Len(s) THEN Len(s) - (k + 2) + 1 ELSE 0
        /\ \A i \in 1 .. Len(s) - (k + 2) + 1 :
              SubSeq(s, k + 2, Len(s))[i] = s[k + 2 + i - 1]
    BY ONLY <1>2, <1>5, <2>1, SubSeqProperties
  <2>3. Len(SubSeq(s, k + 2, Len(s))) = Len(Tail(t))
    <3>1. (IF k + 2 <= Len(s) THEN Len(s) - (k + 2) + 1 ELSE 0) = Len(s) - k - 1
      BY ONLY <1>2, <1>5
    <3> QED
      BY ONLY <1>3, <1>4, <2>2, <3>1
  <2>4. \A i \in 1 .. Len(Tail(t)) : Tail(t)[i] = SubSeq(s, k + 2, Len(s))[i]
    <3> TAKE i \in 1 .. Len(Tail(t))
    <3>1. /\ i \in 1 .. Len(t) - 1 /\ i + 1 \in 1 .. Len(s) - k
          /\ i \in 1 .. Len(s) - (k + 2) + 1 /\ k + 2 + i - 1 = k + (i + 1)
      BY <1>2, <1>3, <1>4, <1>5
    <3> QED
      BY <1>3, <1>4, <2>2, <3>1
  <2>5. Tail(t) = SubSeq(s, k + 2, Len(s))
    BY ONLY <1>3, <2>2, <2>3, <2>4, SeqEqual
  <2>6. k + 1 + 1 = k + 2
    BY <1>5
  <2> QED
    BY <2>5, <2>6
<1> QED
  BY <1>5, <1>6 DEF RestOf

\* What an undo and a redo go through.
LEMMA StepActions ==
    ASSUME StateOK
    PROVE  /\ current # 0 => Reversed(stack[current]) \in Seq(Actions)
           /\ current # Len(stack) => stack[current + 1] \in Seq(Actions)
<1>1. stack \in Seq(Seq(Actions)) /\ current \in Nat /\ current <= Len(stack)
  BY DEF StateOK, TypeOK
<1>2. Len(stack) \in Nat /\ \A i \in 1 .. Len(stack) : stack[i] \in Seq(Actions)
  BY <1>1, LenProperties, ElementOfSeq
<1>3. current # 0 => Reversed(stack[current]) \in Seq(Actions)
  BY <1>1, <1>2, ReversedFacts
<1> QED
  BY <1>1, <1>2, <1>3

LEMMA NobodySteps == ASSUME NoneSteps PROVE StepOK
BY DEF NoneSteps, StepOK, StepStays, Stepping

\* While a client can call anything, and wherever another call returns, no step
\* is under way.
LEMMA NoStep ==
    ASSUME IInv, StepOK,
           mstate \notin {"Undo", "Redo"} \/ (frames # <<>> /\ ~Stepping(Top))
    PROVE  NoneSteps
BY DEF StepOK, NoneSteps, Top

LEMMA NoStepStays ==
    ASSUME IInv, NoneSteps, UNCHANGED frames
    PROVE  NoneSteps'
BY DEF NoneSteps

LEMMA NoStepCalled ==
    ASSUME IInv, IInv', NoneSteps, NEW call, NEW todo, frames' = Called(call, todo),
           call \in {"edit", "setRoot", "abort", "step", "reset"}
    PROVE  NoneSteps'
<1>1. frames' = Append(frames, [call |-> call, todo |-> todo, done |-> FALSE])
  BY DEF Called
<1>2. /\ frames \in Seq(Frame) /\ Len(frames) \in Nat
      /\ DOMAIN frames = 1 .. Len(frames)
  BY FramesType DEF IInv
<1>3. frames' \in Seq(Frame) /\ DOMAIN frames' = 1 .. Len(frames')
  <2>1. frames' \in Seq(Frame)
    BY DEF IInv, StateOK, TypeOK
  <2> QED
    BY <2>1, LenProperties
<1>4. /\ Len(frames') = Len(frames) + 1
      /\ \A i \in 1 .. Len(frames) : frames'[i] = frames[i]
      /\ frames'[Len(frames) + 1] = [call |-> call, todo |-> todo, done |-> FALSE]
  BY <1>1, <1>2
<1> QED
  BY <1>2, <1>3, <1>4 DEF NoneSteps, Stepping

LEMMA NoStepReturned ==
    ASSUME IInv, NoneSteps, frames # <<>>, frames' = Below
    PROVE  NoneSteps'
<1>1. /\ Len(frames) \in Nat /\ DOMAIN frames = 1 .. Len(frames)
  BY FramesType DEF IInv
<1>2. /\ Len(frames') = Len(frames) - 1
      /\ DOMAIN frames' = 1 .. Len(frames')
      /\ \A i \in 1 .. Len(frames) - 1 : frames'[i] = frames[i]
  BY ReturnStep DEF IInv
<1> QED
  BY <1>1, <1>2 DEF NoneSteps

\* An undo or a redo begins with all of the step.
LEMMA StepBegins ==
    ASSUME IInv, IInv', StepOK, Undo \/ Redo PROVE StepOK'
<1>1. NoneSteps
  BY NoStep DEF Undo, Redo
<1>2. UNCHANGED <<stack, current>>
  BY DEF Undo, Redo, engineVars
<1>3. /\ frames \in Seq(Frame) /\ Len(frames) \in Nat
      /\ DOMAIN frames = 1 .. Len(frames)
  BY FramesType DEF IInv
<1>4. PICK call \in {"undo", "redo"}, todo \in Seq(Actions) :
        /\ frames' = Called(call, todo)
        /\ mstate' \in {"Undo", "Redo"}
        /\ call = "undo" => current # 0 /\ RestOf(todo, Reversed(stack[current]))
        /\ call = "redo" =>
              current # Len(stack) /\ RestOf(todo, stack[current + 1])
  <2>1. CASE Undo
    <3>1. current # 0 /\ Reversed(stack[current]) \in Seq(Actions)
      BY <2>1, StepActions DEF Undo, IInv
    <3> QED
      BY <2>1, <3>1, RestWhole DEF Undo
  <2>2. CASE Redo
    <3>1. current # Len(stack) /\ stack[current + 1] \in Seq(Actions)
      BY <2>2, StepActions DEF Redo, IInv
    <3> QED
      BY <2>2, <3>1, RestWhole DEF Redo
  <2> QED
    BY <2>1, <2>2
<1>5. DOMAIN frames' = 1 .. Len(frames')
  <2>1. frames' \in Seq(Frame)
    BY DEF IInv, StateOK, TypeOK
  <2> QED
    BY <2>1, LenProperties
<1>6. /\ Len(frames') = Len(frames) + 1
      /\ \A i \in 1 .. Len(frames) : frames'[i] = frames[i]
      /\ frames'[Len(frames) + 1] = [call |-> call, todo |-> todo, done |-> FALSE]
  BY <1>3, <1>4 DEF Called
<1>7. \A i \in DOMAIN frames' : Stepping(frames'[i]) => i = Len(frames')
  BY <1>1, <1>3, <1>5, <1>6 DEF NoneSteps
<1>8. StepStays'
  <2> SUFFICES ASSUME NEW i \in DOMAIN frames', Stepping(frames'[i])
               PROVE  /\ frames'[i].call = "undo" =>
                            current # 0 /\ RestOf(frames'[i].todo, Reversed(stack[current]))
                      /\ frames'[i].call = "redo" =>
                            /\ current # Len(stack)
                            /\ RestOf(frames'[i].todo, stack[current + 1])
    BY <1>2 DEF StepStays, Stepping, Reversed
  <2>1. frames'[i] = [call |-> call, todo |-> todo, done |-> FALSE]
    BY <1>6, <1>7
  <2> QED
    BY <1>4, <2>1
<1> QED
  BY <1>4, <1>7, <1>8 DEF StepOK

\* It goes on with what is left of it, ...
LEMMA StepGoesOn ==
    ASSUME IInv, IInv', StepOK, Execute \/ ChangeRoot \/ NextAction PROVE StepOK'
<1>1. UNCHANGED <<stack, current, mstate>> /\ frames # <<>>
  BY DEF Execute, ChangeRoot, NextAction, Returned, engineVars
<1>2. CASE UNCHANGED frames
  BY <1>1, <1>2 DEF StepOK, StepStays, Reversed
<1>3. CASE ~UNCHANGED frames
  <2>1. PICK done \in BOOLEAN, todo \in {Top.todo, Tail(Top.todo)} :
          frames' = Replaced(Top.call, todo, done)
    BY <1>3 DEF Execute, ChangeRoot, NextAction, Returned
  <2>2. /\ frames \in Seq(Frame) /\ Len(frames) \in Nat \ {0}
        /\ DOMAIN frames = 1 .. Len(frames) /\ Top \in Frame
    BY <1>1, FramesType DEF IInv
  <2>3. Top.todo \in Seq(Actions) /\ Top.todo # <<>>
    <3>1. Top.todo \in Seq(Actions)
      BY <2>2 DEF Frame
    <3>2. Top.todo # <<>>
      <4>1. CASE Execute
        BY <4>1 DEF Execute
      <4>2. CASE NextAction
        BY <4>2, EmptySeq DEF NextAction
      <4>3. CASE ChangeRoot
        BY <1>1, <4>3, FramesType DEF ChangeRoot, Returned, IInv, FrameOK
      <4> QED
        BY <4>1, <4>2, <4>3
    <3> QED
      BY <3>1, <3>2
  <2>4. todo \in Seq(Actions)
    BY <2>3, HeadTailProperties
  <2>5. [call |-> Top.call, todo |-> todo, done |-> done] \in Frame
    BY <2>1, <2>2, <2>4 DEF Frame
  <2>6. /\ Len(frames') = Len(frames)
        /\ \A i \in 1 .. Len(frames) - 1 : frames'[i] = frames[i]
        /\ frames'[Len(frames)] = [call |-> Top.call, todo |-> todo, done |-> done]
    BY <1>1, <2>1, <2>2, <2>5, ReplacedFacts
  <2>7. DOMAIN frames' = 1 .. Len(frames')
    <3>1. frames' \in Seq(Frame)
      BY DEF IInv, StateOK, TypeOK
    <3> QED
      BY <3>1, LenProperties
  <2>8. \A i \in DOMAIN frames' :
           Stepping(frames'[i]) => i = Len(frames) /\ Stepping(Top)
    <3> SUFFICES ASSUME NEW i \in DOMAIN frames', Stepping(frames'[i])
                 PROVE  i = Len(frames) /\ Stepping(Top)
      OBVIOUS
    <3>1. CASE i \in 1 .. Len(frames) - 1
      <4>1. Stepping(frames[i]) /\ i \in DOMAIN frames
        BY <2>2, <2>6, <3>1
      <4>2. i = Len(frames)
        BY <4>1 DEF StepOK
      <4> QED
        BY <2>2, <3>1, <4>2
    <3>2. CASE i = Len(frames)
      BY <2>6, <3>2 DEF Stepping
    <3> QED
      BY <2>2, <2>6, <2>7, <3>1, <3>2
  <2>9. Stepping(Top) =>
          /\ mstate \in {"Undo", "Redo"}
          /\ Top.call = "undo" =>
                current # 0 /\ RestOf(Top.todo, Reversed(stack[current]))
          /\ Top.call = "redo" =>
                current # Len(stack) /\ RestOf(Top.todo, stack[current + 1])
    <3>1. Len(frames) \in DOMAIN frames /\ Top = frames[Len(frames)]
      BY <2>2 DEF Top
    <3> QED
      BY <3>1 DEF StepOK, StepStays
  <2>10. Stepping(Top) =>
          /\ Top.call = "undo" => RestOf(todo, Reversed(stack[current]))
          /\ Top.call = "redo" => RestOf(todo, stack[current + 1])
    <3>1. CASE todo = Top.todo
      BY <2>9, <3>1
    <3>2. CASE todo = Tail(Top.todo)
      <4>1. ASSUME NEW s \in Seq(Actions), RestOf(Top.todo, s) PROVE RestOf(todo, s)
        BY <2>3, <3>2, <4>1, RestTail
      <4>2. StateOK
        BY DEF IInv
      <4> QED
        BY <2>9, <4>1, <4>2, StepActions
    <3> QED
      BY <2>1, <3>1, <3>2
  <2>11. StepStays'
    <3> SUFFICES ASSUME NEW i \in DOMAIN frames', Stepping(frames'[i])
                 PROVE  /\ frames'[i].call = "undo" =>
                              current # 0 /\ RestOf(frames'[i].todo, Reversed(stack[current]))
                        /\ frames'[i].call = "redo" =>
                              /\ current # Len(stack)
                              /\ RestOf(frames'[i].todo, stack[current + 1])
      BY <1>1 DEF StepStays, Stepping, Reversed
    <3>1. frames'[i].call = Top.call /\ frames'[i].todo = todo /\ Stepping(Top)
      BY <2>6, <2>8
    <3> QED
      BY <2>9, <2>10, <3>1
  <2> QED
    BY <1>1, <2>6, <2>8, <2>9, <2>11 DEF StepOK
<1> QED
  BY <1>2, <1>3

\* ... and moves the cursor when it is done.
LEMMA StepEnds ==
    ASSUME IInv, IInv', StepOK, UndoReturns \/ RedoReturns PROVE StepOK'
<1>1. /\ frames # <<>> /\ frames' = Replaced("step", <<>>, FALSE)
  BY DEF UndoReturns, RedoReturns, Returned
<1>2. /\ frames \in Seq(Frame) /\ Len(frames) \in Nat \ {0}
      /\ DOMAIN frames = 1 .. Len(frames)
  BY <1>1, FramesType DEF IInv
<1>3. /\ [call |-> "step", todo |-> <<>>, done |-> FALSE] \in Frame
      /\ FrameOK([call |-> "step", todo |-> <<>>, done |-> FALSE])
  BY NotifyFrame
<1>4. /\ Len(frames') = Len(frames)
      /\ \A i \in 1 .. Len(frames) - 1 : frames'[i] = frames[i]
      /\ frames'[Len(frames)] = [call |-> "step", todo |-> <<>>, done |-> FALSE]
  BY <1>1, <1>3, GoOnStep DEF IInv
<1>5. DOMAIN frames' = 1 .. Len(frames')
  <2>1. frames' \in Seq(Frame)
    BY DEF IInv, StateOK, TypeOK
  <2> QED
    BY <2>1, LenProperties
<1>6. NoneSteps'
  <2> SUFFICES ASSUME NEW i \in DOMAIN frames', Stepping(frames'[i]) PROVE FALSE
    BY DEF NoneSteps
  <2>1. CASE i \in 1 .. Len(frames) - 1
    <3>1. Stepping(frames[i]) /\ i \in DOMAIN frames
      BY <1>2, <1>4, <2>1
    <3>2. i = Len(frames)
      BY <3>1 DEF StepOK
    <3> QED
      BY <1>2, <2>1, <3>2
  <2>2. CASE i = Len(frames)
    BY <1>4, <2>2 DEF Stepping
  <2> QED
    BY <1>2, <1>4, <1>5, <2>1, <2>2
<1> QED
  BY <1>6, NobodySteps, PTL

LEMMA StepKept == IInv /\ StepOK /\ IInv' /\ [Next]_vars => StepOK'
<1> SUFFICES ASSUME IInv, StepOK, IInv', [Next]_vars PROVE StepOK'
  OBVIOUS
<1>0. NoneSteps' => StepOK'
  BY NobodySteps, PTL
<1>1. CASE UNCHANGED vars
  BY <1>1 DEF vars, engineVars, StepOK, StepStays, Stepping, Reversed
<1>2. CASE BeginTransaction \/ LeaveNothing \/ LeaveAbort
  <2>1. UNCHANGED frames /\ mstate \in {"Idle", "Transaction"}
    BY <1>2 DEF BeginTransaction, LeaveNothing, LeaveAbort, Leaving
  <2> QED
    BY <1>0, <2>1, NoStep, NoStepStays
<1>3. CASE \/ \E a \in Edits : Edit(a)
           \/ \E a \in RootChanges \cup NullChanges : SetRoot(a)
           \/ Commit \/ AbortTransaction \/ StepNowhere \/ Reset
  <2>1. mstate \in {"Idle", "Transaction"}
    BY <1>3 DEF Edit, SetRoot, ModelWritable, Commit, AbortTransaction, StepNowhere,
                Reset, Leaving
  <2>2. PICK call \in {"edit", "setRoot", "abort", "step", "reset"} :
           \E todo : frames' = Called(call, todo)
    BY <1>3 DEF Edit, SetRoot, Commit, AbortTransaction, StepNowhere, Reset
  <2> QED
    BY <1>0, <2>1, <2>2, NoStep, NoStepCalled
<1>4. CASE EditEnds \/ SetRootEnds \/ AbortReturns \/ StepReturns \/ ResetReturns
  <2>1. frames # <<>> /\ frames' = Below /\ ~Stepping(Top)
    BY <1>4 DEF EditEnds, SetRootEnds, AbortReturns, StepReturns, ResetReturns,
                Returned, Stepping
  <2> QED
    BY <1>0, <2>1, NoStep, NoStepReturned
<1> QED
  BY <1>1, <1>2, <1>3, <1>4, StepBegins, StepGoesOn, StepEnds DEF Next

LEMMA StepAlways == Spec => []StepOK
<1>1. Init => StepOK
  BY NobodySteps, EmptySeq DEF Init, NoneSteps
<1>2. IInv /\ StepOK /\ IInv' /\ [Next]_vars => StepOK'
  BY StepKept
<1> QED
  BY <1>1, <1>2, InvAlways, PTL DEF Spec

\* The engine executes a transaction that stays where it is: whatever notify
\* calls, the slips included, what an undo or a redo has still to execute is the
\* rest of the step before, or after, the cursor.
THEOREM StepAlwaysStays == Spec => []StepStays
<1>1. StepOK => StepStays
  BY DEF StepOK
<1> QED
  BY <1>1, StepAlways, PTL

----------------------------------------------------------------------------
(***************************************************************************)
(* The engine under nested calls.  Whatever they do to it is what          *)
(* UndoStack allows, so that its invariant and its refinement hold here.   *)
(***************************************************************************)
Stack == INSTANCE UndoStackProofs WITH
    Payload <- Seq(Actions), Requests <- {},
    maxSteps <- MaxSteps, attached <- TRUE

\* A step of the calls is a call of the engine, or none.
LEMMA EngineStep ==
    ASSUME IInv, [Next]_vars PROVE [Stack!Next]_(Stack!vars)
<1>1. ASSUME UNCHANGED engineVars PROVE UNCHANGED Stack!vars
  BY <1>1 DEF engineVars, Stack!vars
<1>2. CASE UNCHANGED vars
  BY <1>1, <1>2 DEF vars, engineVars
<1>3. CASE Commit
  <2>1. txActions \in Seq(Actions)
    BY DEF IInv, StateOK, TypeOK
  <2>2. Stack!CommitWindow(txActions) /\ Stack!currentStep < MaxStep
    BY <1>3 DEF Commit, Engine!CommitWindow, Stack!CommitWindow, Engine!Pushed,
                Stack!Pushed, Engine!Truncated, Stack!Truncated,
                Engine!currentStep, Stack!currentStep
  <2>3. Stack!Commit(txActions)
    BY <2>2 DEF Stack!Commit
  <2> QED
    BY <2>1, <2>3 DEF Stack!Next
<1>4. CASE UndoReturns
  BY <1>4 DEF UndoReturns, Engine!StepBack, Stack!StepBack, Stack!Undo, Stack!Next
<1>5. CASE RedoReturns
  BY <1>5 DEF RedoReturns, Engine!StepForward, Stack!StepForward, Stack!Redo,
              Stack!Next
<1>6. CASE ResetReturns
  <2>1. Stack!ResetWindow
    BY <1>6 DEF ResetReturns, Engine!ResetWindow, Stack!ResetWindow
  <2> QED
    BY <2>1 DEF Stack!Reset, Stack!Next
<1>7. CASE \/ \E a \in Edits : Edit(a)
           \/ \E a \in RootChanges \cup NullChanges : SetRoot(a)
           \/ BeginTransaction \/ LeaveNothing \/ AbortTransaction \/ LeaveAbort
           \/ Undo \/ Redo \/ StepNowhere \/ Reset \/ Execute \/ EditEnds
           \/ ChangeRoot \/ SetRootEnds \/ NextAction \/ AbortReturns \/ StepReturns
  BY <1>1, <1>7 DEF Edit, SetRoot, BeginTransaction, LeaveNothing, AbortTransaction,
                    LeaveAbort, Undo, Redo, StepNowhere, Reset, Execute, EditEnds,
                    ChangeRoot, SetRootEnds, NextAction, AbortReturns, StepReturns
<1> QED
  BY <1>2, <1>3, <1>4, <1>5, <1>6, <1>7 DEF Next

LEMMA StackAssumption == Stack!UndoStackAssumption
BY ProtocolAssumption DEF Stack!UndoStackAssumption

LEMMA StackInit == Init => Stack!IInv
<1> SUFFICES ASSUME Init PROVE Stack!IInv
  OBVIOUS
<1>1. stack = <<>> /\ min = 0 /\ current = 0 /\ MaxSteps \in Nat /\ MaxSteps >= 4
  BY ProtocolAssumption DEF Init
<1>2. <<>> \in Seq(Seq(Actions)) /\ Len(<<>>) = 0
  OBVIOUS
<1> QED
  BY <1>1, <1>2 DEF Stack!IInv, Stack!TypeOK, Stack!WindowInv, Stack!canUndo,
     Stack!canRedo, Stack!minimumStep, Stack!maximumStep, Stack!currentStep

LEMMA StackStep == IInv /\ Stack!IInv /\ [Next]_vars => Stack!IInv'
BY ONLY EngineStep, StackAssumption, Stack!InvStep

LEMMA StackAlways == Spec => []Stack!IInv
BY StackInit, StackStep, InvAlways, PTL DEF Spec

\* Engine and Stack are the same engine.
LEMMA StepLogged ==
    IInv /\ Stack!IInv /\ Stack!IInv' /\ [Next]_vars
        => [Engine!Log!Next]_(Engine!Log!logVars)
<1> SUFFICES ASSUME IInv, Stack!IInv, Stack!IInv', [Next]_vars
             PROVE  [Engine!Log!Next]_(Engine!Log!logVars)
  OBVIOUS
<1>1. [Stack!Log!Next]_(Stack!Log!logVars)
  BY ONLY IInv, Stack!IInv, Stack!IInv', [Next]_vars, EngineStep,
          StackAssumption, Stack!StepImplements
<1> QED
  BY ONLY <1>1
     DEF Stack!Log!Next, Stack!Log!logVars, Stack!Log!Configure,
         Stack!Log!Commit, Stack!Log!Back, Stack!Log!Forward, Stack!Log!Clear,
         Stack!StepMessage, Stack!NoMessage, Stack!maximumStep,
         Stack!currentStep,
         Engine!Log!Next, Engine!Log!logVars, Engine!Log!Configure,
         Engine!Log!Commit, Engine!Log!Back, Engine!Log!Forward,
         Engine!Log!Clear, Engine!StepMessage, Engine!NoMessage,
         Engine!maximumStep, Engine!currentStep

LEMMA StartLogged == Init => Engine!Log!Init
<1> SUFFICES ASSUME Init PROVE Engine!Log!Init
  OBVIOUS
<1>1. stack = <<>> /\ min = 0 /\ current = 0 /\ MaxSteps \in Nat
  BY ProtocolAssumption DEF Init
<1>2. min + Len(stack) = 0 /\ min + current = 0 /\ min + 1 .. min + Len(stack) = {}
  BY <1>1
<1> QED
  BY <1>1, <1>2 DEF Engine!Log!Init, Engine!maximumStep, Engine!currentStep

\* The steps stay a log of numbered steps also when notify commits, undoes, redoes
\* and resets while another of these calls waits for it, the slips included: a
\* step is moved over once, by the call that executed it, and keeps its number.
THEOREM NestedCallsNumberSteps == Spec => Engine!ImplementsStepLog
<1>1. IInv /\ Stack!IInv /\ Stack!IInv' /\ [Next]_vars
         => [Engine!Log!Next]_(Engine!Log!logVars)
  BY StepLogged
<1> QED
  BY StartLogged, StackAlways, InvAlways, <1>1, PTL
     DEF Spec, Engine!ImplementsStepLog, Engine!Log!Spec
=============================================================================
