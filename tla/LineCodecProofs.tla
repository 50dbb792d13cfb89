--------------------------- MODULE LineCodecProofs ---------------------------
(***************************************************************************)
(* Proofs about LineCodec, for every limit on the length of a line, every  *)
(* input and every way in which it arrives.                                *)
(***************************************************************************)
EXTENDS LineCodec, FiniteSetTheorems, SequenceTheorems, TLAPS

-----------------------------------------------------------------------------
(* The inductive invariant *)

Items == [kind : {"line", "Io", "MaxLineLengthExceeded"},
          first : 0..(MaxInput + 1), last : 0..MaxInput]

\* A line of at most MaxLength bytes, or an error.
Proper(item) ==
  item.kind = "line" =>
    /\ item.last - item.first < MaxLength
    /\ \A j \in item.first..item.last : input[j] # LF

OutInv == \A i \in 1..Len(out) : Proper(out[i])

\* What is left when decode gives up has been searched, and is not too long.
RestInv == pc = "rest" => from + next_index = to /\ to - from <= MaxLength

Flags == is_discarding \in BOOLEAN /\ eof \in BOOLEAN

IInv == TypeOK /\ from <= to /\ SliceInRange /\ NoLineEndSkipped /\ RestInv /\ OutInv

\* When decode wants more, or the end of the input is known, everything that arrived has
\* been searched or discarded.
PauseInv ==
  /\ pc = "wait" => ~ eof
  /\ pc \in {"rest", "end"} => eof
  /\ pc \in {"wait", "rest"} =>
       /\ \A i \in (from + 1)..to : input[i] # LF
       /\ to - from <= MaxLength
       /\ is_discarding => from = to

\* What the first e bytes have still to give.
AheadAt(p, discarding, e, closed) ==
  IF ~ discarding THEN ItemsFrom(e, closed)[p]
  ELSE IF EndsIn(p, e) = {} THEN <<>> ELSE ItemsFrom(e, closed)[FirstIn(p, e) + 1]
Ahead(e, closed) == AheadAt(from + 1, is_discarding, e, closed)

\* However much of the input is still to arrive: what was returned and what is ahead are
\* the lines of the whole.
ReferenceInv ==
  \A e \in to..MaxInput, closed \in BOOLEAN :
    (eof => e = to /\ closed) => Reference(e, closed) = out \o Ahead(e, closed)
EndInv == pc = "end" => Ahead(to, TRUE) = <<>>

LinesInv == IInv /\ PauseInv /\ ReferenceInv /\ EndInv

-----------------------------------------------------------------------------
(* Items *)

\* The constants and variables are numbers.
LEMMA Numbers ==
  ASSUME IInv
  PROVE  /\ MaxLength \in Nat /\ MaxInput \in Nat
         /\ to \in 0..MaxInput /\ from \in 0..MaxInput /\ next_index \in 0..MaxInput
         /\ from <= to
         /\ pc # "end" => next_index <= read_to
         /\ out \in Seq(Items)
BY LengthAssumption DEF IInv, TypeOK, SliceInRange, Items

\* decode searches the buffer and no more than MaxLength + 1 bytes of it.
LEMMA ReadTo ==
  ASSUME IInv
  PROVE  /\ read_to \in 0..(MaxLength + 1) /\ from + read_to <= to
         /\ read_to = to - from \/ read_to = MaxLength + 1
         /\ ~ Overlong => read_to = to - from
BY Numbers DEF read_to, Minimum, Len_buf, Overlong

\* An item made of a part of the input without a line end.
LEMMA ItemProper ==
  ASSUME IInv, NEW a \in 1..(MaxInput + 1), NEW b \in 0..MaxInput, a <= b + 1,
         b + 1 - a <= MaxLength, \A j \in a..b : input[j] # LF
  PROVE  Item(a, b) \in Items /\ Proper(Item(a, b))
<1>1. MaxLength \in Nat /\ MaxInput \in Nat
  BY Numbers
<1> DEFINE c == without_carriage_return(a, b)
<1>2. c \in 0..MaxInput /\ c <= b
  BY <1>1 DEF without_carriage_return
<1> HIDE DEF c
<1>3. LineItem(a, c) \in Items /\ NotText \in Items
  BY <1>1, <1>2 DEF LineItem, NotText, Items
<1>4. Proper(LineItem(a, c)) /\ Proper(NotText)
  BY <1>1, <1>2 DEF LineItem, NotText, Proper
<1>5. Item(a, b) = LineItem(a, c) \/ Item(a, b) = NotText
  BY DEF Item, utf8, c
<1>6. QED
  BY <1>3, <1>4, <1>5

\* The items with one more.
LEMMA OneMore ==
  ASSUME IInv, NEW item \in Items, Proper(item), out' = Append(out, item), input' = input
  PROVE  out' \in Seq(Items) /\ OutInv'
<1>1. /\ out' \in Seq(Items) /\ Len(out') = Len(out) + 1 /\ Len(out) \in Nat
      /\ \A i \in 1..Len(out) : out'[i] = out[i]
      /\ out'[Len(out) + 1] = item
  BY Numbers, AppendProperties, LenProperties
<1>2. ASSUME NEW i \in 1..Len(out') PROVE Proper(out[i])'
  <2>1. CASE i \in 1..Len(out)
    BY <1>1, <2>1 DEF IInv, OutInv, Proper
  <2>2. CASE i = Len(out) + 1
    BY <1>1, <2>2 DEF Proper
  <2>3. QED
    BY <1>1, <1>2, <2>1, <2>2
<1>3. QED
  BY <1>1, <1>2 DEF OutInv

-----------------------------------------------------------------------------
(* Steps *)

\* The invariant holds before any input has arrived.
LEMMA InvInit == Init => IInv
<1> SUFFICES ASSUME Init PROVE IInv
  OBVIOUS
<1>1. out \in Seq(Items) /\ Len(out) = 0
  BY EmptySeq DEF Init
<1>2. TypeOK
  <2>1. /\ input \in [1..MaxInput -> Bytes]
        /\ to \in 0..MaxInput /\ from \in 0..MaxInput /\ next_index \in 0..MaxInput
        /\ pc \in {"wait", "decode", "rest", "end"}
    BY LengthAssumption DEF Init
  <2>2. is_discarding \in BOOLEAN /\ eof \in BOOLEAN
    BY DEF Init
  <2>3. QED
    BY <1>1, <2>1, <2>2 DEF TypeOK, Items
<1>3. from <= to /\ SliceInRange /\ NoLineEndSkipped /\ RestInv
  BY LengthAssumption
     DEF Init, SliceInRange, NoLineEndSkipped, RestInv, read_to, Minimum, Len_buf
<1>4. OutInv
  BY <1>1 DEF OutInv
<1>5. QED
  BY <1>2, <1>3, <1>4 DEF IInv

\* A step that returns no item keeps what is said of them.
LEMMA NoItem ==
  ASSUME IInv, UNCHANGED <<input, out>>
  PROVE  out' \in Seq(Items) /\ OutInv'
BY Numbers DEF IInv, OutInv, Proper

\* What a step has to establish of the buffer.
LEMMA Buffer ==
  ASSUME IInv, input' = input, NEW t \in 0..MaxInput, NEW f \in 0..t, NEW n \in 0..MaxInput,
         to' = t, from' = f, next_index' = n, Flags',
         pc' \in {"wait", "decode", "rest", "end"},
         pc' # "end" =>
            /\ n <= MaxLength + 1 /\ f + n <= t
            /\ \A i \in (f + 1)..(f + n) : input[i] # LF,
         pc' = "rest" => f + n = t /\ t - f <= MaxLength,
         out' \in Seq(Items), OutInv'
  PROVE  IInv'
<1>1. MaxLength \in Nat /\ MaxInput \in Nat
  BY Numbers
<1>2. TypeOK'
  <2>1. f \in 0..MaxInput
    BY <1>1
  <2>2. QED
    BY <2>1 DEF IInv, TypeOK, Items, Flags
<1>3. RestInv'
  BY DEF RestInv
<1>4. (from <= to)'
  BY <1>1
<1>5. SliceInRange'
  <2>1. read_to' = IF MaxLength + 1 <= t - f THEN MaxLength + 1 ELSE t - f
    BY DEF read_to, Minimum, Len_buf
  <2>2. pc' # "end" => n <= read_to'
    BY <1>1, <2>1
  <2>3. QED
    BY <1>4, <2>2 DEF SliceInRange
<1>6. NoLineEndSkipped'
  BY DEF NoLineEndSkipped
<1>7. QED
  BY <1>2, <1>3, <1>4, <1>5, <1>6 DEF IInv

\* What the invariant says of the part of the buffer that was searched.
LEMMA Searching ==
  ASSUME IInv, pc # "end"
  PROVE  /\ next_index <= MaxLength + 1 /\ from + next_index <= to
         /\ \A i \in (from + 1)..(from + next_index) : input[i] # LF
BY Numbers, ReadTo DEF IInv, NoLineEndSkipped

\* More input, or its end.
LEMMA ArrivalStep ==
  ASSUME IInv, (\E n \in 1..MaxInput : Receive(n)) \/ Close
  PROVE  IInv'
<1>1. pc = "wait" /\ pc' = "decode" /\ UNCHANGED <<input, from, next_index, is_discarding, out>>
  BY DEF Receive, Close
<1>2. to' \in 0..MaxInput /\ to <= to'
  BY Numbers DEF Receive, Close
<1>3. Flags'
  BY DEF Receive, Close, IInv, TypeOK, Flags
<1>4. from' \in 0..to' /\ next_index' \in 0..MaxInput
  BY <1>1, <1>2, Numbers
<1>5. QED
  BY <1>1, <1>2, <1>3, <1>4, Numbers, Searching, NoItem, Buffer

\* A line end is in the searched part of the buffer, and none is before it.
LEMMA LineEnd ==
  ASSUME IInv, pc = "decode", NEW q \in 1..to, FirstLineEnd(q)
  PROVE  /\ q \in (from + 1)..to /\ q - from <= MaxLength + 1
         /\ \A j \in (from + 1)..(q - 1) : input[j] # LF
<1>1. q \in (from + next_index + 1)..(from + read_to)
      /\ \A i \in (from + next_index + 1)..(q - 1) : input[i] # LF
  BY DEF FirstLineEnd
<1>2. QED
  BY <1>1, Numbers, ReadTo, Searching

\* Discarding, up to a line end or all there is.
LEMMA DiscardStep == ASSUME IInv, DiscardToLineEnd \/ DiscardAll PROVE IInv'
<1>1. UNCHANGED <<input, to, out>> /\ next_index' = 0 /\ pc = "decode"
  BY DEF DiscardToLineEnd, DiscardAll
<1>f. Flags'
  BY DEF DiscardToLineEnd, DiscardAll, IInv, TypeOK, Flags
<1>2. from' \in 0..to
  BY Numbers, ReadTo, LineEnd DEF DiscardToLineEnd, DiscardAll
<1>3. pc' \in {"wait", "decode", "rest", "end"} /\ (pc' = "rest" => from' = to)
  BY <1>1 DEF DiscardToLineEnd, DiscardAll, ReturnNone
<1>4. PICK f \in 0..to : from' = f
  BY <1>2
<1>5. 0 <= MaxLength + 1 /\ f + 0 <= to /\ 0 \in 0..MaxInput /\ to \in 0..MaxInput
      /\ (\A i \in (f + 1)..(f + 0) : input[i] # LF)
      /\ (pc' = "rest" => f + 0 = to /\ to - f <= MaxLength)
  BY <1>3, <1>4, Numbers
<1>6. out' \in Seq(Items) /\ OutInv'
  BY <1>1, NoItem
<1>7. QED
  BY <1>f, <1>1, <1>3, <1>4, <1>5, <1>6, Buffer

\* A line, or bytes that are none.
LEMMA LineStep == ASSUME IInv, ReturnLine PROVE IInv'
<1>1. PICK q \in 1..to : FirstLineEnd(q) /\ out' = Append(out, Item(from + 1, q - 1))
                         /\ from' = q
  BY DEF ReturnLine
<1>2. /\ pc = "decode" /\ pc' = "decode" /\ next_index' = 0
      /\ UNCHANGED <<input, to>>
  BY DEF ReturnLine
<1>3. /\ q \in (from + 1)..to /\ q - from <= MaxLength + 1
      /\ \A j \in (from + 1)..(q - 1) : input[j] # LF
  BY <1>1, <1>2, LineEnd
<1>4. Item(from + 1, q - 1) \in Items /\ Proper(Item(from + 1, q - 1))
  <2>1. /\ from + 1 \in 1..(MaxInput + 1) /\ q - 1 \in 0..MaxInput
        /\ from + 1 <= (q - 1) + 1 /\ (q - 1) + 1 - (from + 1) <= MaxLength
    BY <1>3, Numbers
  <2>2. QED
    BY <1>3, <2>1, ItemProper
<1>5. out' \in Seq(Items) /\ OutInv'
  BY <1>1, <1>2, <1>4, OneMore
<1>6. Flags'
  BY DEF ReturnLine, IInv, TypeOK, Flags
<1>7. QED
  BY <1>1, <1>2, <1>3, <1>5, <1>6, Numbers, Buffer

\* A line that is too long is reported before it is discarded.
LEMMA TooLongStep == ASSUME IInv, ReturnTooLong PROVE IInv'
<1>1. /\ pc = "decode" /\ pc' = "decode" /\ out' = Append(out, TooLong)
      /\ UNCHANGED <<input, to, from, next_index>>
  BY DEF ReturnTooLong
<1>2. TooLong \in Items /\ Proper(TooLong)
  BY Numbers DEF TooLong, Items, Proper
<1>3. out' \in Seq(Items) /\ OutInv'
  BY <1>1, <1>2, OneMore
<1>4. Flags'
  BY DEF ReturnTooLong, IInv, TypeOK, Flags
<1>5. QED
  BY <1>1, <1>3, <1>4, Numbers, Searching, Buffer

\* An incomplete line stays, and where the search ended is remembered.
LEMMA NeedMoreStep == ASSUME IInv, NeedMore PROVE IInv'
<1>1. /\ UNCHANGED <<input, to, from, out>> /\ pc = "decode"
      /\ next_index' = read_to /\ NoLineEnd /\ ~ Overlong
      /\ pc' \in {"wait", "rest"}
  BY DEF NeedMore, Searched, ReturnNone
<1>2. Flags'
  BY DEF NeedMore, IInv, TypeOK, Flags
<1>3. next_index' = to - from /\ to - from <= MaxLength
  BY <1>1, Numbers, ReadTo DEF Overlong, Len_buf
<1>4. \A i \in (from + 1)..to : input[i] # LF
  BY <1>1, <1>3, Numbers, Searching DEF NoLineEnd
<1>5. next_index' \in 0..MaxInput
  BY <1>3, Numbers
<1>6. QED
  BY <1>1, <1>2, <1>3, <1>4, <1>5, Numbers, NoItem, Buffer

\* At the end of the input the rest is an item.
LEMMA RestStep == ASSUME IInv, NoMoreItems \/ ReturnRest PROVE IInv'
<1>1. UNCHANGED <<input, to>> /\ pc = "rest" /\ pc' \in {"end", "decode"}
  BY DEF NoMoreItems, ReturnRest
<1>2. Flags'
  BY DEF NoMoreItems, ReturnRest, IInv, TypeOK, Flags
<1>3. CASE NoMoreItems
  BY <1>1, <1>2, <1>3, Numbers, NoItem, Buffer DEF NoMoreItems
<1>4. CASE ReturnRest
  <2>1. from + next_index = to /\ to - from <= MaxLength
    BY <1>1 DEF IInv, RestInv
  <2>2. \A i \in (from + 1)..to : input[i] # LF
    BY <1>1, <2>1, Searching
  <2>3. Item(from + 1, to) \in Items /\ Proper(Item(from + 1, to))
    <3>1. /\ from + 1 \in 1..(MaxInput + 1) /\ to \in 0..MaxInput
          /\ from + 1 <= to + 1 /\ to + 1 - (from + 1) <= MaxLength
      BY <2>1, Numbers
    <3>2. QED
      BY <2>2, <3>1, ItemProper
  <2>4. out' \in Seq(Items) /\ OutInv'
    BY <1>1, <1>4, <2>3, OneMore DEF ReturnRest
  <2>5. from' = to /\ next_index' \in 0..MaxInput /\ (pc' # "end" => next_index' = 0)
    BY <1>4, Numbers DEF ReturnRest
  <2>6. QED
    BY <1>1, <1>2, <2>4, <2>5, Numbers, Buffer
<1>5. QED
  BY <1>3, <1>4

-----------------------------------------------------------------------------
(* The reference *)

LEMMA Least == ASSUME NEW T \in SUBSET Nat, T # {} PROVE \E x \in T : \A y \in T : x <= y
<1> DEFINE F == {0..x : x \in T}
<1>1. F \subseteq FiniteSubsetsOf(Nat) /\ F # {}
  <2>1. \A x \in T : IsFiniteSet(0..x) /\ 0..x \subseteq Nat
    BY FS_Interval
  <2> QED BY <2>1 DEF FiniteSubsetsOf
<1>2. IsWellFoundedOn(StrictSubsetOrdering(Nat), FiniteSubsetsOf(Nat))
  BY FS_StrictSubsetOrderingWellFounded
<1>3. \E s \in F : \A r \in F : ~ (<<r, s>> \in StrictSubsetOrdering(Nat))
  <2> HIDE DEF F
  <2> QED BY <1>1, <1>2, WFMin
<1>4. PICK x \in T : \A y \in T : ~ (<<0..y, 0..x>> \in StrictSubsetOrdering(Nat))
  BY <1>3
<1>5. \A y \in T : x <= y
  <2> SUFFICES ASSUME NEW y \in T, ~ (x <= y) PROVE FALSE
    OBVIOUS
  <2>1. x \in Nat /\ y \in Nat
    OBVIOUS
  <2>2. 0..y \subseteq 0..x /\ x \in 0..x /\ x \notin 0..y
    BY <2>1
  <2>3. 0..y \in SUBSET Nat /\ 0..x \in SUBSET Nat /\ 0..y # 0..x
    BY <2>1, <2>2
  <2>4. <<0..y, 0..x>> \in StrictSubsetOrdering(Nat)
    <3> DEFINE a == 0..y  b == 0..x
    <3>1. <<a, b>> \in (SUBSET Nat) \X (SUBSET Nat) /\ a \subseteq b /\ a # b
      BY <2>2, <2>3
    <3> HIDE DEF a, b
    <3> QED BY <3>1 DEF StrictSubsetOrdering
  <2> QED BY <1>4, <2>4
<1> QED BY <1>5

\* Down from e + 1: what holds there, and before each position where it holds, holds from
\* the first one on.
LEMMA Downward ==
  ASSUME NEW e \in Nat, NEW T \in SUBSET (0..(e + 1)), e + 1 \in T, \A n \in T : n # 0 => n - 1 \in T
  PROVE  0 \in T
<1>1. T \in SUBSET Nat
  OBVIOUS
<1>2. PICK n \in T : \A k \in T : n <= k
  BY <1>1, Least
<1>3. n # 0 => n - 1 \in T /\ ~ (n <= n - 1)
  BY <1>1
<1> QED BY <1>2, <1>3

LEMMA FirstInFacts ==
  ASSUME NEW p \in Nat, NEW e \in Nat, EndsIn(p, e) # {}
  PROVE  /\ FirstIn(p, e) \in p..e /\ input[FirstIn(p, e)] = LF
         /\ \A j \in p..(FirstIn(p, e) - 1) : input[j] # LF
<1>1. EndsIn(p, e) \in SUBSET Nat
  BY DEF EndsIn
<1>2. \E q \in EndsIn(p, e) : \A r \in EndsIn(p, e) : q <= r
  BY <1>1, Least
<1>3. FirstIn(p, e) \in EndsIn(p, e) /\ \A r \in EndsIn(p, e) : FirstIn(p, e) <= r
  BY <1>2 DEF FirstIn
<1>4. FirstIn(p, e) \in p..e /\ input[FirstIn(p, e)] = LF
  BY <1>3 DEF EndsIn
<1>5. ASSUME NEW j \in p..(FirstIn(p, e) - 1), input[j] = LF PROVE FALSE
  <2>1. j \in p..e /\ ~ (FirstIn(p, e) <= j)
    BY <1>4
  <2>2. j \in EndsIn(p, e)
    BY <1>5, <2>1 DEF EndsIn
  <2> QED BY <1>3, <2>1, <2>2
<1> QED BY <1>4, <1>5

\* A line end with none before it is the first.
LEMMA IsFirst ==
  ASSUME NEW p \in Nat, NEW e \in Nat, NEW q \in p..e, input[q] = LF, \A j \in p..(q - 1) : input[j] # LF
  PROVE  EndsIn(p, e) # {} /\ FirstIn(p, e) = q
<1>1. EndsIn(p, e) # {}
  BY DEF EndsIn
<1>2. /\ FirstIn(p, e) \in p..e /\ input[FirstIn(p, e)] = LF
      /\ \A j \in p..(FirstIn(p, e) - 1) : input[j] # LF
  BY <1>1, FirstInFacts
<1>3. ~ (q < FirstIn(p, e)) /\ ~ (FirstIn(p, e) < q)
  <2>1. q < FirstIn(p, e) => q \in p..(FirstIn(p, e) - 1)
    BY <1>2
  <2>2. FirstIn(p, e) < q => FirstIn(p, e) \in p..(q - 1)
    BY <1>2
  <2> QED BY <1>2, <2>1, <2>2
<1> QED BY <1>1, <1>2, <1>3

\* What the recursive definition says of one position, given the later ones.
Follow(g, p, e, closed) ==
  IF EndsIn(p, e) = {} THEN Remainder(p, e, closed)
  ELSE <<LineTo(p, FirstIn(p, e))>> \o g[FirstIn(p, e) + 1]

LEMMA ItemTypes ==
  ASSUME NEW a \in 1..(MaxInput + 1), NEW b \in 0..MaxInput
  PROVE  Item(a, b) \in Items /\ TooLong \in Items
<1>1. MaxInput \in Nat
  BY LengthAssumption
<1> DEFINE d == without_carriage_return(a, b)
<1>2. d \in 0..MaxInput
  BY <1>1 DEF without_carriage_return
<1> HIDE DEF d
<1>3. LineItem(a, d) \in Items /\ NotText \in Items /\ TooLong \in Items
  BY <1>1, <1>2 DEF LineItem, NotText, TooLong, Items
<1>4. Item(a, b) = LineItem(a, d) \/ Item(a, b) = NotText
  BY DEF Item, utf8, d
<1> QED BY <1>3, <1>4

LEMMA FollowTypes ==
  ASSUME NEW e \in 0..MaxInput, NEW closed, NEW p \in 1..(e + 1), NEW g,
         \A k \in (p + 1)..(e + 1) : g[k] \in Seq(Items)
  PROVE  Follow(g, p, e, closed) \in Seq(Items)
<1>1. MaxInput \in Nat /\ MaxLength \in Nat /\ e \in Nat /\ p \in Nat
  BY LengthAssumption
<1>2. CASE EndsIn(p, e) = {}
  <2>1. <<TooLong>> \in Seq(Items) /\ <<Item(p, e)>> \in Seq(Items) /\ <<>> \in Seq(Items)
    <3>1. TooLong \in Items /\ Item(p, e) \in Items
      BY <1>1, ItemTypes
    <3> QED BY <3>1
  <2> QED BY <1>2, <2>1 DEF Follow, Remainder
<1>3. CASE EndsIn(p, e) # {}
  <2> DEFINE q == FirstIn(p, e)
  <2>1. q \in p..e
    BY <1>1, <1>3, FirstInFacts
  <2> HIDE DEF q
  <2>2. LineTo(p, q) \in Items
    <3>1. p \in 1..(MaxInput + 1) /\ q - 1 \in 0..MaxInput
      BY <1>1, <2>1
    <3>2. Item(p, q - 1) \in Items /\ TooLong \in Items
      BY <3>1, ItemTypes
    <3> QED BY <3>2 DEF LineTo
  <2>3. g[q + 1] \in Seq(Items)
    <3>1. q + 1 \in (p + 1)..(e + 1)
      BY <1>1, <2>1
    <3> QED BY <3>1
  <2>4. <<LineTo(p, q)>> \o g[q + 1] \in Seq(Items)
    BY <2>2, <2>3
  <2> QED BY <1>3, <2>4 DEF Follow, q
<1> QED BY <1>2, <1>3

\* Only later positions matter.
LEMMA FollowSame ==
  ASSUME NEW e \in Nat, NEW closed, NEW p \in 1..(e + 1), NEW g, NEW h,
         \A k \in (p + 1)..(e + 1) : g[k] = h[k]
  PROVE  Follow(g, p, e, closed) = Follow(h, p, e, closed)
<1>1. CASE EndsIn(p, e) = {}
  BY <1>1 DEF Follow
<1>2. CASE EndsIn(p, e) # {}
  <2>1. FirstIn(p, e) \in p..e
    BY <1>2, FirstInFacts
  <2>2. FirstIn(p, e) + 1 \in (p + 1)..(e + 1)
    BY <2>1
  <2> QED BY <1>2, <2>2 DEF Follow
<1> QED BY <1>1, <1>2

\* There is a function as the recursive definition asks for: the last positions have one,
\* and it goes on one position before.
LEMMA FollowExists ==
  ASSUME NEW e \in 0..MaxInput, NEW closed
  PROVE  \E g : g = [p \in 1..(e + 1) |-> Follow(g, p, e, closed)]
<1>0. e \in Nat
  BY LengthAssumption
<1> DEFINE Solves(g, n) == \A p \in (n + 1)..(e + 1) : g[p] = Follow(g, p, e, closed)
           T == {n \in 0..(e + 1) : \E g \in [(n + 1)..(e + 1) -> Seq(Items)] : Solves(g, n)}
<1>1. e + 1 \in T
  <2>1. PICK m : m = e + 1
    OBVIOUS
  <2>2. (m + 1)..(e + 1) = {} /\ m \in 0..(e + 1)
    BY <1>0, <2>1
  <2>3. \E g \in [(m + 1)..(e + 1) -> Seq(Items)] : Solves(g, m)
    <3>1. PICK g : g = [k \in (m + 1)..(e + 1) |-> <<>>]
      OBVIOUS
    <3>2. g \in [(m + 1)..(e + 1) -> Seq(Items)]
      BY <2>2, <3>1
    <3>3. Solves(g, m)
      BY <2>2
    <3> QED BY <3>2, <3>3
  <2>4. m \in T
    BY <2>2, <2>3, Zenon
  <2> QED BY <2>1, <2>4
<1>2. ASSUME NEW n \in T, n # 0 PROVE n - 1 \in T
  <2>1. n \in 0..(e + 1) /\ n \in Nat \ {0} /\ n - 1 \in 0..(e + 1) /\ (n - 1) + 1 = n
    BY <1>0, <1>2
  <2>2. PICK g \in [(n + 1)..(e + 1) -> Seq(Items)] : Solves(g, n)
    OBVIOUS
  <2>3. PICK a : a = Follow(g, n, e, closed)
    OBVIOUS
  <2>4. a \in Seq(Items)
    <3>1. n \in 1..(e + 1) /\ \A k \in (n + 1)..(e + 1) : g[k] \in Seq(Items)
      BY <2>1
    <3> QED BY <2>3, <3>1, FollowTypes
  <2>5. PICK h : h = [p \in n..(e + 1) |-> IF p = n THEN a ELSE g[p]]
    OBVIOUS
  <2>6. /\ h \in [n..(e + 1) -> Seq(Items)] /\ h[n] = a
        /\ \A k \in (n + 1)..(e + 1) : h[k] = g[k]
    <3>1. \A p \in n..(e + 1) : p # n => p \in (n + 1)..(e + 1)
      BY <1>0, <2>1
    <3>2. n \in n..(e + 1) /\ \A k \in (n + 1)..(e + 1) : k \in n..(e + 1) /\ k # n
      BY <1>0, <2>1
    <3> QED BY <2>4, <2>5, <3>1, <3>2
  <2>7. ASSUME NEW p \in n..(e + 1) PROVE h[p] = Follow(h, p, e, closed)
    <3>1. p \in 1..(e + 1) /\ \A k \in (p + 1)..(e + 1) : k \in (n + 1)..(e + 1)
      BY <1>0, <2>1
    <3>2. Follow(g, p, e, closed) = Follow(h, p, e, closed)
      BY <1>0, <2>6, <3>1, FollowSame
    <3>3. CASE p = n
      BY <2>3, <2>6, <3>2, <3>3
    <3>4. CASE p # n
      <4>1. p \in (n + 1)..(e + 1)
        BY <1>0, <2>1, <3>4
      <4> QED BY <2>2, <2>6, <3>2, <4>1
    <3> QED BY <3>3, <3>4
  <2>8. \E f \in [((n - 1) + 1)..(e + 1) -> Seq(Items)] : Solves(f, n - 1)
    BY <2>1, <2>6, <2>7
  <2> QED BY <2>1, <2>8
<1>3. 0 \in T
  <2>1. T \in SUBSET (0..(e + 1))
    OBVIOUS
  <2> HIDE DEF T
  <2> QED BY <1>0, <1>1, <1>2, <2>1, Downward
<1>4. PICK g \in [(0 + 1)..(e + 1) -> Seq(Items)] : Solves(g, 0)
  BY <1>3
<1>5. g = [p \in 1..(e + 1) |-> Follow(g, p, e, closed)]
  BY <1>4
<1> QED BY <1>5

\* What ItemsFrom computes.
LEMMA ItemsFromFacts ==
  ASSUME NEW e \in 0..MaxInput, NEW closed, NEW f, f = ItemsFrom(e, closed)
  PROVE  \A p \in 1..(e + 1) : f[p] = Follow(f, p, e, closed) /\ f[p] \in Seq(Items)
<1>0. e \in Nat
  BY LengthAssumption
<1>1. ItemsFrom(e, closed) = CHOOSE g : g = [p \in 1..(e + 1) |-> Follow(g, p, e, closed)]
  BY DEF ItemsFrom, Follow
<1>2. f = [p \in 1..(e + 1) |-> Follow(f, p, e, closed)]
  BY <1>1, FollowExists
<1>3. \A p \in 1..(e + 1) : f[p] = Follow(f, p, e, closed)
  <2> DEFINE F(p) == Follow(f, p, e, closed)
  <2>1. f = [p \in 1..(e + 1) |-> F(p)]
    BY <1>2
  <2> HIDE DEF F
  <2>2. \A p \in 1..(e + 1) : f[p] = F(p)
    BY <2>1
  <2> QED BY <2>2 DEF F
<1> DEFINE T == {n \in 0..(e + 1) : \A p \in (n + 1)..(e + 1) : f[p] \in Seq(Items)}
<1>4. e + 1 \in T
  <2>1. e + 1 \in 0..(e + 1) /\ ((e + 1) + 1)..(e + 1) = {}
    BY <1>0
  <2>2. \A p \in ((e + 1) + 1)..(e + 1) : f[p] \in Seq(Items)
    BY <2>1
  <2> QED BY <2>1, <2>2
<1>5. ASSUME NEW n \in T, n # 0 PROVE n - 1 \in T
  <2>1. n \in 1..(e + 1) /\ n - 1 \in 0..(e + 1) /\ (n - 1) + 1 = n
    BY <1>0, <1>5
  <2>2. f[n] \in Seq(Items)
    <3>1. \A k \in (n + 1)..(e + 1) : f[k] \in Seq(Items)
      OBVIOUS
    <3>2. Follow(f, n, e, closed) \in Seq(Items)
      BY <2>1, <3>1, FollowTypes
    <3> QED BY <1>3, <2>1, <3>2
  <2>3. \A p \in n..(e + 1) : p = n \/ p \in (n + 1)..(e + 1)
    BY <1>0, <2>1
  <2> QED BY <2>1, <2>2, <2>3
<1>6. 0 \in T
  <2>1. T \in SUBSET (0..(e + 1))
    OBVIOUS
  <2> HIDE DEF T
  <2> QED BY <1>0, <1>4, <1>5, <2>1, Downward
<1> QED BY <1>3, <1>6

\* The items of the positions from p on, for the input from there to the next line end.
LEMMA Cut ==
  ASSUME NEW e \in 0..MaxInput, NEW closed, NEW p \in 1..(e + 1), NEW q \in p..e,
         input[q] = LF, \A j \in p..(q - 1) : input[j] # LF
  PROVE  /\ EndsIn(p, e) # {} /\ FirstIn(p, e) = q
         /\ ItemsFrom(e, closed)[p] = <<LineTo(p, q)>> \o ItemsFrom(e, closed)[q + 1]
         /\ ItemsFrom(e, closed)[q + 1] \in Seq(Items)
<1>0. e \in Nat /\ p \in Nat /\ q + 1 \in 1..(e + 1)
  BY LengthAssumption
<1>1. EndsIn(p, e) # {} /\ FirstIn(p, e) = q
  BY <1>0, IsFirst
<1>2. PICK f : f = ItemsFrom(e, closed)
  OBVIOUS
<1>3. f[p] = Follow(f, p, e, closed) /\ f[q + 1] \in Seq(Items)
  BY <1>0, <1>2, ItemsFromFacts
<1>4. f[p] = <<LineTo(p, q)>> \o f[q + 1]
  BY <1>1, <1>3 DEF Follow
<1> QED BY <1>1, <1>2, <1>3, <1>4

LEMMA NoCut ==
  ASSUME NEW e \in 0..MaxInput, NEW closed, NEW p \in 1..(e + 1), \A j \in p..e : input[j] # LF
  PROVE  EndsIn(p, e) = {} /\ ItemsFrom(e, closed)[p] = Remainder(p, e, closed)
<1>1. EndsIn(p, e) = {}
  BY DEF EndsIn
<1>2. PICK f : f = ItemsFrom(e, closed)
  OBVIOUS
<1>3. f[p] = Follow(f, p, e, closed)
  BY <1>2, ItemsFromFacts
<1> QED BY <1>1, <1>2, <1>3 DEF Follow

LEMMA OneByOne ==
  ASSUME NEW s \in Seq(Items), NEW a \in Items, NEW t \in Seq(Items)
  PROVE  s \o (<<a>> \o t) = Append(s, a) \o t
<1>1. <<a>> \in Seq(Items) /\ Append(s, a) = s \o <<a>>
  BY AppendIsConcat
<1> QED BY <1>1, ConcatAssociative

-----------------------------------------------------------------------------
(* Every step keeps what is returned and what is ahead *)

\* Lengths of input that may come to be all of it.
Possible(e, closed) == e \in to..MaxInput /\ closed \in BOOLEAN /\ (eof => e = to /\ closed)

LEMMA PossibleFacts ==
  ASSUME IInv, NEW e, NEW closed, Possible(e, closed)
  PROVE  /\ e \in 0..MaxInput /\ e \in Nat /\ to <= e /\ from + 1 \in 1..(e + 1)
         /\ to \in Nat /\ from \in Nat /\ from <= to /\ MaxInput \in Nat /\ MaxLength \in Nat
BY Numbers DEF Possible

LEMMA LinesInit == Init => LinesInv
<1> SUFFICES ASSUME Init PROVE LinesInv
  OBVIOUS
<1>1. IInv
  BY InvInit
<1>2. PauseInv /\ EndInv
  BY LengthAssumption DEF Init, PauseInv, EndInv
<1>3. ASSUME NEW e \in to..MaxInput, NEW closed \in BOOLEAN
      PROVE  Reference(e, closed) = out \o Ahead(e, closed)
  <2>1. e \in 0..MaxInput /\ 1 \in 1..(e + 1) /\ from + 1 = 1
    BY LengthAssumption DEF Init
  <2>2. ItemsFrom(e, closed)[1] \in Seq(Items)
    BY <2>1, ItemsFromFacts
  <2>3. Ahead(e, closed) = ItemsFrom(e, closed)[1]
    BY <2>1 DEF Init, Ahead, AheadAt
  <2>4. <<>> \o ItemsFrom(e, closed)[1] = ItemsFrom(e, closed)[1]
    BY <2>2, ConcatEmptySeq
  <2> QED BY <2>3, <2>4 DEF Init, Reference
<1> QED BY <1>1, <1>2, <1>3 DEF LinesInv, ReferenceInv

LEMMA SameReference ==
  ASSUME input' = input, NEW e, NEW closed
  PROVE  ItemsFrom(e, closed)' = ItemsFrom(e, closed) /\ Reference(e, closed)' = Reference(e, closed)
BY DEF Reference, ItemsFrom, EndsIn, FirstIn, LineTo, Remainder, Item, utf8, without_carriage_return

\* Ahead after a step, in terms of the position and the flag.
LEMMA AheadAfter ==
  ASSUME input' = input, NEW e, NEW closed, NEW p, p = from' + 1, NEW d \in BOOLEAN, d = is_discarding'
  PROVE  Ahead(e, closed)' = AheadAt(p, d, e, closed)
<1>1. EndsIn(from + 1, e)' = EndsIn(p, e)
  BY DEF EndsIn
<1>2. FirstIn(from + 1, e)' = FirstIn(p, e)
  BY <1>1, Zenon DEF FirstIn
<1>3. ItemsFrom(e, closed)' = ItemsFrom(e, closed)
  BY SameReference
<1> QED BY <1>1, <1>2, <1>3 DEF Ahead, AheadAt

\* A step keeps the lines of the whole if it moves some from ahead to what was returned.
LEMMA Moved ==
  ASSUME ReferenceInv, input' = input,
         ASSUME NEW e, NEW closed, Possible(e, closed)'
         PROVE  Possible(e, closed) /\ out' \o Ahead(e, closed)' = out \o Ahead(e, closed)
  PROVE  ReferenceInv'
<1> SUFFICES ASSUME NEW e, NEW closed, Possible(e, closed)'
             PROVE  (Reference(e, closed) = out \o Ahead(e, closed))'
  BY DEF ReferenceInv, Possible
<1>1. Possible(e, closed) /\ out' \o Ahead(e, closed)' = out \o Ahead(e, closed)
  OBVIOUS
<1>2. Reference(e, closed) = out \o Ahead(e, closed)
  BY <1>1 DEF ReferenceInv, Possible
<1> QED BY <1>1, <1>2, SameReference

\* If the search finds nothing, no line ends in the first read_to bytes of the buffer.
LEMMA NothingFound ==
  ASSUME IInv, pc = "decode", NoLineEnd
  PROVE  \A j \in (from + 1)..(from + read_to) : input[j] # LF
<1>1. \A j \in (from + 1)..(from + next_index) : input[j] # LF
  BY DEF IInv, NoLineEndSkipped
<1>2. \A j \in (from + next_index + 1)..(from + read_to) : input[j] # LF
  BY DEF NoLineEnd
<1>3. from \in Nat /\ next_index \in Nat /\ read_to \in Nat
  BY Numbers, ReadTo
<1>4. \A j \in (from + 1)..(from + read_to) :
         j \in (from + 1)..(from + next_index) \/ j \in (from + next_index + 1)..(from + read_to)
  BY <1>3
<1> QED BY <1>1, <1>2, <1>4

LEMMA ArrivalLines ==
  ASSUME LinesInv, (\E n \in 1..MaxInput : Receive(n)) \/ Close
  PROVE  PauseInv' /\ ReferenceInv' /\ EndInv'
<1>1. /\ pc = "wait" /\ pc' = "decode" /\ UNCHANGED <<input, from, is_discarding, out>>
      /\ to' \in 0..MaxInput /\ to <= to' /\ ~ eof /\ (to' = to \/ eof' = eof)
  BY Numbers DEF Receive, Close, LinesInv
<1>2. PauseInv' /\ EndInv'
  BY <1>1 DEF PauseInv, EndInv
<1>3. ASSUME NEW e, NEW closed, Possible(e, closed)'
      PROVE  Possible(e, closed) /\ out' \o Ahead(e, closed)' = out \o Ahead(e, closed)
  <2>1. Possible(e, closed)
    BY <1>1, <1>3, Numbers DEF Possible, LinesInv
  <2>2. is_discarding \in BOOLEAN
    BY DEF LinesInv, IInv, TypeOK
  <2>3. PICK p : p = from + 1
    OBVIOUS
  <2>4. Ahead(e, closed)' = AheadAt(p, is_discarding, e, closed)
    BY <1>1, <2>2, <2>3, AheadAfter
  <2>5. Ahead(e, closed) = AheadAt(p, is_discarding, e, closed)
    BY <2>3 DEF Ahead
  <2> QED BY <1>1, <2>1, <2>4, <2>5
<1>4. ReferenceInv'
  BY <1>1, <1>3, Moved DEF LinesInv
<1> QED BY <1>2, <1>4

LEMMA DiscardLines ==
  ASSUME LinesInv, DiscardToLineEnd \/ DiscardAll
  PROVE  PauseInv' /\ ReferenceInv' /\ EndInv'
<1>1. /\ UNCHANGED <<input, to, out, eof>> /\ pc = "decode" /\ is_discarding /\ IInv /\ is_discarding' \in BOOLEAN
      /\ pc' = "decode" \/ (from' = to /\ pc' = IF eof THEN "rest" ELSE "wait")
  BY DEF DiscardToLineEnd, DiscardAll, ReturnNone, LinesInv, IInv, TypeOK
<1>2. PauseInv' /\ EndInv'
  <2>1. pc' # "end" /\ (pc' = "wait" => ~ eof') /\ (pc' = "rest" => eof')
    BY <1>1
  <2>2. ASSUME pc' \in {"wait", "rest"}
        PROVE  from' = to' /\ (from' + 1)..to' = {} /\ to' - from' <= MaxLength
    <3>1. PICK t : t = to'
      OBVIOUS
    <3>2. from' = t /\ t \in Nat /\ MaxLength \in Nat
      BY <1>1, <2>2, <3>1, Numbers
    <3>3. (t + 1)..t = {} /\ t - t <= MaxLength
      BY <3>2
    <3> QED BY <3>1, <3>2, <3>3
  <2> QED BY <2>1, <2>2 DEF PauseInv, EndInv
<1>3. ASSUME NEW e, NEW closed, Possible(e, closed)'
      PROVE  Possible(e, closed) /\ out' \o Ahead(e, closed)' = out \o Ahead(e, closed)
  <2>1. Possible(e, closed)
    BY <1>1, <1>3 DEF Possible
  <2>2. PICK p : p = from + 1
    OBVIOUS
  <2>3. Ahead(e, closed) = AheadAt(p, TRUE, e, closed)
    BY <1>1, <2>2 DEF Ahead, AheadAt
  <2>4. CASE DiscardToLineEnd
    <3>1. PICK q \in 1..to : FirstLineEnd(q) /\ from' = q
      BY <2>4 DEF DiscardToLineEnd
    <3>2. /\ q \in (from + 1)..to /\ input[q] = LF
          /\ \A j \in (from + 1)..(q - 1) : input[j] # LF
      BY <1>1, <3>1, LineEnd DEF FirstLineEnd
    <3>3. q \in p..e /\ p \in 1..(e + 1) /\ e \in 0..MaxInput
      BY <1>1, <2>1, <2>2, <3>2, PossibleFacts
    <3>4. EndsIn(p, e) # {} /\ FirstIn(p, e) = q
      BY <2>2, <3>2, <3>3, Cut
    <3>5. AheadAt(p, TRUE, e, closed) = ItemsFrom(e, closed)[q + 1]
      BY <3>4 DEF AheadAt
    <3>6. Ahead(e, closed)' = AheadAt(q + 1, FALSE, e, closed)
      <4>1. q + 1 = from' + 1 /\ FALSE = is_discarding'
        BY <2>4, <3>1 DEF DiscardToLineEnd
      <4> QED BY <1>1, <4>1, AheadAfter
    <3> QED BY <1>1, <2>1, <2>3, <3>5, <3>6 DEF AheadAt
  <2>5. CASE DiscardAll
    <3>1. is_discarding' /\ from' = from + read_to /\ NoLineEnd
      BY <1>1, <2>5 DEF DiscardAll
    <3>2. PICK r \in Nat : r = from + 1 + read_to
      BY <1>1, ReadTo, Numbers
    <3>3. \A j \in p..(r - 1) : input[j] # LF
      <4>1. from \in Nat /\ read_to \in Nat
        BY <1>1, ReadTo, Numbers
      <4>2. p..(r - 1) = (from + 1)..(from + read_to)
        BY <2>2, <3>2, <4>1
      <4> QED BY <1>1, <3>1, <4>2, NothingFound
    <3>4. p \in Nat /\ e \in Nat /\ p <= r
      BY <1>1, <2>1, <2>2, <3>2, PossibleFacts, ReadTo
    <3>5. EndsIn(r, e) = EndsIn(p, e)
      BY <3>3, <3>4 DEF EndsIn
    <3>6. FirstIn(r, e) = FirstIn(p, e)
      BY <3>5, Zenon DEF FirstIn
    <3>7. Ahead(e, closed)' = AheadAt(r, TRUE, e, closed)
      <4>1. r = from' + 1 /\ TRUE = is_discarding'
        BY <1>1, <3>1, <3>2, ReadTo, Numbers
      <4> QED BY <1>1, <4>1, AheadAfter
    <3> QED BY <1>1, <2>1, <2>3, <3>5, <3>6, <3>7 DEF AheadAt
  <2> QED BY <2>4, <2>5
<1>4. ReferenceInv'
  BY <1>1, <1>3, Moved DEF LinesInv
<1> QED BY <1>2, <1>4

LEMMA LineLines ==
  ASSUME LinesInv, ReturnLine
  PROVE  PauseInv' /\ ReferenceInv' /\ EndInv'
<1>1. /\ UNCHANGED <<input, to, eof, is_discarding>> /\ pc = "decode" /\ pc' = "decode" /\ ~ is_discarding /\ IInv
  BY DEF ReturnLine, LinesInv
<1>2. PauseInv' /\ EndInv'
  BY <1>1 DEF PauseInv, EndInv
<1>3. PICK q \in 1..to : FirstLineEnd(q) /\ out' = Append(out, Item(from + 1, q - 1)) /\ from' = q
  BY DEF ReturnLine
<1>4. /\ q \in (from + 1)..to /\ input[q] = LF /\ q - from <= MaxLength + 1
      /\ \A j \in (from + 1)..(q - 1) : input[j] # LF
  BY <1>1, <1>3, LineEnd DEF FirstLineEnd
<1>5. ASSUME NEW e, NEW closed, Possible(e, closed)'
      PROVE  Possible(e, closed) /\ out' \o Ahead(e, closed)' = out \o Ahead(e, closed)
  <2>1. Possible(e, closed)
    BY <1>1, <1>5 DEF Possible
  <2>2. PICK p : p = from + 1
    OBVIOUS
  <2>3. q \in p..e /\ p \in 1..(e + 1) /\ e \in 0..MaxInput /\ p \in 1..(MaxInput + 1) /\ q - 1 \in 0..MaxInput
        /\ MaxLength \in Nat /\ q - p <= MaxLength
    BY <1>1, <1>4, <2>1, <2>2, PossibleFacts
  <2>4. /\ ItemsFrom(e, closed)[p] = <<LineTo(p, q)>> \o ItemsFrom(e, closed)[q + 1]
        /\ ItemsFrom(e, closed)[q + 1] \in Seq(Items)
    BY <1>4, <2>2, <2>3, Cut
  <2>5. PICK item : item = Item(p, q - 1)
    OBVIOUS
  <2>6. LineTo(p, q) = item /\ item \in Items
    BY <2>3, <2>5, ItemTypes DEF LineTo
  <2>7. Ahead(e, closed) = <<item>> \o ItemsFrom(e, closed)[q + 1]
    BY <1>1, <2>2, <2>4, <2>6 DEF Ahead, AheadAt
  <2>8. Ahead(e, closed)' = ItemsFrom(e, closed)[q + 1]
    <3>1. q + 1 = from' + 1 /\ FALSE = is_discarding'
      BY <1>1, <1>3 DEF ReturnLine
    <3>2. Ahead(e, closed)' = AheadAt(q + 1, FALSE, e, closed)
      BY <1>1, <3>1, AheadAfter
    <3> QED BY <3>2 DEF AheadAt
  <2>9. out \o (<<item>> \o ItemsFrom(e, closed)[q + 1]) = Append(out, item) \o ItemsFrom(e, closed)[q + 1]
    BY <1>1, <2>4, <2>6, Numbers, OneByOne
  <2> QED BY <1>3, <2>1, <2>2, <2>5, <2>7, <2>8, <2>9
<1>6. ReferenceInv'
  BY <1>1, <1>5, Moved DEF LinesInv
<1> QED BY <1>2, <1>6

LEMMA TooLongLines ==
  ASSUME LinesInv, ReturnTooLong
  PROVE  PauseInv' /\ ReferenceInv' /\ EndInv'
<1>1. /\ UNCHANGED <<input, to, eof, from>> /\ pc = "decode" /\ pc' = "decode" /\ ~ is_discarding /\ is_discarding' /\ IInv
      /\ out' = Append(out, TooLong) /\ NoLineEnd /\ Overlong
  BY DEF ReturnTooLong, LinesInv
<1>2. PauseInv' /\ EndInv'
  BY <1>1 DEF PauseInv, EndInv
<1>3. ASSUME NEW e, NEW closed, Possible(e, closed)'
      PROVE  Possible(e, closed) /\ out' \o Ahead(e, closed)' = out \o Ahead(e, closed)
  <2>1. Possible(e, closed)
    BY <1>1, <1>3 DEF Possible
  <2>2. PICK p : p = from + 1
    OBVIOUS
  <2>3. /\ p \in 1..(e + 1) /\ e \in 0..MaxInput /\ p \in Nat /\ e \in Nat /\ MaxLength \in Nat
        /\ e - p + 1 > MaxLength
    <3>1. to - from > MaxLength
      BY <1>1 DEF Overlong, Len_buf
    <3> QED BY <1>1, <2>1, <2>2, <3>1, PossibleFacts
  <2>4. \A j \in p..(p + MaxLength) : input[j] # LF
    <3>1. read_to = MaxLength + 1
      BY <1>1, Numbers DEF Overlong, Len_buf, read_to, Minimum
    <3>2. from \in Nat /\ MaxLength \in Nat
      BY <1>1, Numbers
    <3>3. p..(p + MaxLength) = (from + 1)..(from + read_to)
      BY <2>2, <3>1, <3>2
    <3> QED BY <1>1, <3>3, NothingFound
  <2>5. Ahead(e, closed)' = AheadAt(p, TRUE, e, closed)
    <3>1. p = from' + 1 /\ TRUE = is_discarding'
      BY <1>1, <2>2
    <3> QED BY <1>1, <3>1, AheadAfter
  <2>6. Ahead(e, closed) = ItemsFrom(e, closed)[p]
    BY <1>1, <2>2 DEF Ahead, AheadAt
  <2>7. TooLong \in Items
    BY LengthAssumption DEF TooLong, Items
  <2>8. AheadAt(p, TRUE, e, closed) \in Seq(Items) /\ ItemsFrom(e, closed)[p] = <<TooLong>> \o AheadAt(p, TRUE, e, closed)
    <3>1. CASE EndsIn(p, e) = {}
      <4>1. ItemsFrom(e, closed)[p] = Remainder(p, e, closed)
        BY <2>3, <3>1, NoCut DEF EndsIn
      <4>2. Remainder(p, e, closed) = <<TooLong>> /\ AheadAt(p, TRUE, e, closed) = <<>>
        BY <2>3, <3>1 DEF Remainder, AheadAt
      <4>3. <<TooLong>> \o <<>> = <<TooLong>> /\ <<>> \in Seq(Items)
        BY <2>7, ConcatEmptySeq
      <4> QED BY <4>1, <4>2, <4>3
    <3>2. CASE EndsIn(p, e) # {}
      <4>1. PICK q : q = FirstIn(p, e)
        OBVIOUS
      <4>2. q \in p..e /\ input[q] = LF /\ \A j \in p..(q - 1) : input[j] # LF
        BY <2>3, <3>2, <4>1, FirstInFacts
      <4>3. q - p > MaxLength
        <5>1. q \notin p..(p + MaxLength)
          BY <2>4, <4>2
        <5> QED BY <2>3, <4>2, <5>1
      <4>4. /\ ItemsFrom(e, closed)[p] = <<LineTo(p, q)>> \o ItemsFrom(e, closed)[q + 1]
            /\ ItemsFrom(e, closed)[q + 1] \in Seq(Items)
        BY <2>3, <4>2, Cut
      <4>5. LineTo(p, q) = TooLong
        BY <4>3 DEF LineTo
      <4>6. AheadAt(p, TRUE, e, closed) = ItemsFrom(e, closed)[q + 1]
        BY <3>2, <4>1 DEF AheadAt
      <4> QED BY <4>4, <4>5, <4>6
    <3> QED BY <3>1, <3>2
  <2>9. out \o (<<TooLong>> \o AheadAt(p, TRUE, e, closed)) = Append(out, TooLong) \o AheadAt(p, TRUE, e, closed)
    BY <1>1, <2>7, <2>8, Numbers, OneByOne
  <2> QED BY <1>1, <2>1, <2>5, <2>6, <2>8, <2>9
<1>4. ReferenceInv'
  BY <1>1, <1>3, Moved DEF LinesInv
<1> QED BY <1>2, <1>4

LEMMA NeedMoreLines ==
  ASSUME LinesInv, NeedMore
  PROVE  PauseInv' /\ ReferenceInv' /\ EndInv'
<1>1. /\ UNCHANGED <<input, to, eof, from, is_discarding, out>> /\ pc = "decode" /\ ~ is_discarding /\ IInv
      /\ NoLineEnd /\ ~ Overlong /\ pc' = IF eof THEN "rest" ELSE "wait"
  BY DEF NeedMore, ReturnNone, LinesInv
<1>2. read_to = to - from /\ to - from <= MaxLength
  BY <1>1, ReadTo, Numbers DEF Overlong, Len_buf
<1>3. \A i \in (from + 1)..to : input[i] # LF
  BY <1>1, <1>2, Searching, Numbers DEF NoLineEnd
<1>4. PauseInv' /\ EndInv'
  BY <1>1, <1>2, <1>3 DEF PauseInv, EndInv
<1>5. ASSUME NEW e, NEW closed, Possible(e, closed)'
      PROVE  Possible(e, closed) /\ out' \o Ahead(e, closed)' = out \o Ahead(e, closed)
  <2>1. Possible(e, closed)
    BY <1>1, <1>5 DEF Possible
  <2>2. PICK p : p = from + 1
    OBVIOUS
  <2>3. Ahead(e, closed)' = AheadAt(p, FALSE, e, closed)
    <3>1. p = from' + 1 /\ FALSE = is_discarding'
      BY <1>1, <2>2 DEF LinesInv, IInv, TypeOK
    <3> QED BY <1>1, <3>1, AheadAfter
  <2>4. Ahead(e, closed) = AheadAt(p, FALSE, e, closed)
    BY <1>1, <2>2 DEF Ahead, AheadAt
  <2> QED BY <1>1, <2>1, <2>3, <2>4
<1>6. ReferenceInv'
  BY <1>1, <1>5, Moved DEF LinesInv
<1> QED BY <1>4, <1>6

\* What is left at the end of the input.
LEMMA RestLines ==
  ASSUME LinesInv, NoMoreItems \/ ReturnRest
  PROVE  PauseInv' /\ ReferenceInv' /\ EndInv'
<1>1. /\ UNCHANGED <<input, to, eof, is_discarding>> /\ pc = "rest" /\ pc' \in {"end", "decode"} /\ IInv /\ eof
      /\ (\A i \in (from + 1)..to : input[i] # LF) /\ to - from <= MaxLength /\ (is_discarding => from = to)
      /\ is_discarding \in BOOLEAN
  BY DEF NoMoreItems, ReturnRest, LinesInv, PauseInv, IInv, TypeOK
<1>2. PauseInv'
  BY <1>1 DEF PauseInv
<1>3. /\ MaxLength \in Nat /\ MaxInput \in Nat /\ to \in 0..MaxInput /\ from \in Nat /\ from <= to
      /\ from + 1 \in 1..(to + 1) /\ to + 1 \in 1..(to + 1)
  BY <1>1, Numbers
\* Nothing is ahead of the end.
<1>4. ItemsFrom(to, TRUE)[to + 1] = <<>> /\ EndsIn(to + 1, to) = {}
  <2>1. \A j \in (to + 1)..to : input[j] # LF
    BY <1>3
  <2>2. EndsIn(to + 1, to) = {} /\ ItemsFrom(to, TRUE)[to + 1] = Remainder(to + 1, to, TRUE)
    BY <1>3, <2>1, NoCut
  <2>3. ~ (to - (to + 1) + 1 > MaxLength) /\ ~ (to + 1 <= to)
    BY <1>3
  <2>4. Remainder(to + 1, to, TRUE) = <<>>
    BY <2>3 DEF Remainder
  <2> QED BY <2>2, <2>4
<1>5. AheadAt(to + 1, is_discarding, to, TRUE) = <<>>
  BY <1>4 DEF AheadAt
<1>6. ItemsFrom(to, TRUE)[from + 1] = Remainder(from + 1, to, TRUE)
  BY <1>1, <1>3, NoCut
<1>7. CASE NoMoreItems
  <2>1. NothingLeft /\ UNCHANGED <<from, out>>
    BY <1>7 DEF NoMoreItems
  <2>2. AheadAt(from + 1, is_discarding, to, TRUE) = <<>>
    <3>1. CASE from = to
      BY <1>5, <3>1
    <3>2. CASE from # to
      <4>1. to - from = 1 /\ input[to] = CR /\ from + 1 = to /\ ~ is_discarding
        BY <1>1, <1>3, <2>1, <3>2 DEF NothingLeft, Len_buf
      <4>2. ~ (to - (from + 1) + 1 > MaxLength)
        BY <1>1, <1>3
      <4>3. Remainder(from + 1, to, TRUE) = <<>>
        BY <4>1, <4>2 DEF Remainder
      <4> QED BY <1>6, <4>1, <4>3 DEF AheadAt
    <3> QED BY <3>1, <3>2
  <2>3. PICK p : p = from + 1
    OBVIOUS
  <2>4. \A e, closed : Ahead(e, closed)' = AheadAt(p, is_discarding, e, closed)
    <3> SUFFICES ASSUME NEW e, NEW closed PROVE Ahead(e, closed)' = AheadAt(p, is_discarding, e, closed)
      OBVIOUS
    <3>1. p = from' + 1 /\ is_discarding = is_discarding'
      BY <1>1, <2>1, <2>3
    <3> QED BY <1>1, <3>1, AheadAfter
  <2>5. EndInv'
    <3>1. PICK e : e = to
      OBVIOUS
    <3>2. Ahead(e, TRUE)' = <<>>
      BY <2>2, <2>3, <2>4, <3>1
    <3>3. Ahead(to, TRUE)' = Ahead(e, TRUE)'
      BY <1>1, <3>1 DEF Ahead, AheadAt, ItemsFrom, EndsIn, FirstIn, LineTo, Remainder, Item, utf8, without_carriage_return
    <3> QED BY <3>2, <3>3 DEF EndInv
  <2>6. ASSUME NEW e, NEW closed, Possible(e, closed)'
        PROVE  Possible(e, closed) /\ out' \o Ahead(e, closed)' = out \o Ahead(e, closed)
    <3>1. Possible(e, closed)
      BY <1>1, <2>6 DEF Possible
    <3> QED BY <2>1, <2>3, <2>4, <3>1 DEF Ahead
  <2>7. ReferenceInv'
    BY <1>1, <2>6, Moved DEF LinesInv
  <2> QED BY <1>2, <2>5, <2>7
<1>8. CASE ReturnRest
  <2>1. ~ NothingLeft /\ out' = Append(out, Item(from + 1, to)) /\ from' = to
    BY <1>8 DEF ReturnRest
  <2>2. from # to /\ from + 1 <= to /\ ~ (from + 1 = to /\ input[to] = CR) /\ ~ is_discarding
    BY <1>1, <1>3, <2>1 DEF NothingLeft, Len_buf
  <2>3. PICK item : item = Item(from + 1, to)
    OBVIOUS
  <2>4. item \in Items
    BY <1>3, <2>3, ItemTypes
  <2>5. ItemsFrom(to, TRUE)[from + 1] = <<item>>
    <3>1. ~ (to - (from + 1) + 1 > MaxLength)
      BY <1>1, <1>3
    <3>2. Remainder(from + 1, to, TRUE) = <<item>>
      BY <2>2, <2>3, <3>1 DEF Remainder
    <3> QED BY <1>6, <3>2
  <2>6. PICK e : e = to
    OBVIOUS
  <2>7. Ahead(e, TRUE)' = <<>>
    <3>1. to + 1 = from' + 1 /\ is_discarding = is_discarding'
      BY <1>1, <2>1
    <3>2. PICK p : p = to + 1
      OBVIOUS
    <3>3. Ahead(e, TRUE)' = AheadAt(p, is_discarding, e, TRUE)
      BY <1>1, <3>1, <3>2, AheadAfter
    <3> QED BY <1>5, <2>6, <3>2, <3>3
  <2>8. EndInv'
    <3>1. Ahead(to, TRUE)' = Ahead(e, TRUE)'
      BY <1>1, <2>6 DEF Ahead, AheadAt, ItemsFrom, EndsIn, FirstIn, LineTo, Remainder, Item, utf8, without_carriage_return
    <3> QED BY <2>7, <3>1 DEF EndInv
  <2>9. Ahead(e, TRUE) = <<item>>
    BY <2>2, <2>5, <2>6 DEF Ahead, AheadAt
  <2>10. out \o <<item>> = Append(out, item) \o <<>>
    <3>1. out \in Seq(Items) /\ Append(out, item) \in Seq(Items) /\ Append(out, item) = out \o <<item>>
      BY <1>1, <2>4, Numbers, AppendProperties, AppendIsConcat
    <3> QED BY <3>1, ConcatEmptySeq
  <2>11. ASSUME NEW d, NEW closed, Possible(d, closed)'
         PROVE  Possible(d, closed) /\ out' \o Ahead(d, closed)' = out \o Ahead(d, closed)
    <3>1. Possible(d, closed) /\ d = e /\ closed = TRUE
      BY <1>1, <2>6, <2>11 DEF Possible
    <3> QED BY <2>1, <2>3, <2>7, <2>9, <2>10, <3>1
  <2>12. ReferenceInv'
    BY <1>1, <2>11, Moved DEF LinesInv
  <2> QED BY <1>2, <2>8, <2>12
<1> QED BY <1>7, <1>8

\* Every step keeps the invariant.
LEMMA InvNext == IInv /\ [Next]_vars => IInv'
<1> SUFFICES ASSUME IInv, [Next]_vars PROVE IInv'
  OBVIOUS
<1>1. CASE UNCHANGED vars
  BY <1>1 DEF vars, IInv, TypeOK, SliceInRange, NoLineEndSkipped, RestInv, OutInv, Proper,
              read_to, Minimum, Len_buf
<1>2. CASE Next
  BY <1>2, ArrivalStep, DiscardStep, LineStep, TooLongStep, NeedMoreStep, RestStep
     DEF Next, Decode
<1>3. QED
  BY <1>1, <1>2

LEMMA LinesNext == LinesInv /\ [Next]_vars => LinesInv'
<1> SUFFICES ASSUME LinesInv, [Next]_vars PROVE LinesInv'
  OBVIOUS
<1>0. IInv'
  BY InvNext DEF LinesInv
<1>1. CASE Next
  <2>1. PauseInv' /\ ReferenceInv' /\ EndInv'
    BY <1>1, ArrivalLines, DiscardLines, LineLines, TooLongLines, NeedMoreLines, RestLines DEF Next, Decode
  <2> QED BY <1>0, <2>1 DEF LinesInv
<1>2. CASE UNCHANGED vars
  <2>1. UNCHANGED <<input, to, from, next_index, is_discarding, pc, eof, out>>
    BY <1>2 DEF vars
  <2>2. PauseInv'
    BY <2>1 DEF LinesInv, PauseInv
  <2>3. \A e, closed : Ahead(e, closed)' = Ahead(e, closed)
    BY <2>1 DEF Ahead, AheadAt, ItemsFrom, EndsIn, FirstIn, LineTo, Remainder, Item, utf8, without_carriage_return
  <2>4. ASSUME NEW e, NEW closed, Possible(e, closed)'
        PROVE  Possible(e, closed) /\ out' \o Ahead(e, closed)' = out \o Ahead(e, closed)
    BY <2>1, <2>3, <2>4 DEF Possible
  <2>5. ReferenceInv'
    BY <2>1, <2>4, Moved DEF LinesInv
  <2>6. EndInv'
    <3>1. Ahead(to, TRUE)' = Ahead(to, TRUE)
      BY <2>1 DEF Ahead, AheadAt, ItemsFrom, EndsIn, FirstIn, LineTo, Remainder, Item, utf8, without_carriage_return
    <3> QED BY <2>1, <3>1 DEF LinesInv, EndInv
  <2> QED BY <1>0, <2>2, <2>5, <2>6 DEF LinesInv
<1> QED BY <1>1, <1>2

-----------------------------------------------------------------------------
(* The theorems *)

\* The invariant holds in every state that the program reaches.
THEOREM Invariance == Spec => []IInv
BY InvInit, InvNext, PTL DEF Spec

\* Fields and items have their types: every item is cut from what has arrived.
THEOREM TypeCorrect == Spec => []TypeOK
<1>1. IInv => TypeOK
  BY DEF IInv
<1>2. QED
  BY <1>1, Invariance, PTL

\* decode never takes a slice that is out of range (line_codec.rs:127), for no limit and
\* no way in which the input arrives.
THEOREM DecodeDoesNotPanic == Spec => []SliceInRange
<1>1. IInv => SliceInRange
  BY DEF IInv
<1>2. QED
  BY <1>1, Invariance, PTL

\* The search that goes on at next_index misses no line end (line_codec.rs:19-24).
THEOREM SearchIsComplete == Spec => []NoLineEndSkipped
<1>1. IInv => NoLineEndSkipped
  BY DEF IInv
<1>2. QED
  BY <1>1, Invariance, PTL

\* Every line returned has at most max_length bytes and is one line (line_codec.rs:27-29),
\* also the last one, which decode_eof returns.
THEOREM LinesKeepTheLimit == Spec => []LinesAreLines
<1>1. IInv => LinesAreLines
  <2>1. SUFFICES ASSUME IInv PROVE LinesAreLines
    OBVIOUS
  <2>2. DOMAIN out = 1..Len(out)
    BY <2>1, Numbers, LenProperties
  <2>3. QED
    BY <2>1, <2>2 DEF IInv, OutInv, Proper, LinesAreLines
<1>2. QED
  BY <1>1, Invariance, PTL

\* The pieces in which the input arrives make no difference (line_codec.rs:60-63): whenever
\* decode wants more, and at the end, exactly the lines of all that arrived were returned.
THEOREM LinesOfTheWhole == Spec => []MatchesReference
<1>1. LinesInv => MatchesReference
  <2> SUFFICES ASSUME LinesInv PROVE MatchesReference
    OBVIOUS
  <2>1. /\ MaxLength \in Nat /\ MaxInput \in Nat /\ to \in 0..MaxInput /\ from \in Nat /\ from <= to
        /\ out \in Seq(Items) /\ from + 1 \in 1..(to + 1) /\ to \in to..MaxInput
    BY Numbers DEF LinesInv
  <2>2. out \o <<>> = out
    BY <2>1, ConcatEmptySeq
  <2>3. ASSUME pc = "wait" PROVE out = Reference(to, FALSE)
    <3>1. /\ ~ eof /\ (\A i \in (from + 1)..to : input[i] # LF) /\ to - from <= MaxLength
      BY <2>3 DEF LinesInv, PauseInv
    <3>2. Reference(to, FALSE) = out \o Ahead(to, FALSE)
      BY <2>1, <3>1 DEF LinesInv, ReferenceInv
    <3>3. EndsIn(from + 1, to) = {} /\ ItemsFrom(to, FALSE)[from + 1] = Remainder(from + 1, to, FALSE)
      BY <2>1, <3>1, NoCut
    <3>4. ~ (to - (from + 1) + 1 > MaxLength)
      BY <2>1, <3>1
    <3>5. Ahead(to, FALSE) = <<>>
      BY <3>3, <3>4 DEF Ahead, AheadAt, Remainder
    <3> QED BY <2>2, <3>2, <3>5
  <2>4. ASSUME pc = "end" PROVE out = Reference(to, TRUE)
    <3>1. Reference(to, TRUE) = out \o Ahead(to, TRUE)
      BY <2>1 DEF LinesInv, ReferenceInv
    <3>2. Ahead(to, TRUE) = <<>>
      BY <2>4 DEF LinesInv, EndInv
    <3> QED BY <2>2, <3>1, <3>2
  <2> QED BY <2>3, <2>4 DEF MatchesReference
<1>2. QED
  BY <1>1, LinesInit, LinesNext, PTL DEF Spec

=============================================================================
