----------------------------- MODULE LineCodec -----------------------------
(***************************************************************************)
(* LinesCodec cuts the input of every connection into lines.  The input    *)
(* arrives in pieces; after each piece Framed calls decode until it has    *)
(* nothing to return, and decode_eof after the last one.                   *)
(*                                                                         *)
(* The buffer is the part of the input after the first `from` bytes, as    *)
(* far as it has arrived: positions stand for bytes, so nothing is copied. *)
(*                                                                         *)
(* The servers close a connection at the first error.  The codec promises  *)
(* more, the lines after an overlong one, and is checked on that.          *)
(***************************************************************************)
EXTENDS Integers, Sequences

CONSTANTS Bytes,       \* kinds of bytes, with the three that follow
          LF, CR, Bad, \* "\n", "\r", and a byte that is not UTF-8
          MaxLength,   \* LinesCodec.max_length
          MaxInput     \* bound on the input

ASSUME BytesAssumption == {LF, CR, Bad} \subseteq Bytes /\ LF # CR /\ LF # Bad
ASSUME LengthAssumption == MaxLength \in Nat /\ MaxInput \in Nat

VARIABLES
    input,          \* all that the peer sends
    to,             \* how much of it has arrived
    from,           \* how much of it has left the buffer
    next_index,     \* the part of the buffer already searched for a line end
    is_discarding,  \* the rest of a line that was too long is dropped
    pc,             \* "wait" for input, "decode", "rest" of decode_eof, "end"
    eof,            \* no more input comes
    out             \* the items returned so far

vars == <<input, to, from, next_index, is_discarding, pc, eof, out>>

LineItem(a, b) == [kind |-> "line", first |-> a, last |-> b]
NotText == [kind |-> "Io", first |-> 0, last |-> 0]
TooLong == [kind |-> "MaxLineLengthExceeded", first |-> 0, last |-> 0]

Len_buf == to - from
Minimum(a, b) == IF a <= b THEN a ELSE b

read_to == Minimum(MaxLength + 1, Len_buf)

\* The first line end in the part of the buffer that decode searches, as a position.
FirstLineEnd(q) ==
    /\ q \in (from + next_index + 1)..(from + read_to)
    /\ input[q] = LF
    /\ \A i \in (from + next_index + 1)..(q - 1) : input[i] # LF

NoLineEnd == \A i \in (from + next_index + 1)..(from + read_to) : input[i] # LF

\* The text of positions a to b, without a carriage return at its end.
without_carriage_return(a, b) == IF b >= a /\ input[b] = CR THEN b - 1 ELSE b

utf8(a, b) ==
    IF \E i \in a..b : input[i] = Bad THEN NotText ELSE LineItem(a, b)

Item(a, b) == utf8(a, without_carriage_return(a, b))

-----------------------------------------------------------------------------
Init ==
    /\ input \in [1..MaxInput -> Bytes]
    /\ to = 0 /\ from = 0 /\ next_index = 0 /\ is_discarding = FALSE
    /\ pc = "wait" /\ eof = FALSE /\ out = <<>>

Receive(n) ==
    /\ pc = "wait" /\ ~ eof
    /\ to + n <= MaxInput
    /\ to' = to + n
    /\ pc' = "decode"
    /\ UNCHANGED <<input, from, next_index, is_discarding, eof, out>>

Close ==
    /\ pc = "wait" /\ ~ eof
    /\ eof' = TRUE
    /\ pc' = "decode"
    /\ UNCHANGED <<input, to, from, next_index, is_discarding, out>>

\* decode returns None: decode_eof looks at the rest, Framed reads on.
ReturnNone == pc' = IF eof THEN "rest" ELSE "wait"

DiscardToLineEnd ==
    /\ pc = "decode" /\ is_discarding
    /\ \E q \in 1..to : FirstLineEnd(q) /\ from' = q
    /\ is_discarding' = FALSE
    /\ next_index' = 0
    /\ UNCHANGED <<input, to, pc, eof, out>>

Bug_DiscardAll ==
    /\ pc = "decode" /\ is_discarding
    /\ NoLineEnd
    /\ from' = from + read_to
    /\ next_index' = 0
    /\ UNCHANGED <<input, to, is_discarding, pc, eof, out>>

DiscardAll ==
    /\ pc = "decode" /\ is_discarding
    /\ NoLineEnd
    /\ from' = from + read_to
    /\ next_index' = 0
    /\ IF from' = to THEN ReturnNone ELSE UNCHANGED pc
    /\ UNCHANGED <<input, to, is_discarding, eof, out>>

ReturnLine ==
    /\ pc = "decode" /\ ~ is_discarding
    /\ \E q \in 1..to :
          /\ FirstLineEnd(q)
          /\ out' = Append(out, Item(from + 1, q - 1))
          /\ from' = q
    /\ next_index' = 0
    /\ UNCHANGED <<input, to, is_discarding, pc, eof>>

Bug_Overlong == Len_buf >= MaxLength

Overlong == Len_buf > MaxLength

ReturnTooLong ==
    /\ pc = "decode" /\ ~ is_discarding
    /\ NoLineEnd
    /\ Overlong
    /\ out' = Append(out, TooLong)
    /\ is_discarding' = TRUE
    /\ UNCHANGED <<input, to, from, next_index, pc, eof>>

Bug_Searched == next_index' = next_index + read_to

Searched == next_index' = read_to

NeedMore ==
    /\ pc = "decode" /\ ~ is_discarding
    /\ NoLineEnd
    /\ ~ Overlong
    /\ Searched
    /\ ReturnNone
    /\ UNCHANGED <<input, to, from, is_discarding, eof, out>>

\* decode_eof: what is left is a line, unless it is empty or a carriage return.
NothingLeft == Len_buf = 0 \/ (Len_buf = 1 /\ input[to] = CR)

NoMoreItems ==
    /\ pc = "rest" /\ NothingLeft
    /\ pc' = "end"
    /\ UNCHANGED <<input, to, from, next_index, is_discarding, eof, out>>

\* After an error Framed does not decode again, after a line it does.
ReturnRest ==
    /\ pc = "rest" /\ ~ NothingLeft
    /\ out' = Append(out, Item(from + 1, to))
    /\ from' = to
    /\ IF Item(from + 1, to) = NotText
       THEN pc' = "end" /\ UNCHANGED next_index
       ELSE pc' = "decode" /\ next_index' = 0
    /\ UNCHANGED <<input, to, is_discarding, eof>>

Decode ==
    \/ DiscardToLineEnd \/ DiscardAll
    \/ ReturnLine \/ ReturnTooLong \/ NeedMore
    \/ NoMoreItems \/ ReturnRest

Next == (\E n \in 1..MaxInput : Receive(n)) \/ Close \/ Decode

Spec == Init /\ [][Next]_vars

\* Framed calls the decoder as long as it returns items.
FairSpec == Spec /\ WF_vars(Decode)

-----------------------------------------------------------------------------
(* Properties *)

\* The type invariant.
TypeOK ==
    /\ input \in [1..MaxInput -> Bytes]
    /\ to \in 0..MaxInput /\ from \in 0..MaxInput /\ next_index \in 0..MaxInput
    /\ is_discarding \in BOOLEAN /\ eof \in BOOLEAN
    /\ pc \in {"wait", "decode", "rest", "end"}
    /\ out \in Seq([kind : {"line", "Io", "MaxLineLengthExceeded"},
                    first : 0..(MaxInput + 1), last : 0..MaxInput])

\* The slice buf[next_index..read_to] is in range: decode does not panic, however the
\* buffer grew or shrank since next_index was stored (line_codec.rs:127).
SliceInRange == pc # "end" => from <= to /\ next_index <= read_to

\* What decode skips because an earlier call searched it holds no line end: none is missed.
NoLineEndSkipped ==
    pc # "end" => \A i \in (from + 1)..(from + next_index) : input[i] # LF

\* What is handed to the parsers is one line: at most MaxLength bytes, and none of them
\* ends a line.
LinesAreLines ==
    \A i \in DOMAIN out :
        out[i].kind = "line" =>
            /\ out[i].last - out[i].first < MaxLength
            /\ \A j \in out[i].first..out[i].last : input[j] # LF

\* The line ends in positions p to e.
EndsIn(p, e) == {q \in p..e : input[q] = LF}
FirstIn(p, e) == CHOOSE q \in EndsIn(p, e) : \A r \in EndsIn(p, e) : q <= r

\* A line from p to its end at q, and what follows the last line end.
LineTo(p, q) == IF q - p > MaxLength THEN TooLong ELSE Item(p, q - 1)
Remainder(p, e, closed) ==
    IF e - p + 1 > MaxLength THEN <<TooLong>>
    ELSE IF closed /\ p <= e /\ ~ (p = e /\ input[e] = CR) THEN <<Item(p, e)>>
    ELSE <<>>

\* The items of the first e bytes from each position p on, cut at the line ends of the
\* whole: a line longer than MaxLength is one error, and the line after it is whole again.
ItemsFrom(e, closed) ==
    LET f[p \in 1..(e + 1)] ==
            IF EndsIn(p, e) = {} THEN Remainder(p, e, closed)
            ELSE <<LineTo(p, FirstIn(p, e))>> \o f[FirstIn(p, e) + 1]
    IN f
Reference(e, closed) == ItemsFrom(e, closed)[1]

\* The pieces in which the input arrives make no difference: whenever decode wants more,
\* it has returned the lines of all that arrived, and nothing else (line_codec.rs:60-63).
MatchesReference ==
    /\ pc = "wait" => out = Reference(to, FALSE)
    /\ pc = "end" => out = Reference(to, TRUE)

\* decode comes to an end on every buffer, also while it discards an overlong line.
DecodeReturns == pc = "decode" ~> pc \in {"wait", "end"}

=============================================================================
