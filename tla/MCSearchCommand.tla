--------------------------- MODULE MCSearchCommand ---------------------------
(* Folders of up to four messages with gaps in the UIDs, and programs of   *)
(* up to five keys, as trees that are written down here.                   *)
EXTENDS SearchCommand

Message(uid, seen) ==
  [uid |-> uid, flags |-> IF seen THEN {"SEEN"} ELSE {}, size |-> uid,
   words |-> [f \in Fields |-> CASE f = "header" -> {uid % 2} [] f = "BODY" -> {uid % 3} [] OTHER -> {uid % 2, uid % 3}],
   received |-> uid, sent |-> IF uid = 4 THEN NoDate ELSE uid + 1, broken |-> FALSE]
Unreadable(m) == [m EXCEPT !.broken = TRUE, !.size = 0, !.words = [f \in Fields |-> {}]]

\* UIDs with gaps; a message without UID; one whose headers cannot be read.
SomeMailboxes ==
  {{Message(u, u \in seen) : u \in us} :
     us \in {{}, {3}, {1, 2, 4}, {1, 3, 4, 6}, {0}, {0, 2, 3}}, seen \in {{1, 4}, {2, 3, 6}}}
  \cup {{Unreadable(Message(1, TRUE)), Message(2, FALSE)}}

\* A tree: the tokens before its keys inside or its ranges, and the key that is meant.
Leaf(t, v, n) == [k |-> t, before |-> <<Token(t, v, n)>>, ranges |-> <<>>, parts |-> <<>>]
Longer(p)  == [p EXCEPT !.before = @ \o <<Word("rest")>>]
Refused(p) == [p EXCEPT !.before = <<[@[1] EXCEPT !.t = "refused"]>>]
Set(k, ranges) ==
  [k |-> k, before |-> IF k = "UID" THEN <<Word("UID"), Word("blank")>> ELSE <<>>, ranges |-> ranges, parts |-> <<>>]
Tree(k, parts) ==
  [k |-> k, before |-> IF k = "AND" THEN <<Word("(")>> ELSE <<Word(k), Word("blank")>>, ranges |-> <<>>, parts |-> parts]

\* Its text at place i, and the keys that are meant.
Written(text, keys, places) == [text |-> text, keys |-> keys, places |-> places]
RECURSIVE WriteKey(_, _), WriteKeys(_, _)
WriteKey(p, i) ==
  LET inside == IF p.parts = <<>> THEN Written(SetText(p.ranges), <<>>, <<>>)
                ELSE WriteKeys(p.parts, i + Len(p.before))
      text   == p.before \o inside.text \o (IF p.k = "AND" THEN <<Word(")")>> ELSE <<>>)
  IN Written(text, (i :> Meant(p.k, p.ranges, inside.places, i + Len(text))) @@ inside.keys, <<i>>)
WriteKeys(ps, i) ==
  LET first == WriteKey(ps[1], i)
      rest  == WriteKeys(Tail(ps), i + Len(first.text) + 1)
  IN IF Len(ps) = 1 THEN first
     ELSE Written(first.text \o <<Word("blank")>> \o rest.text, first.keys @@ rest.keys, <<i>> \o rest.places)
RequestFor(p, is_uid, rev2, explicit, options) ==
  LET w == WriteKeys(IF p.k = "AND" THEN p.parts ELSE <<p>>, 1)
  IN Request(w.text, w.keys, w.places, is_uid, rev2, explicit, options)

UID(lo, hi)   == Set("UID", <<Span(lo, hi)>>)
Range_(lo, hi) == Set("Range", <<Span(lo, hi)>>)
NOT(p)    == Tree("NOT", <<p>>)
OR(p, q)  == Tree("OR", <<p, q>>)
AND(ps)   == Tree("AND", ps)
Seen      == Leaf("flag", "SEEN", 0)

\* A set with a comma, FROM a@b, FROM "a", and CHARSET.
Comma == Set("UID", <<Span(1, 1), Span(3, 4)>>)
Address == Longer(Leaf("header", "", 0))
Quoted  == Refused(Leaf("header", "", 1))
CHARSET == Refused(Leaf("ALL", "", 0))
Partly  == {Comma, Address, Quoted}
LeafKeys ==
  {Leaf("ALL", "", 0), Leaf("KEYWORD", "", 0), Leaf("UNKEYWORD", "", 0), Seen, Leaf("unflag", "SEEN", 0),
   Leaf("header", "", 0), Leaf("text", "BODY", 1), Leaf("text", "TEXT", 2),
   Leaf("BEFORE", "received", 1), Leaf("ON", "sent", 1), Leaf("SINCE", "sent", 2),
   Leaf("ON", "received", NotADate), Leaf("BEFORE", "sent", BadDay),
   Leaf("LARGER", "", 2), Leaf("SMALLER", "", 3), UID(2, 4), UID(3, All), Range_(1, 1), Range_(2, 3), Address, Quoted, Comma}
Core == {Seen, Leaf("header", "", 0), UID(2, 4), Range_(2, 3)}
Nested ==
  {NOT(p) : p \in LeafKeys} \cup {NOT(AND(<<p>>)) : p \in Core}
  \cup UNION {{OR(p, Seen), OR(Seen, p), NOT(AND(<<Seen, p>>)), AND(<<p, Seen>>), AND(<<Seen, p>>)} : p \in Partly}
  \cup {AND(<<CHARSET, Seen>>), AND(<<Set("Range", <<Span(1, 1), Span(3, All)>>), Seen>>)}
  \cup UNION {{OR(p, q), AND(<<p, q>>), NOT(OR(p, q)), NOT(AND(<<p, q>>)), AND(<<NOT(p), q>>),
               OR(AND(<<p, q>>), NOT(p)), AND(<<p, OR(q, p), q>>)} : p, q \in Core}
ReturnOptions == {<<>>, <<"ALL">>, <<"MIN">>, <<"MAX">>, <<"COUNT">>, <<"SAVE">>, <<"COUNT", "ALL">>, <<"MIN", "SAVE">>}
SomeRequests ==
  {RequestFor(p, is_uid, rev2, FALSE, <<>>) : p \in LeafKeys, is_uid, rev2 \in BOOLEAN}
  \cup {RequestFor(p, is_uid, FALSE, TRUE, options) : p \in LeafKeys, is_uid \in BOOLEAN, options \in ReturnOptions}
  \cup {RequestFor(p, is_uid, rev2, FALSE, <<>>) : p \in Nested, is_uid, rev2 \in BOOLEAN}
=============================================================================
