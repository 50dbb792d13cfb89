---------------------------- MODULE SearchCommand ----------------------------
(***************************************************************************)
(* SEARCH and UID SEARCH from the text of the command to the numbers the   *)
(* client reads, and the command with which the client then uses those     *)
(* numbers: FETCH, COPY, MOVE and UID EXPUNGE share one parser of sequence *)
(* sets, STORE has its own.  Between the two commands other connections    *)
(* may add and remove messages.                                            *)
(*                                                                         *)
(* A text is a sequence of tokens.  A key with the part of its argument    *)
(* that its alternative of the parser takes (FROM x, BEFORE d, LARGER n)   *)
(* is one token; "rest" is what the argument has after its letters and     *)
(* digits (@example.org), and "refused" a key that no alternative takes,   *)
(* with its argument: a quoted argument, a header name with a hyphen,      *)
(* CHARSET, a key the program does not know.  No key of the parser is the  *)
(* beginning of another, so that the order of its alternatives decides     *)
(* nothing.                                                                *)
(* Keys are named by the places of the text at which they begin, and what  *)
(* recursion computes is a function of these places.                       *)
(***************************************************************************)
EXTENDS Integers, FiniteSets, Sequences, SequencesExt, FiniteSetsExt, Numbering

CONSTANTS
  Mailboxes,   \* what the selected folder may hold when the client asks
  Requests,    \* what clients ask for
  Flags,       \* the flags messages may have
  MaxNumber,   \* bound: stands for u32::MAX
  MaxChanges   \* bound: messages added or removed by others

ASSUME NumberAssumption == MaxNumber \in Nat /\ MaxChanges \in Nat

VARIABLES
  mails,    \* the messages of the folder
  step,     \* "start", "asked", "answered", "done"
  request,  \* what the client asked
  answer,   \* what it was answered
  chosen,   \* UIDs of the messages the second command acted on
  changes,
  \* history
  meant,    \* the messages that match, when the answer was made
  kept      \* no message that is left has got another number since

searchVars == <<mails, step, request, answer, chosen, changes, meant, kept>>

Token(t, v, n) == [t |-> t, v |-> v, n |-> n]
Word(t)   == Token(t, "", 0)
Number(n) == Token("number", "", n)
Look(text, i) == IF i \in DOMAIN text THEN text[i] ELSE Word("end")
Kind(text, i) == Look(text, i).t
Occurs(t, text) == \E i \in DOMAIN text : text[i].t = t

\* A text of which the parser takes every token; a key of the others may be left out
\* of the search without notice, and what follows it.
Plain(text) == \A i \in DOMAIN text : text[i].t \notin {"comma", "rest", "refused"}

\* RangeEnd::All has no upper bound.
All == MaxNumber + 1
Span(lo, hi) == [lo |-> lo, hi |-> hi]
contains(r, n) == r.lo <= n /\ n <= r.hi

\* A set as text: what a client sends, and what it is answered.
RangeText(r) ==
  IF r.lo = r.hi THEN <<Number(r.lo)>>
  ELSE <<Number(r.lo), Word(":"), IF r.hi = All THEN Word("*") ELSE Number(r.hi)>>
JoinText(ranges, j, later) ==
  RangeText(ranges[j]) \o (IF j = Len(ranges) THEN <<>> ELSE <<Word("comma")>> \o later[j + 1])
SetText(ranges) ==
  LET text[j \in DOMAIN ranges] == JoinText(ranges, j, text)
  IN IF ranges = <<>> THEN <<>> ELSE text[1]

-----------------------------------------------------------------------------
(* parsers.rs.  A parse succeeds with a value and the place after it, fails,
   or panics in an expect. *)

Ok(value, next) == [is |-> "ok", value |-> value, next |-> next]
Fail  == [is |-> "fail"]
Panic == [is |-> "panic"]

\* digit1 takes all digits, parse::<u32>().expect refuses large numbers.
parse_selected_range_inner(x, i) ==
  LET upper == Look(x, i + 2)
      pair  == Kind(x, i + 1) = ":" /\ upper.t \in {"number", "*"}
      big(k) == k.t = "number" /\ k.n > MaxNumber
  IN IF Kind(x, i) # "number" THEN Fail
     ELSE IF big(x[i]) \/ (pair /\ big(upper)) THEN Panic
     ELSE IF pair THEN Ok(Span(x[i].n, IF upper.t = "*" THEN All ELSE upper.n), i + 3)
     ELSE Ok(Span(x[i].n, x[i].n), i + 1)

\* separated_list0: what follows the last range is left over.
ranges_at(x, i, later) ==
  LET first == parse_selected_range_inner(x, i)
      rest  == IF Kind(x, first.next) = "comma" THEN later[first.next + 1] ELSE Ok(<<>>, first.next)
  IN IF first.is = "fail" THEN Ok(<<>>, i)
     ELSE IF first.is = "panic" \/ rest.is = "panic" THEN Panic
     ELSE Ok(<<first.value>> \o rest.value, IF rest.value = <<>> THEN first.next ELSE rest.next)
parse_selected_range(x) ==
  LET at[i \in 1 .. Len(x) + 1] == ranges_at(x, i, at) IN at

\* A key of a program: k names the alternative of SearchProgram, token is the
\* key that is one token, parts are the places of the keys inside.
NoRange == Span(0, 0)
Simple(token)    == [k |-> token.t, token |-> token, range |-> NoRange, parts |-> <<>>]
Ranged(k, range) == [k |-> k, token |-> Word(k), range |-> range, parts |-> <<>>]
Around(k, parts) == [k |-> k, token |-> Word(k), range |-> NoRange, parts |-> parts]

\* A sequence set is one range here: the key of "1,3" ends before the comma, as that
\* of "FROM a@b" does before the "@", and with it the whole program, as what is left
\* over is not looked at.  A list of keys ends where no blank and key follow; in
\* parentheses it is an AND also of one key.
search_key(x, i, later) ==
  LET t == Kind(x, i)
      ranged(k, r) == IF r.is = "ok" THEN Ok(Ranged(k, r.value), r.next) ELSE r
      first  == later[i + 2].key
      second == IF Kind(x, first.next) = "blank" THEN later[first.next + 1].key ELSE Fail
      inside == later[i + 1].list
  IN IF t \in {"UID", "NOT", "OR"} /\ Kind(x, i + 1) # "blank" THEN Fail
     ELSE CASE t = "number" -> ranged("Range", parse_selected_range_inner(x, i))
            [] t = "UID" -> ranged("UID", parse_selected_range_inner(x, i + 2))
            [] t = "NOT" -> IF first.is = "ok" THEN Ok(Around("NOT", <<i + 2>>), first.next) ELSE first
            [] t = "OR"  -> IF first.is # "ok" THEN first
                            ELSE IF second.is # "ok" THEN second
                            ELSE Ok(Around("OR", <<i + 2, first.next + 1>>), second.next)
            [] t = "("   -> IF inside.is # "ok" THEN inside
                            ELSE IF Kind(x, inside.next) # ")" THEN Fail
                            ELSE Ok(Around("AND", inside.value), inside.next + 1)
            [] t \in {")", "blank", "comma", ":", "*", "rest", "refused", "end"} -> Fail
            [] OTHER     -> Ok(Simple(x[i]), i + 1)
separated_list1(x, i, first, later) ==
  LET rest == IF Kind(x, first.next) = "blank" THEN later[first.next + 1].list ELSE Fail
  IN IF first.is # "ok" THEN first
     ELSE IF rest.is = "ok" THEN Ok(<<i>> \o rest.value, rest.next)
     ELSE IF rest.is = "fail" THEN Ok(<<i>>, first.next)
     ELSE rest

\* The key, and the list of keys, that begin at each place.
parsed_at(x, i, later) ==
  LET key == search_key(x, i, later)
  IN [key |-> key, list |-> separated_list1(x, i, key, later)]
Parse(x) ==
  LET at[i \in 1 .. Len(x) + 1] == parsed_at(x, i, at) IN at

search_program(tree) ==
  LET list == tree[1].list
  IN IF list.is # "ok" THEN list
     ELSE Ok(IF Len(list.value) > 1 THEN Around("AND", list.value) ELSE tree[list.value[1]].key.value, list.next)

-----------------------------------------------------------------------------
(* search.rs *)

\* Times are half days; a message may have no readable date.  A key's argument
\* may be no date, which matches nothing, or look like one and panic: a day that does
\* not exist, or that is written with one digit.
NoDate    == -1
NotADate  == -1
BadDay == -2
date(m, which) == IF which = "sent" THEN m.sent ELSE m.received

\* A header that cannot be parsed stops the search with a panic, a body that
\* cannot be parsed has no words; or and all look no further than they must.
Yes(b) == IF b THEN "yes" ELSE "no"
header_contains(t, m) == IF m.broken THEN "panic" ELSE Yes(t.n \in m.words["header"])
Bug_body_contains(t, m) == IF m.broken THEN "panic" ELSE Yes(t.n \in m.words[t.v])
body_contains(t, m) == Yes(t.n \in m.words[t.v])

\* check gives the verdicts of the keys inside.
check_search_condition(p, m, number, is_uid, check) ==
  LET t == p.token
      time     == date(m, t.v)
      midnight == 2 * t.n
      dated(holds) == IF t.n = BadDay THEN "panic" ELSE Yes(t.n # NotADate /\ time # NoDate /\ holds)
      part(n) == check[p.parts[n]]
      stops   == {n \in DOMAIN p.parts : part(n) # "yes"}
  IN CASE p.k = "ALL"       -> "yes"
       [] p.k = "KEYWORD"   -> "no"
       [] p.k = "UNKEYWORD" -> "yes"
       [] p.k = "flag"      -> Yes(t.v \in m.flags)
       [] p.k = "unflag"    -> Yes(t.v \notin m.flags)
       [] p.k = "header"    -> header_contains(t, m)
       [] p.k = "text"      -> body_contains(t, m)
       [] p.k = "BEFORE"    -> dated(time < midnight)
       [] p.k = "ON"        -> dated(time = midnight)
       [] p.k = "SINCE"     -> dated(time > midnight)
       [] p.k = "LARGER"    -> Yes(m.size > t.n)
       [] p.k = "SMALLER"   -> Yes(m.size < t.n)
       [] p.k = "UID"       -> Yes(contains(p.range, m.uid))
       [] p.k = "Range"     -> Yes(contains(p.range, IF is_uid THEN m.uid ELSE number))
       [] p.k = "NOT"       -> IF part(1) = "panic" THEN "panic" ELSE Yes(part(1) = "no")
       [] p.k = "OR"        -> IF part(1) = "no" THEN part(2) ELSE part(1)
       [] p.k = "AND"       -> IF stops = {} THEN "yes" ELSE part(Min(stops))
checked_at(tree, m, number, is_uid, i, check) ==
  IF tree[i].key.is = "ok" THEN check_search_condition(tree[i].key.value, m, number, is_uid, check)
  ELSE "no"
Verdicts(tree, m, number, is_uid) ==
  LET check[i \in DOMAIN tree] == checked_at(tree, m, number, is_uid, i, check) IN check

\* sort_by_key(uid), then numbers from 1.
InOrder(set) == Ascending(set, [m \in set |-> m.uid])
Sorted(numbers) == Ascending(numbers, [n \in numbers |-> n])

parse_search_program(list, tree, p, is_uid) ==
  LET verdict(i) == check_search_condition(p, list[i], i, is_uid, Verdicts(tree, list[i], i, is_uid))
      hits == {i \in DOMAIN list : verdict(i) = "yes"}
  IN IF \E i \in DOMAIN list : verdict(i) = "panic" THEN Panic
     ELSE Ok(Sorted({IF is_uid THEN list[i].uid ELSE i : i \in hits}), 0)

\* The runs of consecutive numbers; the upper end 0 means that none is open.
Runs(done, cur) == [done |-> done, cur |-> cur]
Bug_add(runs, n) ==
  IF runs.cur.hi = 0 THEN Runs(runs.done, Span(n, n))
  ELSE IF runs.cur.hi + 1 = n THEN Runs(runs.done, Span(runs.cur.lo, n))
  ELSE Runs(runs.done, Span(n, n))
add(runs, n) ==
  IF runs.cur.hi = 0 THEN Runs(runs.done, Span(n, n))
  ELSE IF runs.cur.hi + 1 = n THEN Runs(runs.done, Span(runs.cur.lo, n))
  ELSE Runs(Append(runs.done, runs.cur), Span(n, n))
runs_to(results, i, before) ==
  IF i = 0 THEN Runs(<<>>, Span(0, 0)) ELSE add(before[i - 1], results[i])
generate_ranges(results) ==
  LET runs[i \in 0 .. Len(results)] == runs_to(results, i, runs)
      last == runs[Len(results)]
  IN Append(last.done, last.cur)

Singles(numbers) == [i \in DOMAIN numbers |-> Span(numbers[i], numbers[i])]

\* One return option of an ESEARCH answer.
Item(option, results) ==
  [option |-> option,
   text |-> CASE option = "ALL"   -> SetText(generate_ranges(results))
              [] option = "MIN"   -> <<Number(results[1])>>
              [] option = "MAX"   -> <<Number(results[Len(results)])>>
              [] option = "COUNT" -> <<Number(Len(results))>>]

\* What is sent: an untagged answer, if any, and the tagged ones.
Reply(kind, items, tagged) == [kind |-> kind, items |-> items, tagged |-> tagged]
Silence == Reply("none", <<>>, <<>>)

\* Without RETURN a rev1 client gets the legacy answer; RETURN () asks for ALL.
\* SAVE alone is refused; beside other options it is refused and then ignored.
Listed_options(options) ==
  LET places == Sorted({i \in DOMAIN options : options[i] # "SAVE"})
  IN IF options = <<>> THEN <<"ALL">> ELSE [i \in DOMAIN places |-> options[places[i]]]
Search_reply(r, esearch, options) ==
  LET listed == Listed_options(options)
  IN IF r.is = "fail" THEN Reply("none", <<>>, <<"BAD">>)
     ELSE IF r.is = "panic" THEN Reply("panic", <<>>, <<>>)
     ELSE IF ~esearch
     THEN Reply("SEARCH", <<[option |-> "ALL", text |-> SetText(Singles(r.value))]>>, <<"OK">>)
     ELSE IF r.value = <<>> THEN Reply("ESEARCH", <<>>, <<"OK">>)
     ELSE IF options = <<"SAVE">> THEN Reply("none", <<>>, <<"BAD">>)
     ELSE Reply("ESEARCH", [i \in DOMAIN listed |-> Item(listed[i], r.value)],
                [i \in 1 .. Len(options) - Len(listed) |-> "BAD"] \o <<"OK">>)

-----------------------------------------------------------------------------
(* Which messages the second command acts on *)

\* FETCH, COPY and MOVE.
Bug_selects(list, i, ranges, is_uid) == \E j \in DOMAIN ranges : contains(ranges[j], i)
selects(list, i, ranges, is_uid) ==
  \E j \in DOMAIN ranges : contains(ranges[j], IF is_uid THEN list[i].uid ELSE i)
UidsOf(list, indices) == {list[i].uid : i \in indices}

Selected(list, text, is_uid) ==
  LET parsed == parse_selected_range(text)[1]
  IN UidsOf(list, {i \in DOMAIN list : selects(list, i, parsed.value, is_uid)})

\* STORE splits at the first ":" and takes numbers for UIDs; what does not
\* parse as a number is 1 or, as an upper end, u32::MAX.
Parsed(p, default) ==
  IF Len(p) = 1 /\ p[1].t = "number" /\ p[1].n <= MaxNumber THEN p[1].n ELSE default
StoreSelected(list, text) ==
  LET colons == {i \in DOMAIN text : text[i].t = ":"}
      first  == Min(colons)
      next   == Min((colons \ {first}) \cup {Len(text) + 1})
      wanted == IF colons = {} THEN Span(Parsed(text, 1), Parsed(text, 1))
                ELSE Span(Parsed(SubSeq(text, 1, first - 1), 1),
                          Parsed(SubSeq(text, first + 1, next - 1), MaxNumber))
  IN UidsOf(list, {i \in DOMAIN list : contains(wanted, list[i].uid)})

-----------------------------------------------------------------------------
(* The two commands *)

\* A search as the client means it: keys gives for each place where a key begins
\* the key that is meant there and the place after it, top lists the outermost
\* keys.  ENABLE IMAP4rev2 and RETURN (...) ask for the new form of the answer.
Meant(k, ranges, parts, end) == [k |-> k, ranges |-> ranges, parts |-> parts, end |-> end]
Request(text, keys, top, is_uid, rev2, explicit, options) ==
  [text |-> text, keys |-> keys, top |-> top, is_uid |-> is_uid,
   rev2 |-> rev2, explicit |-> explicit, options |-> options]
NoRequest == Request(<<>>, <<>>, <<>>, FALSE, FALSE, FALSE, <<>>)

Leaves  == {"ALL", "KEYWORD", "UNKEYWORD", "flag", "unflag", "header", "text",
            "BEFORE", "ON", "SINCE", "LARGER", "SMALLER"}
Kinds   == {"UID", "Range", "NOT", "OR", "AND"} \cup Leaves
Dates   == {"BEFORE", "ON", "SINCE"}
Worded  == {"KEYWORD", "UNKEYWORD", "header", "text"}
Marks   == {"number", ":", "*", "comma", "blank", "(", ")", "UID", "NOT", "OR", "rest", "refused"}
Fields  == {"header", "BODY", "TEXT"}
Options == {"ALL", "MIN", "MAX", "COUNT", "SAVE"}
Spans   == [lo : 0 .. MaxNumber, hi : 0 .. All]
Tokens  == [t : Leaves \cup Marks, v : Flags \cup Fields \cup {"received", "sent", ""}, n : Int]
Messages ==
  [uid : Nat, flags : SUBSET Flags, size : Int, words : [Fields -> SUBSET Int],
   received : Nat \cup {NoDate}, sent : Nat \cup {NoDate}, broken : BOOLEAN]

\* The keys at the places of list are written from one place up to another, with
\* blanks in between.
Lists(r, list, from, to) ==
  /\ list # <<>> /\ \A n \in DOMAIN list : list[n] \in DOMAIN r.keys
  /\ list[1] = from /\ r.keys[list[Len(list)]].end = to
  /\ \A n \in 1 .. Len(list) - 1 :
       LET end == r.keys[list[n]].end IN Kind(r.text, end) = "blank" /\ list[n + 1] = end + 1
WrittenSet(x, i, ranges, end) == ranges # <<>> /\ i <= end /\ SubSeq(x, i, end - 1) = SetText(ranges)
WrittenKey(r, i) ==
  LET key == r.keys[i]
      x   == r.text
      around(n) == Kind(x, i + 1) = "blank" /\ Lists(r, key.parts, i + 2, key.end) /\ Len(key.parts) = n
  IN \/ key.k = "UID" /\ Kind(x, i) = "UID" /\ Kind(x, i + 1) = "blank" /\ WrittenSet(x, i + 2, key.ranges, key.end)
     \/ key.k = "Range" /\ WrittenSet(x, i, key.ranges, key.end)
     \/ key.k = "NOT" /\ Kind(x, i) = "NOT" /\ around(1)
     \/ key.k = "OR"  /\ Kind(x, i) = "OR" /\ around(2)
     \/ key.k = "AND" /\ Kind(x, i) = "(" /\ Lists(r, key.parts, i + 1, key.end - 1) /\ Kind(x, key.end - 1) = ")"
     \/ key.k \in Leaves /\ Kind(x, i) = key.k /\ key.end = i + 1
     \/ key.k \in Worded /\ Kind(x, i) = key.k /\ Kind(x, i + 1) = "rest" /\ key.end = i + 2
     \/ key.k \in Leaves \cup {"UID", "Range"} /\ Kind(x, i) = "refused" /\ key.end = i + 1

\* What clients write: a text by the grammar, with the keys that are meant, whose
\* numbers are within u32 and whose sizes within u64.  CHARSET, which is meant to
\* match any message, is a key of its own.
WellWritten(r) ==
  /\ r.text \in Seq(Tokens) /\ DOMAIN r.keys \subseteq DOMAIN r.text
  /\ \A i \in DOMAIN r.text :
       /\ r.text[i].t = "number" => r.text[i].n \in 0 .. MaxNumber
       /\ r.text[i].t = "text" => r.text[i].v \in Fields
       /\ r.text[i].t \in Dates => r.text[i].n \in Nat \cup {NotADate, BadDay}
  /\ \A i \in DOMAIN r.keys :
       /\ r.keys[i] \in [k : Kinds, ranges : Seq(Spans), parts : Seq(DOMAIN r.keys), end : i + 1 .. Len(r.text) + 1]
       /\ WrittenKey(r, i)
       /\ Kind(r.text, r.keys[i].end) \in {"blank", ")", "end"}
  /\ Lists(r, r.top, 1, Len(r.text) + 1) /\ r.top \in Seq(DOMAIN r.keys)
  /\ r.is_uid \in BOOLEAN /\ r.rev2 \in BOOLEAN /\ r.explicit \in BOOLEAN
  /\ r.options \in Seq(Options) /\ IsInjective(r.options)
ASSUME RequestsAssumption == \A r \in Requests : WellWritten(r)

\* UIDs and numbers are within u32; one message may have no UID yet.
ASSUME MailboxesAssumption ==
  \A box \in Mailboxes :
    /\ IsFiniteSet(box) /\ Cardinality(box) <= MaxNumber /\ box \subseteq Messages
    /\ \A m, o \in box : m.uid <= MaxNumber /\ (m.uid = o.uid => m = o)

\* The messages a search is about, by set operations.
MatchingKey(r, set, i, of) ==
  LET key == r.keys[i]
      t   == r.text[i]
      number(m) == IF r.is_uid \/ key.k = "UID" THEN m.uid ELSE Cardinality({o \in set : o.uid <= m.uid})
      where(P(_)) == {m \in set : P(m)}
      time(m) == date(m, t.v)
  IN CASE key.k \in {"ALL", "UNKEYWORD"} -> set
       [] key.k = "KEYWORD" -> {}
       [] key.k = "flag"    -> where(LAMBDA m : t.v \in m.flags)
       [] key.k = "unflag"  -> where(LAMBDA m : t.v \notin m.flags)
       [] key.k = "header"  -> where(LAMBDA m : t.n \in m.words["header"])
       [] key.k = "text"    -> where(LAMBDA m : t.n \in m.words[t.v])
       [] key.k = "BEFORE"  -> where(LAMBDA m : t.n # NotADate /\ time(m) \in 0 .. 2 * t.n - 1)
       [] key.k = "ON"      -> where(LAMBDA m : t.n # NotADate /\ time(m) = 2 * t.n)
       [] key.k = "SINCE"   -> where(LAMBDA m : t.n # NotADate /\ time(m) > 2 * t.n)
       [] key.k = "LARGER"  -> where(LAMBDA m : m.size > t.n)
       [] key.k = "SMALLER" -> where(LAMBDA m : m.size < t.n)
       [] key.k \in {"UID", "Range"} ->
            where(LAMBDA m : \E j \in DOMAIN key.ranges : number(m) \in key.ranges[j].lo .. key.ranges[j].hi)
       [] key.k = "NOT"     -> set \ of[key.parts[1]]
       [] key.k = "OR"      -> of[key.parts[1]] \cup of[key.parts[2]]
       [] key.k = "AND"     -> {m \in set : \A n \in DOMAIN key.parts : m \in of[key.parts[n]]}
MatchingKeys(r, set) ==
  LET of[i \in DOMAIN r.keys] == MatchingKey(r, set, i, of) IN of
Matching(r, set) == {m \in set : \A n \in DOMAIN r.top : m \in MatchingKeys(r, set)[r.top[n]]}

SearchInit ==
  /\ mails \in Mailboxes
  /\ step = "start" /\ request = NoRequest /\ answer = Silence
  /\ chosen = [command |-> "none", text |-> <<>>, uids |-> {}] /\ changes = 0
  /\ meant = {} /\ kept = TRUE

SearchArguments(r) ==
  /\ step = "start" /\ step' = "asked"
  /\ request' = r
  /\ UNCHANGED <<mails, answer, chosen, changes, meant, kept>>

\* Search::exec
Search ==
  LET tree   == Parse(request.text)
      parsed == search_program(tree)
      result == IF parsed.is = "ok"
                THEN parse_search_program(InOrder(mails), tree, parsed.value, request.is_uid) ELSE parsed
  IN /\ step = "asked" /\ step' = "answered"
     /\ answer' = Search_reply(result, request.rev2 \/ request.explicit, request.options)
     /\ meant' = Matching(request, mails)
     /\ UNCHANGED <<mails, request, chosen, changes, kept>>

\* The client sends the set of the answer back, as UIDs or as numbers.  An answer of
\* several items, which are written without blanks between them, it cannot take apart.
SetsOf(reply) ==
  IF Len(reply.items) # 1 THEN {}
  ELSE {reply.items[i].text : i \in {j \in DOMAIN reply.items : reply.items[j].option = "ALL"}}
Use(command, text) ==
  LET list == InOrder(mails)
  IN /\ step = "answered" /\ step' = "done"
     /\ text \in SetsOf(answer) \ {<<>>}
     /\ chosen' = [command |-> command, text |-> text,
                   uids |-> IF command = "STORE" THEN StoreSelected(list, text)
                            ELSE Selected(list, text, request.is_uid)]
     /\ UNCHANGED <<mails, request, answer, changes, meant, kept>>

\* Meanwhile a message is added, one that has no UID yet gets its UID, or one is
\* removed.
NextUid == Max({0} \cup {m.uid : m \in mails}) + 1
Change(now, renumbers) ==
  /\ step = "answered" /\ changes < MaxChanges
  /\ mails' = now /\ changes' = changes + 1
  /\ kept' = (kept /\ ~renumbers)
  /\ UNCHANGED <<step, request, answer, chosen, meant>>
Arrive(m) ==
  \E given \in {0, NextUid} \ {o.uid : o \in mails} :
    Change(mails \cup {[m EXCEPT !.uid = given]}, given = 0)
Complete(m)  == m.uid = 0 /\ Change((mails \ {m}) \cup {[m EXCEPT !.uid = NextUid]}, TRUE)
Disappear(m) == Change(mails \ {m}, TRUE)

SearchNext ==
  \/ \E r \in Requests : SearchArguments(r)
  \/ Search
  \/ \E command \in {"FETCH", "STORE"}, text \in SetsOf(answer) : Use(command, text)
  \/ \E m \in mails : Arrive(m) \/ Complete(m) \/ Disappear(m)

SearchSpec == SearchInit /\ [][SearchNext]_searchVars

-----------------------------------------------------------------------------
(* Properties *)

\* The numbers of a sequence set, read by the rules of the protocol.
Reads(text) ==
  UNION {IF Kind(text, i + 1) = ":" THEN text[i].n .. Look(text, i + 2).n ELSE {text[i].n} :
           i \in {j \in DOMAIN text : text[j].t = "number"}}

NumbersOf(set) ==
  IF request.is_uid THEN {m.uid : m \in set}
  ELSE LET list == InOrder(mails) IN {i \in DOMAIN list : list[i] \in set}

\* A search that the parser takes as a whole is answered with exactly the messages
\* that match: no key of a nested program is dropped or bound to another operator, and
\* the set, the least, the greatest and the number of the results say the same in the
\* old and in the new form.  Only a message that is still being delivered, which has
\* the UID 0, may be missing from a set.  Exceptions are searches with a comma, with
\* more than letters and digits in an argument, or with a key that is refused, which
\* may be cut short without notice (parsers.rs:526-654, search.rs:55), and answers of
\* several items, which run into each other (search.rs:175-226).
AnswerIsTheMatches ==
  step = "answered" /\ changes = 0 /\ answer.kind \in {"SEARCH", "ESEARCH"}
  /\ Plain(request.text) /\ Len(answer.items) <= 1 =>
    LET numbers == NumbersOf(meant)
    IN /\ answer.items = <<>> => meant = {}
       /\ \A i \in DOMAIN answer.items :
            LET item == answer.items[i]
            IN CASE item.option = "ALL"   -> Reads(item.text) \cup {0} = numbers \cup {0}
                 [] item.option = "MIN"   -> item.text[1].n = Min(numbers)
                 [] item.option = "MAX"   -> item.text[1].n = Max(numbers)
                 [] item.option = "COUNT" -> item.text[1].n = Cardinality(numbers)

\* A well-formed search gets one tagged answer, which refuses it only for the option
\* SAVE, for a key the parser does not take, or for a comma or the rest of an argument
\* inside parentheses or OR; SAVE beside other options gets BAD and OK.  It gets none,
\* as the connection then ends, only when it looks at the headers of a message whose
\* headers cannot be read, or asks for a day that does not exist or is written with
\* one digit.
AnswersWhatItMust ==
  step = "answered" /\ changes = 0 =>
    LET x == request.text
    IN /\ answer.kind = "panic" =>
            \/ Occurs("header", x) /\ \E m \in mails : m.broken
            \/ \E i \in DOMAIN x : x[i].n = BadDay
       /\ answer.kind # "panic" => answer.tagged # <<>>
       /\ answer.tagged # <<>> /\ answer.tagged[Len(answer.tagged)] = "BAD" =>
            \/ request.options = <<"SAVE">>
            \/ Occurs("refused", x)
            \/ (Occurs("comma", x) \/ Occurs("rest", x)) /\ (Occurs("(", x) \/ Occurs("OR", x))
       /\ Len(answer.tagged) > 1 => \E i \in DOMAIN request.options : request.options[i] = "SAVE"

\* A second command with the set of the answer to such a search acts on exactly the
\* messages that matched and are still there: by UID whatever has been added or removed
\* in between, by number unless numbers have moved.  STORE understands UIDs
\* only, also where it is given numbers, and no set with a comma.
UseActsOnTheMatches ==
  step = "done" /\ Plain(request.text)
  /\ (chosen.command = "FETCH" => request.is_uid \/ kept)
  /\ (chosen.command = "STORE" => request.is_uid /\ ~Occurs("comma", chosen.text)) =>
    LET present == {m.uid : m \in mails}
    IN chosen.uids \ {0} = ({m.uid : m \in meant} \cap present) \ {0}
=============================================================================
