-------------------------- MODULE FolderFilesProofs --------------------------
(***************************************************************************)
(* Proofs about FolderFiles, for any connections, clocks and number of     *)
(* commands and restarts: what the answers to SUBSCRIBE, UNSUBSCRIBE and   *)
(* the requests for UIDVALIDITY promise, and that \Sent is not lost.       *)
(***************************************************************************)
EXTENDS FolderFiles, FiniteSetTheorems, SequenceTheorems, TLAPS

-----------------------------------------------------------------------------
(* The inductive invariant *)

Cells  == {"sent", "subsc", "ribed", Nul}
Dirs   == {"none", "bare", "maildir"}
Cmds   == {"none", "SUBSCRIBE", "UNSUBSCRIBE", "CREATE", "APPEND", "STATUS", "DELETE"}
Adds   == {Both, <<Subscribed>>, <<>>}
PCs    == {"idle", "mkdir", "subdirs", "add", "append", "read lines", "truncate", "rewrite", "read value",
           "make parent", "create", "write value", "remove entries", "remove directory"}
Lines  == {l \in Seq(Cells) : /\ l # <<>> /\ l[Len(l)] \in LineEnds
                              /\ \A k \in 1 .. Len(l) - 1 : l[k] \notin LineEnds}

\* A text of whole lines.
Texts  == {f \in Seq(Cells) : f # <<>> => f[Len(f)] \in LineEnds}

Sessions == [pc : PCs, cmd : Cmds, no : Nat, add : Adds, text : Texts, lines : SUBSET (Nat \X Nat), at : Nat,
             gone : BOOLEAN, value : Nat, clean : BOOLEAN, expect : Nat]

TypeInv ==
  /\ dir \in Dirs /\ flags \in Texts \cup {NoFile} /\ validity \in {None, Empty} \cup Times
  /\ writes \subseteq [cmd : Cmds, no : Nat, at : {End} \cup Nat, line : Lines]
  /\ c \in [Conns -> Sessions]
  /\ known \in {"unknown", "subscribed", "unsubscribed"} /\ special \in BOOLEAN /\ settled \in Nat
  /\ commands \in Nat /\ crashes \in Nat

\* What a connection does fits the command it carries out.
Fits(s) ==
  /\ s.lines \subseteq retain(s.text)
  /\ s.pc \in {"read lines", "truncate", "rewrite"} => s.cmd = "UNSUBSCRIBE"
  /\ s.cmd = "UNSUBSCRIBE" => s.pc \in {"add", "read lines", "truncate", "rewrite"} /\ s.add = <<>>
  /\ s.pc \in {"remove entries", "remove directory"} => s.cmd = "DELETE" /\ s.expect = 0
  /\ s.add # <<>> => s.cmd \in Adding
  /\ s.pc = "append" => s.add # <<>>
  /\ s.pc \in {"mkdir", "subdirs"} => s.cmd \in Adding
  /\ s.gone => s.pc \in {"rewrite", "write value"}
  /\ s.pc \in {"make parent", "create", "write value"} => s.value \in Times
  /\ s.pc # "rewrite" => s.at = 0
SessionInv == \A n \in Conns : Fits(c[n])

\* What is open exists, unless the folder was removed since, and only
\* remove_flag writes elsewhere than at the end.
FileInv ==
  /\ dir = "none" => flags = NoFile /\ validity = None
  /\ writes # {} => flags # NoFile
  /\ \A n \in Conns : ~c[n].gone => /\ At(n, "rewrite") => flags # NoFile
                                    /\ At(n, "write value") => validity # None
  /\ \A w \in writes : \/ w.cmd \in Adding /\ w.at = End /\ w.line \in {Sent, Subscribed}
                       \/ w.cmd = "UNSUBSCRIBE" /\ w.at \in Nat

\* The value that was told is in the file, and nobody is creating another.
UidInv ==
  /\ settled # 0 => /\ validity # None /\ Parse(validity) = settled
                    /\ \A n \in Conns : ~Creating(n)
  /\ \A n \in Conns : c[n].expect # 0 => c[n].expect = settled

-----------------------------------------------------------------------------
(* The subscription *)

\* A line ends where the first at cells do.
Boundary(file, at) == at \in 0 .. Len(file) /\ (at = 0 \/ file[at] \in LineEnds)
HasSubscribed(file) ==
  \E k \in 1 .. Len(file) - 1 : file[k] = "subsc" /\ file[k + 1] = "ribed" /\ Boundary(file, k - 1)

\* The flag is in the file, or will be.
Held == HasSubscribed(flags) \/ \E w \in writes : w.line = Subscribed
Subscribing == Running \cap {"UNSUBSCRIBE", "DELETE"} = {}

SubscribedInv ==
  /\ known = "subscribed" => Subscribing /\ Held
  /\ \A n \in Conns : c[n].clean /\ c[n].cmd = "SUBSCRIBE" => Subscribing /\ (c[n].add = <<>> => Held)

-----------------------------------------------------------------------------
(* \Sent while the file is written again *)

Removing == {n \in Conns : c[n].cmd = "UNSUBSCRIBE"}
Rewrites == {w \in writes : w.cmd = "UNSUBSCRIBE"}

\* \Sent is a line within the first at cells.
SentIn(file, at) == \E i \in 1 .. Len(file) : i <= at /\ file[i] = "sent" /\ Boundary(file, i - 1)
SentIsLeft(n) == \E x \in c[n].lines : line(c[n].text, x) = Sent

\* While remove_flag works, \Sent is in the file it will read, in what it has
\* read, in the write that is under way or in what has been written.
Keeps(n) ==
  /\ c[n].pc # "add" /\ ~c[n].gone
  /\ At(n, "read lines") => SentIn(flags, Len(flags))
  /\ At(n, "truncate") => SentIsLeft(n)
  /\ At(n, "rewrite") /\ Rewrites = {} => Boundary(flags, c[n].at) /\ (SentIsLeft(n) \/ SentIn(flags, c[n].at))
KeepsWith(w) ==
  /\ Boundary(flags, w.at)
  /\ w.line = Sent \/ SentIn(flags, w.at) \/ \E n \in Removing : SentIsLeft(n)
  /\ \A n \in Removing : At(n, "rewrite") /\ w.no = c[n].no /\ c[n].at = w.at + Len(w.line)

Special ==
  /\ flags # NoFile
  /\ \A m, n \in Removing : m = n
  /\ \A n \in Removing : Keeps(n)
  /\ \A v, w \in Rewrites : v = w
  /\ \A w \in Rewrites : KeepsWith(w)
  /\ Removing = {} /\ Rewrites = {} => SentIn(flags, Len(flags))

SpecialInv == special => Special

-----------------------------------------------------------------------------
(* What is left after UNSUBSCRIBE *)

\* Alone, remove_flag writes the lines it keeps one after the other.
Clean(n) ==
  /\ \A m \in Conns \ {n} : c[m].cmd \notin Adding \cup {"UNSUBSCRIBE"}
  /\ \A w \in writes : w.no = c[n].no
  /\ ~At(n, "rewrite") => writes = {}
  /\ At(n, "add") \/ c[n].gone => flags = NoFile
  /\ At(n, "rewrite") /\ ~c[n].gone =>
       /\ ~HasSubscribed(flags)
       /\ \A v, w \in writes : v = w
       /\ writes = {} => c[n].at = Len(flags)
       /\ \A w \in writes : w.at = Len(flags) /\ w.line # Subscribed /\ c[n].at = w.at + Len(w.line)

CleanInv == \A n \in Conns : c[n].clean /\ c[n].cmd = "UNSUBSCRIBE" => Clean(n)

\* A text is a part of g, with holes where g has cells.
PartOf(cells, at, g) ==
  at + Len(cells) <= Len(g) /\ \A k \in 1 .. Len(cells) : cells[k] \in {g[at + k], Nul}

\* The lines after the first at cells.
Rest(text, at) == {x \in lines_from_file(text) : at < x[1]}

\* What a connection has read of g, and not written yet.
Reads(s, g) == PartOf(s.text, 0, g) /\ Boundary(s.text, s.at) /\ s.lines = Rest(s.text, s.at)

\* The text that the last UNSUBSCRIBE left: whoever reads the file since then
\* reads some of it, and writes what it read where it was.
UnsubscribedIn(g) ==
  /\ ~HasSubscribed(g)
  /\ flags = NoFile \/ PartOf(flags, 0, g)
  /\ \A w \in writes : w.at \in Nat /\ PartOf(w.line, w.at, g)
  /\ \A n \in Removing : Reads(c[n], g)

UnsubscribedInv == known = "unsubscribed" => Running \cap Adding = {} /\ \E g \in Texts : UnsubscribedIn(g)

IInv == /\ TypeInv /\ SessionInv /\ FileInv /\ UidInv
        /\ SubscribedInv /\ SpecialInv /\ CleanInv /\ UnsubscribedInv

-----------------------------------------------------------------------------
(* Texts and lines *)

AnyText  == Texts \cup {NoFile}
AnyCells == Cells \cup {"no file"}

LEMMA OneCell == ASSUME NEW S, NEW a \in S PROVE <<a>> \in Seq(S) /\ Len(<<a>>) = 1 /\ DOMAIN <<a>> = 1 .. 1 /\ <<a>>[1] = a
  OBVIOUS

LEMMA TextFacts ==
  ASSUME NEW f \in AnyText
  PROVE  f \in Seq(AnyCells) /\ Len(f) \in Nat /\ DOMAIN f = 1 .. Len(f)
<1>1. CASE f \in Texts
  <2>1. f \in Seq(Cells) /\ Cells \subseteq AnyCells
    BY <1>1 DEF Texts, AnyCells
  <2> QED BY <2>1
<1>2. CASE f = NoFile
  <2>1. f = <<"no file">> /\ "no file" \in AnyCells
    BY <1>2 DEF NoFile, AnyCells
  <2> QED BY <2>1, OneCell
<1> QED BY <1>1, <1>2 DEF AnyText

LEMMA LineFacts ==
  ASSUME NEW f \in AnyText, NEW x \in lines_from_file(f)
  PROVE  /\ x \in Nat \X Nat /\ x[1] \in 1 .. Len(f) /\ x[2] \in x[1] .. Len(f) /\ f[x[2]] \in LineEnds
         /\ Boundary(f, x[1] - 1) /\ \A k \in x[1] .. x[2] - 1 : f[k] \notin LineEnds
<1>1. x \in (1 .. Len(f)) \X (1 .. Len(f)) /\ IsLine(f, x[1], x[2]) /\ Len(f) \in Nat
  <2>1. DOMAIN f = 1 .. Len(f) /\ Len(f) \in Nat
    BY TextFacts
  <2> QED BY <2>1 DEF lines_from_file
<1>2. x[1] \in 1 .. Len(f) /\ x[2] \in 1 .. Len(f) /\ x \in Nat \X Nat /\ Len(f) \in Nat
  BY <1>1
<1>3. x[1] <= x[2] /\ f[x[2]] \in LineEnds /\ (x[1] = 1 \/ f[x[1] - 1] \in LineEnds) /\ \A k \in x[1] .. x[2] - 1 : f[k] \notin LineEnds
  BY <1>1 DEF IsLine
<1>4. Boundary(f, x[1] - 1)
  BY <1>2, <1>3 DEF Boundary
<1> QED BY <1>2, <1>3, <1>4

LEMMA LineCells ==
  ASSUME NEW f \in AnyText, NEW x \in lines_from_file(f)
  PROVE  /\ line(f, x) \in Seq(AnyCells) /\ Len(line(f, x)) = x[2] - x[1] + 1
         /\ \A k \in 1 .. x[2] - x[1] + 1 : line(f, x)[k] = f[x[1] + k - 1]
<1>1. x[1] \in 1 .. Len(f) /\ x[2] \in x[1] .. Len(f) /\ Len(f) \in Nat
  BY LineFacts, TextFacts
<1>2. f \in Seq(AnyCells)
  BY TextFacts
<1>3. \A k \in x[1] .. x[2] : f[k] \in AnyCells
  BY <1>1, <1>2
<1> QED BY <1>1, <1>2, <1>3, SubSeqProperties DEF line

\* Lines are where line ends are, and only a file has some.
LEMMA IsALine ==
  ASSUME NEW f \in AnyText, NEW i \in 1 .. Len(f), NEW j \in i .. Len(f),
         Boundary(f, i - 1), f[j] \in LineEnds, \A k \in i .. j - 1 : f[k] \notin LineEnds
  PROVE  <<i, j>> \in lines_from_file(f)
<1>0. DOMAIN f = 1 .. Len(f) /\ Len(f) \in Nat
  BY TextFacts
<1>1. <<i, j>> \in (DOMAIN f) \X (DOMAIN f)
  BY <1>0
<1>2. i = 1 \/ f[i - 1] \in LineEnds
  BY <1>0 DEF Boundary
<1>3. IsLine(f, i, j)
  BY <1>0, <1>2 DEF IsLine
<1> QED BY <1>1, <1>3 DEF lines_from_file

LEMMA LineIsOne ==
  ASSUME NEW f \in Texts, NEW x \in lines_from_file(f)
  PROVE  line(f, x) \in Lines
<1> DEFINE l == line(f, x)
<1>1. f \in AnyText /\ f \in Seq(Cells) /\ Len(f) \in Nat
  BY DEF AnyText, Texts
<1>2. x[1] \in 1 .. Len(f) /\ x[2] \in x[1] .. Len(f) /\ f[x[2]] \in LineEnds /\ \A k \in x[1] .. x[2] - 1 : f[k] \notin LineEnds
  BY <1>1, LineFacts
<1>3. l \in Seq(Cells)
  BY <1>1, <1>2 DEF line
<1>4. Len(l) = x[2] - x[1] + 1 /\ \A k \in 1 .. x[2] - x[1] + 1 : l[k] = f[x[1] + k - 1]
  BY <1>1, LineCells
<1>5. l[Len(l)] \in LineEnds /\ l # <<>>
  BY <1>1, <1>2, <1>4
<1>6. \A k \in 1 .. Len(l) - 1 : l[k] \notin LineEnds
  <2> SUFFICES ASSUME NEW k \in 1 .. Len(l) - 1 PROVE l[k] \notin LineEnds
    OBVIOUS
  <2>1. k \in 1 .. x[2] - x[1] + 1 /\ x[1] + k - 1 \in x[1] .. x[2] - 1
    BY <1>1, <1>2, <1>4
  <2> HIDE DEF l
  <2> QED BY <1>2, <1>4, <2>1
<1> QED BY <1>3, <1>5, <1>6 DEF Lines

\* \Sent is a line where its cell begins one.
LEMMA SentLine ==
  ASSUME NEW f \in AnyText
  PROVE  (\E x \in lines_from_file(f) : line(f, x) = Sent)
           <=> \E i \in DOMAIN f : i <= Len(f) /\ f[i] = "sent" /\ Boundary(f, i - 1)
<1>1. ASSUME NEW x \in lines_from_file(f), line(f, x) = Sent
      PROVE  f[x[1]] = "sent" /\ x[1] \in DOMAIN f /\ x[1] <= Len(f) /\ Boundary(f, x[1] - 1)
  <2>1. x[1] \in 1 .. Len(f) /\ x[2] \in x[1] .. Len(f) /\ Boundary(f, x[1] - 1)
    BY LineFacts
  <2>2. line(f, x)[1] = f[x[1] + 1 - 1] /\ x[1] + 1 - 1 = x[1]
    <3>1. 1 \in 1 .. x[2] - x[1] + 1 /\ x[1] + 1 - 1 = x[1]
      BY <2>1, TextFacts
    <3> QED BY <3>1, LineCells
  <2> QED BY <1>1, <2>1, <2>2, TextFacts DEF Sent
<1>2. ASSUME NEW i \in DOMAIN f, f[i] = "sent", Boundary(f, i - 1)
      PROVE  <<i, i>> \in lines_from_file(f) /\ line(f, <<i, i>>) = Sent
  <2>1. i \in 1 .. Len(f) /\ Len(f) \in Nat
    BY TextFacts
  <2>2. <<i, i>> \in lines_from_file(f)
    BY <1>2, <2>1, IsALine DEF LineEnds
  <2>3. /\ line(f, <<i, i>>) \in Seq(AnyCells) /\ Len(line(f, <<i, i>>)) = 1
        /\ line(f, <<i, i>>)[1] = f[i]
    <3> DEFINE x == <<i, i>>
    <3>1. x \in lines_from_file(f) /\ x[1] = i /\ x[2] = i /\ x[2] - x[1] + 1 = 1 /\ x[1] + 1 - 1 = i
      BY <2>1, <2>2
    <3> HIDE DEF x
    <3>2. line(f, x) \in Seq(AnyCells) /\ Len(line(f, x)) = 1 /\ line(f, x)[1] = f[i]
      <4>1. 1 \in 1 .. x[2] - x[1] + 1
        BY <3>1
      <4> QED BY <3>1, <4>1, LineCells
    <3> QED BY <3>2 DEF x
  <2> QED BY <1>2, <2>2, <2>3 DEF Sent
<1> QED BY <1>1, <1>2

LEMMA SubscribedLine ==
  ASSUME NEW f \in AnyText
  PROVE  (\E x \in lines_from_file(f) : line(f, x) = Subscribed) <=> HasSubscribed(f)
<1>1. ASSUME NEW x \in lines_from_file(f), line(f, x) = Subscribed
      PROVE  HasSubscribed(f)
  <2>1. x[1] \in 1 .. Len(f) /\ x[2] \in x[1] .. Len(f) /\ Boundary(f, x[1] - 1) /\ Len(f) \in Nat
    BY LineFacts, TextFacts
  <2>2. Len(line(f, x)) = 2 /\ line(f, x)[1] = "subsc" /\ line(f, x)[2] = "ribed"
    BY <1>1 DEF Subscribed
  <2>3. x[2] = x[1] + 1
    <3>1. Len(line(f, x)) = x[2] - x[1] + 1
      BY LineCells
    <3>2. x[1] \in Nat /\ x[2] \in Nat
      BY <2>1
    <3>3. 2 = x[2] - x[1] + 1
      BY <2>2, <3>1
    <3> QED BY <3>2, <3>3
  <2>4. f[x[1]] = "subsc" /\ f[x[1] + 1] = "ribed"
    <3>1. /\ 1 \in 1 .. x[2] - x[1] + 1 /\ x[1] + 1 - 1 = x[1]
          /\ 2 \in 1 .. x[2] - x[1] + 1 /\ x[1] + 2 - 1 = x[1] + 1
      BY <2>1, <2>3
    <3> QED BY <2>2, <3>1, LineCells
  <2> QED BY <2>1, <2>3, <2>4 DEF HasSubscribed
<1>2. ASSUME NEW k \in 1 .. Len(f) - 1, f[k] = "subsc", f[k + 1] = "ribed", Boundary(f, k - 1)
      PROVE  <<k, k + 1>> \in lines_from_file(f) /\ line(f, <<k, k + 1>>) = Subscribed
  <2>1. k \in 1 .. Len(f) /\ k + 1 \in k .. Len(f) /\ Len(f) \in Nat /\ k .. (k + 1) - 1 = {k}
    BY TextFacts
  <2>2. <<k, k + 1>> \in lines_from_file(f)
    BY <1>2, <2>1, IsALine DEF LineEnds
  <2>3. /\ line(f, <<k, k + 1>>) \in Seq(AnyCells) /\ Len(line(f, <<k, k + 1>>)) = 2
        /\ line(f, <<k, k + 1>>)[1] = f[k] /\ line(f, <<k, k + 1>>)[2] = f[k + 1]
    <3> DEFINE x == <<k, k + 1>>
    <3>1. x \in lines_from_file(f) /\ x[1] = k /\ x[2] = k + 1 /\ x[2] - x[1] + 1 = 2 /\ x[1] + 1 - 1 = k /\ x[1] + 2 - 1 = k + 1
      BY <2>1, <2>2
    <3> HIDE DEF x
    <3>2. line(f, x) \in Seq(AnyCells) /\ Len(line(f, x)) = 2 /\ line(f, x)[1] = f[k] /\ line(f, x)[2] = f[k + 1]
      <4>1. 1 \in 1 .. x[2] - x[1] + 1 /\ 2 \in 1 .. x[2] - x[1] + 1
        BY <3>1
      <4> QED BY <3>1, <4>1, LineCells
    <3> QED BY <3>2 DEF x
  <2> QED BY <1>2, <2>2, <2>3 DEF Subscribed
<1> QED BY <1>1, <1>2 DEF HasSubscribed

\* What a write makes of a text.
Written(f, from, l, g) ==
         /\ from \in Nat /\ Len(f) \in Nat /\ Len(l) \in Nat \ {0} /\ g \in Texts
         /\ Len(g) = IF from + Len(l) > Len(f) THEN from + Len(l) ELSE Len(f)
         /\ \A k \in 1 .. Len(l) : g[from + k] = l[k]
         /\ \A k \in 1 .. Len(f) : k <= from \/ from + Len(l) < k => g[k] = f[k]
         /\ \A k \in Len(f) + 1 .. from : g[k] = Nul

LEMMA OverwriteFacts ==
  ASSUME NEW f \in Texts, NEW at \in {End} \cup Nat, NEW l \in Lines
  PROVE  Written(f, IF at = End THEN Len(f) ELSE at, l, Overwrite(f, at, l))
<1> SUFFICES ASSUME NEW from, from = (IF at = End THEN Len(f) ELSE at), NEW g, g = Overwrite(f, at, l)
             PROVE  Written(f, from, l, g)
  OBVIOUS
<1>1. f \in Seq(Cells) /\ l \in Seq(Cells) /\ l # <<>> /\ l[Len(l)] \in LineEnds /\ (f # <<>> => f[Len(f)] \in LineEnds)
  BY DEF Texts, Lines
<1>2. Len(f) \in Nat /\ Len(l) \in Nat \ {0} /\ from \in Nat
  BY <1>1
<1> DEFINE to == from + Len(l)
           size == IF to > Len(f) THEN to ELSE Len(f)
           Cell(k) == IF k > from /\ k <= to THEN l[k - from] ELSE IF k <= Len(f) THEN f[k] ELSE Nul
<1>3. g = [k \in 1 .. size |-> Cell(k)]
  BY DEF Overwrite
<1>4. size \in Nat /\ to \in Nat /\ to >= 1 /\ size >= to /\ size >= Len(f)
  BY <1>2
<1>5. \A k \in 1 .. size : Cell(k) \in Cells
  <2> SUFFICES ASSUME NEW k \in 1 .. size PROVE Cell(k) \in Cells
    OBVIOUS
  <2>1. \A i \in 1 .. Len(f) : f[i] \in Cells
    BY <1>1
  <2>2. \A i \in 1 .. Len(l) : l[i] \in Cells
    BY <1>1
  <2>3. Nul \in Cells
    BY DEF Cells
  <2> QED BY <1>2, <1>4, <2>1, <2>2, <2>3
<1>6. g \in [1 .. size -> Cells]
  <2> HIDE DEF Cell, size
  <2> QED BY <1>3, <1>5
<1>7. g \in Seq(Cells) /\ Len(g) = size /\ \A k \in 1 .. size : g[k] = Cell(k)
  <2> HIDE DEF Cell, size
  <2> QED BY <1>3, <1>4, <1>6
<1>8. \A k \in 1 .. Len(l) : g[from + k] = l[k]
  <2> SUFFICES ASSUME NEW k \in 1 .. Len(l) PROVE g[from + k] = l[k]
    OBVIOUS
  <2>1. from + k \in 1 .. size /\ from + k > from /\ from + k <= to /\ (from + k) - from = k
    BY <1>2, <1>4
  <2> HIDE DEF size, to
  <2> QED BY <1>7, <2>1
<1>9. \A k \in 1 .. Len(f) : k <= from \/ to < k => g[k] = f[k]
  <2> SUFFICES ASSUME NEW k \in 1 .. Len(f), k <= from \/ to < k PROVE g[k] = f[k]
    OBVIOUS
  <2>1. k \in 1 .. size /\ ~(k > from /\ k <= to) /\ k <= Len(f)
    BY <1>2, <1>4
  <2> HIDE DEF size, to
  <2> QED BY <1>7, <2>1
<1>10. \A k \in Len(f) + 1 .. from : g[k] = Nul
  <2> SUFFICES ASSUME NEW k \in Len(f) + 1 .. from PROVE g[k] = Nul
    OBVIOUS
  <2>1. k \in 1 .. size /\ ~(k > from /\ k <= to) /\ ~(k <= Len(f))
    BY <1>2, <1>4
  <2> HIDE DEF size, to
  <2> QED BY <1>7, <2>1
<1>11. g[size] \in LineEnds
  <2>1. CASE to > Len(f)
    <3>1. size = from + Len(l) /\ Len(l) \in 1 .. Len(l)
      BY <1>2, <2>1
    <3> QED BY <1>1, <1>8, <3>1
  <2>2. CASE to <= Len(f)
    <3>1. size = Len(f) /\ Len(f) \in 1 .. Len(f) /\ (to = Len(f) \/ to < Len(f)) /\ f # <<>>
      BY <1>2, <1>4, <2>2, <1>1
    <3>2. CASE to < Len(f)
      BY <1>1, <1>9, <3>1, <3>2
    <3>3. CASE to = Len(f)
      <4>1. size = from + Len(l) /\ Len(l) \in 1 .. Len(l)
        BY <1>2, <3>1, <3>3
      <4> QED BY <1>1, <1>8, <4>1
    <3> QED BY <3>1, <3>2, <3>3
  <2> QED BY <1>2, <1>4, <2>1, <2>2
<1>12. g \in Texts
  <2> HIDE DEF size
  <2> QED BY <1>7, <1>11 DEF Texts
<1> QED BY <1>2, <1>7, <1>8, <1>9, <1>10, <1>12 DEF Written

\* An append leaves what there was and adds its line.
Appended(f, l, g) ==
  /\ g \in Texts /\ Len(f) \in Nat /\ Len(l) \in Nat \ {0} /\ Len(g) = Len(f) + Len(l)
  /\ \A k \in 1 .. Len(f) : g[k] = f[k]
  /\ \A k \in 1 .. Len(l) : g[Len(f) + k] = l[k]

LEMMA AppendFacts ==
  ASSUME NEW f \in Texts, NEW l \in Lines
  PROVE  Appended(f, l, Overwrite(f, End, l))
<1> SUFFICES ASSUME NEW g, g = Overwrite(f, End, l) PROVE Appended(f, l, g)
  OBVIOUS
<1>1. Written(f, IF End = End THEN Len(f) ELSE End, l, Overwrite(f, End, l))
  BY OverwriteFacts
<1>2. /\ Len(f) \in Nat /\ Len(l) \in Nat \ {0} /\ g \in Texts
      /\ Len(g) = IF Len(f) + Len(l) > Len(f) THEN Len(f) + Len(l) ELSE Len(f)
      /\ \A k \in 1 .. Len(l) : g[Len(f) + k] = l[k]
      /\ \A k \in 1 .. Len(f) : k <= Len(f) \/ Len(f) + Len(l) < k => g[k] = f[k]
  BY <1>1 DEF Written
<1>3. \A k \in 1 .. Len(f) : g[k] = f[k]
  BY <1>2
<1>4. Len(g) = Len(f) + Len(l)
  BY <1>2
<1> QED BY <1>2, <1>3, <1>4 DEF Appended

-----------------------------------------------------------------------------
(* Types *)

LEMMA KnownLines == Sent \in Lines /\ Subscribed \in Lines /\ <<>> \in Texts /\ <<>> \in Seq(Cells)
<1>1. Sent \in Seq(Cells) /\ Subscribed \in Seq(Cells) /\ <<>> \in Seq(Cells)
  BY DEF Sent, Subscribed, Cells
<1>2. Len(Sent) = 1 /\ Sent[1] = "sent" /\ Len(Subscribed) = 2 /\ Subscribed[1] = "subsc" /\ Subscribed[2] = "ribed"
  BY DEF Sent, Subscribed
<1>3. Sent # <<>> /\ Subscribed # <<>>
  BY DEF Sent, Subscribed
<1>4. Sent \in Lines
  <2>1. Len(Sent) - 1 = 0 /\ Sent[Len(Sent)] \in LineEnds
    BY <1>2 DEF LineEnds
  <2>2. \A k \in 1 .. 0 : FALSE
    OBVIOUS
  <2> QED BY <1>1, <1>3, <2>1, <2>2 DEF Lines
<1>5. Subscribed[1] \notin LineEnds /\ Subscribed[2] \in LineEnds
  BY <1>2 DEF LineEnds
<1>6. Subscribed \in Lines
  <2>1. \A k \in 1 .. Len(Subscribed) - 1 : k = 1
    BY <1>2
  <2> QED BY <1>1, <1>2, <1>3, <1>5, <2>1 DEF Lines
<1> QED BY <1>1, <1>4, <1>6 DEF Texts

LEMMA NoFileIsNoText == NoFile \notin Texts
<1>1. NoFile[1] = "no file" /\ Len(NoFile) = 1
  BY DEF NoFile
<1>2. ASSUME NoFile \in Seq(Cells) PROVE FALSE
  <2>1. NoFile[1] \in Cells
    <3>0. 1 \in 1 .. 1
      OBVIOUS
    <3>1. 1 \in 1 .. Len(NoFile)
      BY <1>1, <3>0, Zenon
    <3> QED BY <1>2, <3>1, ElementOfSeq
  <2> QED BY <1>1, <2>1 DEF Cells, Nul
<1> QED BY <1>2 DEF Texts

LEMMA LinesAreTexts == ASSUME NEW f \in Texts, NEW l \in Lines PROVE f \o l \in Texts
<1>1. f \in Seq(Cells) /\ l \in Seq(Cells) /\ l # <<>> /\ l[Len(l)] \in LineEnds
  BY DEF Texts, Lines
<1>2. /\ f \o l \in Seq(Cells) /\ Len(f \o l) = Len(f) + Len(l)
      /\ \A k \in 1 .. Len(f) + Len(l) : (f \o l)[k] = IF k <= Len(f) THEN f[k] ELSE l[k - Len(f)]
  BY <1>1, ConcatProperties
<1>3. /\ Len(f) + Len(l) \in 1 .. Len(f) + Len(l) /\ ~(Len(f) + Len(l) <= Len(f))
      /\ (Len(f) + Len(l)) - Len(f) = Len(l)
  BY <1>1
<1>4. (f \o l)[Len(f \o l)] = l[Len(l)]
  BY <1>2, <1>3
<1> QED BY <1>1, <1>2, <1>4 DEF Texts

LEMMA BeforeFacts == Before \subseteq Texts \cup {NoFile}
<1>1. Sent \in Texts /\ Subscribed \in Texts
  BY KnownLines DEF Lines, Texts
<1>2. Sent \o Subscribed \in Texts /\ Subscribed \o Sent \in Texts
  BY <1>1, KnownLines, LinesAreTexts
<1>3. Sent \o Subscribed \o Subscribed \in Texts
  BY <1>2, KnownLines, LinesAreTexts
<1>4. <<"sent", "ribed">> \in Texts
  BY DEF Texts, Cells, LineEnds
<1> QED BY <1>1, <1>2, <1>3, <1>4, KnownLines DEF Before

LEMMA IdleFacts == Idle \in Sessions /\ retain(<<>>) = {}
<1>1. Idle \in Sessions
  BY KnownLines DEF Idle, Sessions, PCs, Cmds, Adds
<1>2. retain(<<>>) = {}
  BY DEF retain, lines_from_file
<1> QED BY <1>1, <1>2

\* The words of the session record that a proof asks for.
LEMMA SessionFacts ==
  ASSUME TypeInv, NEW n \in Conns
  PROVE  /\ c[n] \in Sessions /\ c[n].pc \in PCs /\ c[n].cmd \in Cmds /\ c[n].no \in Nat /\ c[n].add \in Adds
         /\ c[n].text \in Texts /\ c[n].lines \in SUBSET (Nat \X Nat) /\ c[n].at \in Nat
         /\ c[n].gone \in BOOLEAN /\ c[n].value \in Nat /\ c[n].clean \in BOOLEAN /\ c[n].expect \in Nat
<1>1. c[n] \in Sessions
  BY DEF TypeInv
<1> QED BY <1>1 DEF Sessions

\* One connection's part of c changes.
LEMMA StepFacts ==
  ASSUME TypeInv, NEW n \in Conns, NEW s, Step(n, s)
  PROVE  /\ c'[n] = s /\ \A m \in Conns \ {n} : c'[m] = c[m]
         /\ s \in Sessions => c' \in [Conns -> Sessions]
<1>1. c \in [Conns -> Sessions] /\ c' = [c EXCEPT ![n] = s]
  BY DEF TypeInv, Step
<1> QED BY <1>1

\* A command begins: it gets its number, and the others may lose what they
\* would have been answered.
Fresh(next, cmd) == [next EXCEPT !.cmd = cmd, !.no = commands + 1, !.clean = (Running \cap Undoes(cmd) = {})]

LEMMA BeginFacts ==
  ASSUME TypeInv, NEW n \in Conns, NEW cmd \in Cmds, NEW next \in Sessions, Begin(n, cmd, next)
  PROVE  /\ c' \in [Conns -> Sessions] /\ commands' \in Nat
         /\ c'[n] = Fresh(next, cmd)
         /\ \A m \in Conns \ {n} : c'[m] = [c[m] EXCEPT !.clean = @ /\ cmd \notin Undoes(c[m].cmd)]
         /\ known' \in {"unknown", "subscribed", "unsubscribed"}
         /\ UNCHANGED <<dir, flags, validity, writes, settled, crashes>>
<1> DEFINE New == Fresh(next, cmd)
           Other(m) == [c[m] EXCEPT !.clean = @ /\ cmd \notin Undoes(c[m].cmd)]
<1>1. c' = [m \in Conns |-> IF m = n THEN New ELSE Other(m)]
  BY DEF Begin, Fresh
<1>2. commands \in Nat /\ commands' = commands + 1
  BY DEF Begin, TypeInv
<1>3. New \in Sessions
  <2>1. commands + 1 \in Nat /\ (Running \cap Undoes(cmd) = {}) \in BOOLEAN
    BY <1>2
  <2> QED BY <2>1 DEF Sessions, Fresh
<1>4. \A m \in Conns : Other(m) \in Sessions
  <2> SUFFICES ASSUME NEW m \in Conns PROVE Other(m) \in Sessions
    OBVIOUS
  <2>1. c[m] \in Sessions /\ (c[m].clean /\ cmd \notin Undoes(c[m].cmd)) \in BOOLEAN
    BY SessionFacts
  <2> QED BY <2>1 DEF Sessions
<1>5. /\ c' \in [Conns -> Sessions] /\ c'[n] = New
      /\ \A m \in Conns \ {n} : c'[m] = Other(m)
  <2> HIDE DEF New, Other
  <2> QED BY <1>1, <1>3, <1>4
<1>6. known \in {"unknown", "subscribed", "unsubscribed"}
  BY DEF TypeInv
<1>7. known' = known \/ known' = "unknown"
  BY DEF Begin
<1>8. UNCHANGED <<dir, flags, validity, writes, settled, crashes>>
  BY DEF Begin
<1>9. known' \in {"unknown", "subscribed", "unsubscribed"} /\ commands' \in Nat
  BY <1>2, <1>6, <1>7
<1> QED BY <1>5, <1>8, <1>9

\* Where each command starts.
Starts(n, cmd) ==
  {s \in Sessions :
     /\ s.text = <<>> /\ s.lines = {} /\ s.at = 0 /\ ~s.gone
     /\ cmd \in Adding => s.pc \in {"mkdir", "add"} /\ s.expect = 0
     /\ cmd = "SUBSCRIBE" => s.add \in {Both, <<Subscribed>>} /\ s.expect = 0
     /\ cmd = "UNSUBSCRIBE" => s.pc = (IF dir = "none" THEN "add" ELSE "read lines") /\ s.add = <<>> /\ s.expect = 0
     /\ cmd = "STATUS" => /\ s.add = <<>> /\ s.expect = settled
                          /\ IF validity = None THEN s.pc = "make parent" /\ s.value \in Times ELSE s.pc = "read value"
     /\ cmd = "DELETE" => s.pc = "remove entries" /\ s.add = <<>> /\ s.expect = 0}

LEMMA CommandFacts ==
  ASSUME TypeInv, NEW n \in Conns, Command(n)
  PROVE  \E cmd \in Cmds \ {"none"} : \E s \in Starts(n, cmd) :
           /\ Begin(n, cmd, s)
           /\ cmd = "DELETE" => dir # "none" /\ ~HasEntries
           /\ special' = IF cmd = "UNSUBSCRIBE" THEN Sent \in get_flags /\ "UNSUBSCRIBE" \notin Running ELSE special
<1>0. Times \subseteq Nat /\ settled \in Nat
  BY TimesAssumption DEF TypeInv
<1>1. CASE SUBSCRIBE(n)
  <2>1. PICK s : s = (IF dir = "none" THEN Add("mkdir", Both) ELSE Add("add", <<Subscribed>>))
    OBVIOUS
  <2>2. s \in Starts(n, "SUBSCRIBE")
    BY <2>1, IdleFacts DEF Starts, Add, Idle, Sessions, PCs, Adds, Adding
  <2> QED BY <1>1, <2>1, <2>2 DEF SUBSCRIBE, Cmds
<1>2. CASE CREATE(n)
  <2>1. Add("mkdir", Both) \in Starts(n, "CREATE")
    BY IdleFacts DEF Starts, Add, Idle, Sessions, PCs, Adds, Adding
  <2> QED BY <1>2, <2>1 DEF CREATE, Cmds
<1>3. CASE APPEND(n)
  <2>1. PICK s : s = Add("mkdir", IF dir = "none" THEN Both ELSE <<>>)
    OBVIOUS
  <2>2. s \in Starts(n, "APPEND")
    BY <2>1, IdleFacts DEF Starts, Add, Idle, Sessions, PCs, Adds, Adding
  <2> QED BY <1>3, <2>1, <2>2 DEF APPEND, Cmds
<1>4. CASE UNSUBSCRIBE(n)
  <2>1. PICK s : s = [Idle EXCEPT !.pc = IF dir = "none" THEN "add" ELSE "read lines"]
    OBVIOUS
  <2>2. s \in Starts(n, "UNSUBSCRIBE")
    BY <2>1, IdleFacts DEF Starts, Idle, Sessions, PCs, Adds, Adding
  <2> QED BY <1>4, <2>1, <2>2 DEF UNSUBSCRIBE, Cmds
<1>5. CASE STATUS(n)
  <2>1. CASE Missing
    <3>1. PICK now \in Times : Begin(n, "STATUS", [Idle EXCEPT !.pc = "make parent", !.value = now, !.expect = settled])
      BY <1>5, <2>1 DEF STATUS
    <3>2. [Idle EXCEPT !.pc = "make parent", !.value = now, !.expect = settled] \in Starts(n, "STATUS")
      BY <1>0, <2>1, IdleFacts DEF Starts, Idle, Sessions, PCs, Adds, Adding, Missing
    <3>3. special' = special /\ "STATUS" \in Cmds \ {"none"} /\ "STATUS" \notin {"DELETE", "UNSUBSCRIBE"}
      BY <1>5 DEF STATUS, Cmds
    <3> QED BY <3>1, <3>2, <3>3, Zenon
  <2>2. CASE ~Missing
    <3>1. [Idle EXCEPT !.pc = "read value", !.expect = settled] \in Starts(n, "STATUS")
      BY <1>0, <2>2, IdleFacts DEF Starts, Idle, Sessions, PCs, Adds, Adding, Missing
    <3>2. special' = special /\ "STATUS" \in Cmds \ {"none"} /\ "STATUS" \notin {"DELETE", "UNSUBSCRIBE"}
      BY <1>5 DEF STATUS, Cmds
    <3>3. Begin(n, "STATUS", [Idle EXCEPT !.pc = "read value", !.expect = settled])
      BY <1>5, <2>2 DEF STATUS
    <3> QED BY <3>1, <3>2, <3>3, Zenon
  <2> QED BY <2>1, <2>2
<1>6. CASE DELETE(n)
  <2>1. [Idle EXCEPT !.pc = "remove entries"] \in Starts(n, "DELETE")
    BY IdleFacts DEF Starts, Idle, Sessions, PCs, Adds, Adding
  <2>2. special' = special /\ "DELETE" \in Cmds \ {"none"} /\ "DELETE" # "UNSUBSCRIBE"
    BY <1>6 DEF DELETE, Cmds
  <2>3. Begin(n, "DELETE", [Idle EXCEPT !.pc = "remove entries"]) /\ dir # "none" /\ ~HasEntries
    BY <1>6 DEF DELETE
  <2> QED BY <2>1, <2>2, <2>3, Zenon
<1> QED BY <1>1, <1>2, <1>3, <1>4, <1>5, <1>6 DEF Command

-----------------------------------------------------------------------------
(* Every step keeps the types *)

\* The flags of a new folder, one after the other.
LEMMA AddFacts ==
  ASSUME NEW a \in Adds, a # <<>>
  PROVE  /\ Tail(a) \in Adds /\ Head(a) \in {Sent, Subscribed} /\ Head(a) \in Lines
         /\ Tail(a) = <<>> => Head(a) = Subscribed
<1>1. CASE a = Both
  <2>1. Tail(a) = <<Subscribed>> /\ Head(a) = Sent
    BY <1>1 DEF Both
  <2>2. <<Subscribed>> # <<>>
    OBVIOUS
  <2> QED BY <2>1, <2>2, KnownLines DEF Adds
<1>2. CASE a = <<Subscribed>>
  <2>1. Tail(a) = <<>> /\ Head(a) = Subscribed
    BY <1>2
  <2> QED BY <2>1, KnownLines DEF Adds
<1> QED BY <1>1, <1>2 DEF Adds

LEMMA ServerTypes ==
  ASSUME TypeInv, SessionInv, FileInv, NEW n \in Conns, ServerStep(n)
  PROVE  TypeInv'
<1>0. c[n] \in Sessions /\ Idle \in Sessions
  BY SessionFacts, IdleFacts
<1>1. CASE create_dirs(n)
  <2>1. [c[n] EXCEPT !.pc = "subdirs"] \in Sessions
    BY SessionFacts DEF Sessions, PCs
  <2> QED BY <1>1, <2>1, StepFacts DEF create_dirs, TypeInv, Dirs, history
<1>2. CASE Subdirs(n)
  <2>1. [c[n] EXCEPT !.pc = "add"] \in Sessions
    BY SessionFacts DEF Sessions, PCs
  <2> QED BY <1>2, <2>1, StepFacts DEF Subdirs, TypeInv, Dirs, history
<1>3. CASE add_flag(n)
  <2>1. c[n].add # <<>> /\ c[n].add \in Adds
    BY <1>3, SessionFacts DEF add_flag
  <2>2. Tail(c[n].add) \in Adds
    BY <2>1, AddFacts
  <2>3. [c[n] EXCEPT !.add = Tail(@)] \in Sessions /\ [c[n] EXCEPT !.pc = "append"] \in Sessions
    BY <2>2, SessionFacts DEF Sessions, PCs
  <2> QED BY <1>3, <2>3, StepFacts DEF add_flag, TypeInv, history
<1>4. CASE AppendLine(n)
  <2>1. c[n].add # <<>> /\ c[n].add \in Adds
    BY <1>4, SessionFacts DEF AppendLine, SessionInv, Fits, At
  <2>2. Tail(c[n].add) \in Adds /\ Head(c[n].add) \in Lines
    BY <2>1, AddFacts
  <2>3. [c[n] EXCEPT !.pc = "add", !.add = Tail(@)] \in Sessions
    BY <2>2, SessionFacts DEF Sessions, PCs
  <2>4. Write(n, Position, Head(c[n].add)) \in [cmd : Cmds, no : Nat, at : {End} \cup Nat, line : Lines]
    BY <2>2, SessionFacts DEF Write, Position
  <2>5. flags' \in Texts \cup {NoFile}
    BY <1>4, KnownLines DEF AppendLine, TypeInv
  <2>6. c' \in [Conns -> Sessions]
    BY <1>4, <2>3, StepFacts DEF AppendLine
  <2> QED BY <1>4, <2>4, <2>5, <2>6 DEF AppendLine, TypeInv, history
<1>5. CASE Added(n)
  BY <1>0, <1>5, StepFacts DEF Added, Answer, TypeInv
<1>6. CASE remove_flag(n)
  <2>1. flags \in Texts
    BY <1>6 DEF remove_flag, TypeInv
  <2>2. retain(flags) \in SUBSET (Nat \X Nat)
    <3>1. \A x \in lines_from_file(flags) : x \in Nat \X Nat
      BY <2>1, LineFacts DEF AnyText
    <3> QED BY <3>1 DEF retain
  <2>3. [c[n] EXCEPT !.pc = "truncate", !.text = flags, !.lines = retain(flags)] \in Sessions
    BY <2>1, <2>2, SessionFacts DEF Sessions, PCs
  <2> QED BY <1>6, <2>3, StepFacts DEF remove_flag, TypeInv, history
<1>7. CASE Truncate(n)
  <2>1. [c[n] EXCEPT !.pc = "rewrite"] \in Sessions
    BY SessionFacts DEF Sessions, PCs
  <2> QED BY <1>7, <2>1, KnownLines, StepFacts DEF Truncate, TypeInv, history
<1>8. CASE Rewrite(n)
  <2>1. PICK x \in c[n].lines :
          /\ writes' = IF c[n].gone THEN writes ELSE writes \cup {Write(n, c[n].at, line(c[n].text, x))}
          /\ Step(n, [c[n] EXCEPT !.lines = @ \ {x}, !.at = @ + 1 + x[2] - x[1]])
    BY <1>8 DEF Rewrite
  <2>2. x \in lines_from_file(c[n].text) /\ c[n].text \in Texts /\ c[n].at \in Nat /\ c[n].lines \in SUBSET (Nat \X Nat)
    BY <2>1, SessionFacts DEF SessionInv, Fits, retain
  <2>3. line(c[n].text, x) \in Lines
    BY <2>2, LineIsOne
  <2>4. c[n].at + 1 + x[2] - x[1] \in Nat
    <3>1. x[1] \in 1 .. Len(c[n].text) /\ x[2] \in x[1] .. Len(c[n].text) /\ Len(c[n].text) \in Nat
      BY <2>2, LineFacts, TextFacts DEF AnyText
    <3> QED BY <2>2, <3>1
  <2>5. [c[n] EXCEPT !.lines = @ \ {x}, !.at = @ + 1 + x[2] - x[1]] \in Sessions
    BY <2>2, <2>4, SessionFacts DEF Sessions
  <2>6. Write(n, c[n].at, line(c[n].text, x)) \in [cmd : Cmds, no : Nat, at : {End} \cup Nat, line : Lines]
    BY <2>2, <2>3, SessionFacts DEF Write
  <2>7. c' \in [Conns -> Sessions]
    BY <2>1, <2>5, StepFacts
  <2>8. writes' \subseteq [cmd : Cmds, no : Nat, at : {End} \cup Nat, line : Lines]
    BY <2>1, <2>6 DEF TypeInv
  <2> QED BY <1>8, <2>7, <2>8 DEF Rewrite, TypeInv, history
<1>9. CASE Removed(n)
  BY <1>0, <1>9, StepFacts DEF Removed, Answer, TypeInv
<1>10. CASE ReadValue(n)
  <2>1. Parse(validity) \in Nat
    BY <1>10, TimesAssumption DEF ReadValue, TypeInv, Parse, Empty
  <2> QED BY <1>0, <1>10, <2>1, StepFacts DEF ReadValue, Tell, TypeInv
<1>11. CASE create_dir_all(n)
  <2>1. [c[n] EXCEPT !.pc = "create"] \in Sessions
    BY SessionFacts DEF Sessions, PCs
  <2> QED BY <1>11, <2>1, StepFacts DEF create_dir_all, TypeInv, Dirs, history
<1>12. CASE CreateFile(n)
  <2>1. [c[n] EXCEPT !.pc = "write value"] \in Sessions
    BY SessionFacts DEF Sessions, PCs
  <2> QED BY <1>12, <2>1, StepFacts DEF CreateFile, TypeInv, history
<1>13. CASE WriteValue(n)
  <2>2. c[n].value \in Times /\ c[n].value \in Nat
    BY <1>13, SessionFacts DEF WriteValue, At, SessionInv, Fits
  <2> QED BY <1>0, <1>13, <2>2, StepFacts DEF WriteValue, Tell, TypeInv
<1>14. CASE RemoveEntries(n)
  <2> DEFINE Mine == [c[n] EXCEPT !.pc = "remove directory"]
             Other(m) == [c[m] EXCEPT !.gone = @ \/ c[m].pc \in {"rewrite", "write value"}, !.expect = 0]
  <2>1. Mine \in Sessions
    BY SessionFacts DEF Sessions, PCs
  <2>2. \A m \in Conns : Other(m) \in Sessions
    <3> SUFFICES ASSUME NEW m \in Conns PROVE Other(m) \in Sessions
      OBVIOUS
    <3>1. c[m] \in Sessions /\ (c[m].gone \/ c[m].pc \in {"rewrite", "write value"}) \in BOOLEAN
      BY SessionFacts
    <3> QED BY <3>1 DEF Sessions
  <2>3. c' = [m \in Conns |-> IF m = n THEN Mine ELSE Other(m)]
    BY <1>14 DEF RemoveEntries
  <2>4. c' \in [Conns -> Sessions]
    <3> HIDE DEF Mine, Other
    <3> QED BY <2>1, <2>2, <2>3
  <2> QED BY <1>14, <2>4 DEF RemoveEntries, TypeInv, Dirs
<1>15. CASE RemoveDirectory(n)
  BY <1>0, <1>15, StepFacts DEF RemoveDirectory, Answer, TypeInv, Dirs
<1>16. CASE Fails(n)
  BY <1>0, <1>16, StepFacts DEF Fails, Fail, TypeInv, history
<1> QED BY <1>1, <1>2, <1>3, <1>4, <1>5, <1>6, <1>7, <1>8, <1>9, <1>10, <1>11, <1>12, <1>13, <1>14, <1>15, <1>16 DEF ServerStep

LEMMA LandFacts ==
  ASSUME TypeInv, FileInv, NEW w \in writes, Land(w)
  PROVE  /\ flags \in Texts /\ flags' = Overwrite(flags, w.at, w.line) /\ flags' \in Texts
         /\ w.at \in {End} \cup Nat /\ w.line \in Lines /\ writes' = writes \ {w}
<1>1. flags \in Texts /\ w.at \in {End} \cup Nat /\ w.line \in Lines
  BY DEF TypeInv, FileInv
<1>2. Written(flags, IF w.at = End THEN Len(flags) ELSE w.at, w.line, Overwrite(flags, w.at, w.line))
  BY <1>1, OverwriteFacts
<1> QED BY <1>1, <1>2 DEF Land, Written

LEMMA TypeNext == ASSUME TypeInv, SessionInv, FileInv, Next PROVE TypeInv'
<1>1. ASSUME NEW n \in Conns, Command(n) PROVE TypeInv'
  <2>1. PICK cmd \in Cmds, s \in Sessions :
          Begin(n, cmd, s) /\ (special' = special \/ special' = (Sent \in get_flags /\ "UNSUBSCRIBE" \notin Running))
    BY <1>1, CommandFacts DEF Starts
  <2>2. /\ c' \in [Conns -> Sessions] /\ commands' \in Nat
        /\ known' \in {"unknown", "subscribed", "unsubscribed"}
        /\ UNCHANGED <<dir, flags, validity, writes, settled, crashes>>
    BY <2>1, BeginFacts
  <2>3. special' \in BOOLEAN
    BY <2>1 DEF TypeInv
  <2> QED BY <2>2, <2>3 DEF TypeInv
<1>2. ASSUME NEW n \in Conns, ServerStep(n) PROVE TypeInv'
  BY <1>2, ServerTypes
<1>3. ASSUME NEW w \in writes, Land(w) PROVE TypeInv'
  BY <1>3, LandFacts DEF Land, TypeInv, history
<1>4. CASE Crash
  BY <1>4, IdleFacts DEF Crash, TypeInv
<1> QED BY <1>1, <1>2, <1>3, <1>4 DEF Next

-----------------------------------------------------------------------------
(* Every step keeps the connections in order *)

LEMMA StartsFit ==
  ASSUME TypeInv, NEW n \in Conns, NEW cmd \in Cmds \ {"none"}, NEW s \in Starts(n, cmd), NEW t \in Sessions,
         t.cmd = cmd, t.pc = s.pc, t.add = s.add, t.text = s.text, t.lines = s.lines, t.at = s.at,
         t.gone = s.gone, t.value = s.value, t.expect = s.expect
  PROVE  Fits(t)
  BY DEF Starts, Cmds, Fits, Adding

LEMMA SessionServer ==
  ASSUME TypeInv, SessionInv, NEW n \in Conns, ServerStep(n)
  PROVE  SessionInv'
<1>0. c[n] \in Sessions /\ Fits(c[n]) /\ Fits(Idle) /\ \A m \in Conns : Fits(c[m])
  <2>1. Fits(Idle)
    BY IdleFacts DEF Fits, Idle, Adding
  <2> QED BY <2>1, SessionFacts DEF SessionInv
<1>1. CASE create_dirs(n)
  <2>1. PICK s : s = [c[n] EXCEPT !.pc = "subdirs"]
    OBVIOUS
  <2>2. Fits(s)
    BY <1>0, <1>1, <2>1 DEF create_dirs, At, Fits, Sessions
  <2> QED BY <1>0, <1>1, <2>1, <2>2, StepFacts DEF create_dirs, SessionInv
<1>2. CASE Subdirs(n)
  <2>1. PICK s : s = [c[n] EXCEPT !.pc = "add"]
    OBVIOUS
  <2>2. Fits(s)
    BY <1>0, <1>2, <2>1 DEF Subdirs, At, Fits, Sessions
  <2> QED BY <1>0, <1>2, <2>1, <2>2, StepFacts DEF Subdirs, SessionInv
<1>3. CASE add_flag(n)
  <2>1. PICK s, t : s = [c[n] EXCEPT !.add = Tail(@)] /\ t = [c[n] EXCEPT !.pc = "append"]
    OBVIOUS
  <2>2. Fits(s) /\ Fits(t)
    BY <1>0, <1>3, <2>1 DEF add_flag, At, Fits, Sessions, Adding
  <2>3. Step(n, s) \/ Step(n, t)
    BY <1>3, <2>1 DEF add_flag
  <2> QED BY <1>0, <2>2, <2>3, StepFacts DEF SessionInv
<1>4. CASE AppendLine(n)
  <2>1. PICK s : s = [c[n] EXCEPT !.pc = "add", !.add = Tail(@)]
    OBVIOUS
  <2>2. Fits(s)
    BY <1>0, <1>4, <2>1 DEF AppendLine, At, Fits, Sessions
  <2> QED BY <1>0, <1>4, <2>1, <2>2, StepFacts DEF AppendLine, SessionInv
<1>5. CASE Added(n)
  <2>1. Step(n, Idle)
    BY <1>5 DEF Added, Answer, Fail, Tell
  <2> QED BY <1>0, <2>1, StepFacts DEF SessionInv
<1>6. CASE remove_flag(n)
  <2>1. PICK s : s = [c[n] EXCEPT !.pc = "truncate", !.text = flags, !.lines = retain(flags)]
    OBVIOUS
  <2>2. Fits(s)
    BY <1>0, <1>6, <2>1 DEF remove_flag, At, Fits, Sessions
  <2> QED BY <1>0, <1>6, <2>1, <2>2, StepFacts DEF remove_flag, SessionInv
<1>7. CASE Truncate(n)
  <2>1. PICK s : s = [c[n] EXCEPT !.pc = "rewrite"]
    OBVIOUS
  <2>2. Fits(s)
    BY <1>0, <1>7, <2>1 DEF Truncate, At, Fits, Sessions
  <2> QED BY <1>0, <1>7, <2>1, <2>2, StepFacts DEF Truncate, SessionInv
<1>8. CASE Rewrite(n)
  <2>1. PICK x \in c[n].lines : Step(n, [c[n] EXCEPT !.lines = @ \ {x}, !.at = @ + 1 + x[2] - x[1]])
    BY <1>8 DEF Rewrite
  <2>2. PICK s : s = [c[n] EXCEPT !.lines = @ \ {x}, !.at = @ + 1 + x[2] - x[1]]
    OBVIOUS
  <2>3. Fits(s)
    BY <1>0, <1>8, <2>2 DEF Rewrite, At, Fits, Sessions
  <2> QED BY <1>0, <2>1, <2>2, <2>3, StepFacts DEF SessionInv
<1>9. CASE Removed(n)
  <2>1. Step(n, Idle)
    BY <1>9 DEF Removed, Answer, Fail, Tell
  <2> QED BY <1>0, <2>1, StepFacts DEF SessionInv
<1>10. CASE ReadValue(n)
  <2>1. Step(n, Idle)
    BY <1>10 DEF ReadValue, Answer, Fail, Tell
  <2> QED BY <1>0, <2>1, StepFacts DEF SessionInv
<1>11. CASE create_dir_all(n)
  <2>1. PICK s : s = [c[n] EXCEPT !.pc = "create"]
    OBVIOUS
  <2>2. Fits(s)
    BY <1>0, <1>11, <2>1 DEF create_dir_all, At, Fits, Sessions
  <2> QED BY <1>0, <1>11, <2>1, <2>2, StepFacts DEF create_dir_all, SessionInv
<1>12. CASE CreateFile(n)
  <2>1. PICK s : s = [c[n] EXCEPT !.pc = "write value"]
    OBVIOUS
  <2>2. Fits(s)
    BY <1>0, <1>12, <2>1 DEF CreateFile, At, Fits, Sessions
  <2> QED BY <1>0, <1>12, <2>1, <2>2, StepFacts DEF CreateFile, SessionInv
<1>13. CASE WriteValue(n)
  <2>1. Step(n, Idle)
    BY <1>13 DEF WriteValue, Answer, Fail, Tell
  <2> QED BY <1>0, <2>1, StepFacts DEF SessionInv
<1>14. CASE RemoveEntries(n)
  <2>1. Fits([c[n] EXCEPT !.pc = "remove directory"])
    BY <1>0, <1>14 DEF RemoveEntries, At, Fits, Sessions
  <2>2. ASSUME NEW m \in Conns
        PROVE  Fits([c[m] EXCEPT !.gone = @ \/ c[m].pc \in {"rewrite", "write value"}, !.expect = 0])
    BY <1>0, SessionFacts DEF Fits, Sessions
  <2>3. \A m \in Conns : \/ c'[m] = [c[n] EXCEPT !.pc = "remove directory"]
                         \/ c'[m] = [c[m] EXCEPT !.gone = @ \/ c[m].pc \in {"rewrite", "write value"}, !.expect = 0]
    BY <1>14 DEF RemoveEntries
  <2> QED BY <2>1, <2>2, <2>3 DEF SessionInv
<1>15. CASE RemoveDirectory(n)
  <2>1. Step(n, Idle)
    BY <1>15 DEF RemoveDirectory, Answer, Fail, Tell
  <2> QED BY <1>0, <2>1, StepFacts DEF SessionInv
<1>16. CASE Fails(n)
  <2>1. Step(n, Idle)
    BY <1>16 DEF Fails, Answer, Fail, Tell
  <2> QED BY <1>0, <2>1, StepFacts DEF SessionInv
<1> QED BY <1>1, <1>2, <1>3, <1>4, <1>5, <1>6, <1>7, <1>8, <1>9, <1>10, <1>11, <1>12, <1>13, <1>14, <1>15, <1>16 DEF ServerStep

\* What a connection carries out, whatever its number and its answer say.
SameWork(t, s) ==
  /\ t \in Sessions /\ t.pc = s.pc /\ t.add = s.add /\ t.text = s.text /\ t.lines = s.lines /\ t.at = s.at
  /\ t.gone = s.gone /\ t.value = s.value /\ t.expect = s.expect

\* A command begins: what it does to the state, field by field.
Begins(n, cmd, s) ==
  /\ At(n, "idle") /\ SameWork(c'[n], s) /\ c'[n].cmd = cmd /\ c'[n].clean = (Running \cap Undoes(cmd) = {})
  /\ \A m \in Conns \ {n} : /\ SameWork(c'[m], c[m]) /\ c'[m].cmd = c[m].cmd /\ c'[m].no = c[m].no
                            /\ c'[m].clean = (c[m].clean /\ cmd \notin Undoes(c[m].cmd))
  /\ known' = IF \/ known = "subscribed" /\ cmd = "UNSUBSCRIBE"
                 \/ known = "unsubscribed" /\ cmd \in Adding
                THEN "unknown" ELSE known
  /\ special' = IF cmd = "UNSUBSCRIBE" THEN Sent \in get_flags /\ "UNSUBSCRIBE" \notin Running ELSE special
  /\ cmd = "DELETE" => dir # "none" /\ ~HasEntries
  /\ UNCHANGED <<dir, flags, validity, writes, settled, crashes>>

LEMMA CommandSteps ==
  ASSUME TypeInv, NEW n \in Conns, Command(n)
  PROVE  \E cmd \in Cmds \ {"none"} : \E s \in Starts(n, cmd) : Begins(n, cmd, s)
<1>1. PICK cmd \in Cmds \ {"none"} : \E s \in Starts(n, cmd) :
           /\ Begin(n, cmd, s)
           /\ cmd = "DELETE" => dir # "none" /\ ~HasEntries
           /\ special' = IF cmd = "UNSUBSCRIBE" THEN Sent \in get_flags /\ "UNSUBSCRIBE" \notin Running ELSE special
  BY CommandFacts
<1>2. PICK s \in Starts(n, cmd) :
           /\ Begin(n, cmd, s)
           /\ cmd = "DELETE" => dir # "none" /\ ~HasEntries
           /\ special' = IF cmd = "UNSUBSCRIBE" THEN Sent \in get_flags /\ "UNSUBSCRIBE" \notin Running ELSE special
  BY <1>1
<1>3. s \in Sessions
  BY DEF Starts
<1> DEFINE clean == (Running \cap Undoes(cmd) = {})
<1>4. /\ c'[n] = Fresh(s, cmd)
      /\ \A m \in Conns \ {n} : c'[m] = [c[m] EXCEPT !.clean = @ /\ cmd \notin Undoes(c[m].cmd)]
      /\ c' \in [Conns -> Sessions]
      /\ UNCHANGED <<dir, flags, validity, writes, settled, crashes>>
  <2>1. Begin(n, cmd, s) /\ cmd \in Cmds
    BY <1>2
  <2>2. c'[n] = Fresh(s, cmd)
    BY <1>3, <2>1, BeginFacts
  <2>3. c' \in [Conns -> Sessions] /\ UNCHANGED <<dir, flags, validity, writes, settled, crashes>>
    BY <1>3, <2>1, BeginFacts
  <2>4. \A m \in Conns \ {n} : c'[m] = [c[m] EXCEPT !.clean = @ /\ cmd \notin Undoes(c[m].cmd)]
    BY <1>3, <2>1, BeginFacts
  <2> QED BY <2>2, <2>3, <2>4
<1>5. known' = IF \/ known = "subscribed" /\ cmd = "UNSUBSCRIBE"
                  \/ known = "unsubscribed" /\ cmd \in Adding
                 THEN "unknown" ELSE known
  BY <1>2 DEF Begin
<1>6. SameWork(c'[n], s) /\ c'[n].cmd = cmd /\ c'[n].clean = clean
  <2>1. PICK b, k : b = clean /\ k = commands + 1
    OBVIOUS
  <2>2. c'[n] = [s EXCEPT !.cmd = cmd, !.no = k, !.clean = b]
    BY <1>4, <2>1 DEF Fresh
  <2>3. c'[n] \in Sessions
    BY <1>4
  <2>4. SameWork(c'[n], s) /\ c'[n].cmd = cmd /\ c'[n].clean = b
    BY <1>3, <2>2, <2>3 DEF SameWork, Sessions
  <2> QED BY <2>1, <2>4
<1>7. ASSUME NEW m \in Conns \ {n}
      PROVE  /\ SameWork(c'[m], c[m]) /\ c'[m].cmd = c[m].cmd /\ c'[m].no = c[m].no
             /\ c'[m].clean = (c[m].clean /\ cmd \notin Undoes(c[m].cmd))
  <2>1. PICK b : b = (c[m].clean /\ cmd \notin Undoes(c[m].cmd))
    OBVIOUS
  <2>2. c'[m] = [c[m] EXCEPT !.clean = b] /\ c[m] \in Sessions /\ c'[m] \in Sessions
    BY <1>4, <2>1, SessionFacts
  <2>3. SameWork(c'[m], c[m]) /\ c'[m].cmd = c[m].cmd /\ c'[m].no = c[m].no /\ c'[m].clean = b
    BY <2>2 DEF SameWork, Sessions
  <2> QED BY <2>1, <2>3
<1>8. At(n, "idle")
  BY <1>2 DEF Begin
<1> QED BY <1>2, <1>4, <1>5, <1>6, <1>7, <1>8 DEF Begins

LEMMA SessionNext == ASSUME TypeInv, SessionInv, FileInv, Next PROVE SessionInv'
<1>1. ASSUME NEW n \in Conns, Command(n) PROVE SessionInv'
  <2>0. PICK cmd \in Cmds \ {"none"} : \E s \in Starts(n, cmd) : Begins(n, cmd, s)
    BY <1>1, CommandSteps
  <2>1. PICK s \in Starts(n, cmd) : Begins(n, cmd, s)
    BY <2>0
  <2>2. Fits(c'[n])
    BY <2>1, StartsFit DEF Begins, SameWork
  <2>3. \A m \in Conns \ {n} : Fits(c'[m])
    <3> SUFFICES ASSUME NEW m \in Conns \ {n} PROVE Fits(c'[m])
      OBVIOUS
    <3>1. Fits(c[m]) /\ SameWork(c'[m], c[m]) /\ c'[m].cmd = c[m].cmd
      BY <2>1 DEF SessionInv, Begins
    <3> QED BY <3>1 DEF Fits, SameWork
  <2> QED BY <2>2, <2>3 DEF SessionInv
<1>2. ASSUME NEW n \in Conns, ServerStep(n) PROVE SessionInv'
  BY <1>2, SessionServer
<1>3. ASSUME NEW w \in writes, Land(w) PROVE SessionInv'
  BY <1>3 DEF Land, SessionInv
<1>4. CASE Crash
  <2>1. Fits(Idle)
    BY IdleFacts DEF Fits, Idle, Adding
  <2> QED BY <1>4, <2>1 DEF Crash, SessionInv
<1> QED BY <1>1, <1>2, <1>3, <1>4 DEF Next

-----------------------------------------------------------------------------
(* Every step keeps the files in order *)

LEMMA RemoveFacts ==
  ASSUME TypeInv, NEW n \in Conns, RemoveEntries(n)
  PROVE  /\ c'[n] = [c[n] EXCEPT !.pc = "remove directory"]
         /\ \A m \in Conns \ {n} :
              /\ c'[m].pc = c[m].pc /\ c'[m].cmd = c[m].cmd /\ c'[m].no = c[m].no /\ c'[m].add = c[m].add
              /\ c'[m].text = c[m].text /\ c'[m].lines = c[m].lines /\ c'[m].at = c[m].at
              /\ c'[m].clean = c[m].clean /\ c'[m].expect = 0 /\ c'[m].value = c[m].value
              /\ c'[m].gone = (c[m].gone \/ c[m].pc \in {"rewrite", "write value"})
<1>1. c'[n] = [c[n] EXCEPT !.pc = "remove directory"]
  BY DEF RemoveEntries
<1>2. ASSUME NEW m \in Conns \ {n}
      PROVE  /\ c'[m].pc = c[m].pc /\ c'[m].cmd = c[m].cmd /\ c'[m].no = c[m].no /\ c'[m].add = c[m].add
             /\ c'[m].text = c[m].text /\ c'[m].lines = c[m].lines /\ c'[m].at = c[m].at
             /\ c'[m].clean = c[m].clean /\ c'[m].expect = 0 /\ c'[m].value = c[m].value
             /\ c'[m].gone = (c[m].gone \/ c[m].pc \in {"rewrite", "write value"})
  <2>1. PICK b : b = (c[m].gone \/ c[m].pc \in {"rewrite", "write value"})
    OBVIOUS
  <2>2. c'[m] = [c[m] EXCEPT !.gone = b, !.expect = 0] /\ c[m] \in Sessions
    BY <2>1, SessionFacts DEF RemoveEntries
  <2> QED BY <2>1, <2>2 DEF Sessions
<1> QED BY <1>1, <1>2

LEMMA FileServer ==
  ASSUME TypeInv, SessionInv, FileInv, NEW n \in Conns, ServerStep(n)
  PROVE  FileInv'
<1>0. c[n] \in Sessions /\ Fits(c[n]) /\ Idle.pc = "idle"
  BY SessionFacts DEF SessionInv, Idle
\* Steps that leave the files alone.
<1>a. ASSUME NEW s, Step(n, s), UNCHANGED <<dir, flags, validity, writes>>, s.pc \notin {"rewrite", "write value"}
      PROVE  FileInv'
  BY <1>a, StepFacts DEF FileInv, At
<1>b. ASSUME NEW s, Step(n, s), dir' # "none", UNCHANGED <<flags, validity, writes>>, s.pc \notin {"rewrite", "write value"}
      PROVE  FileInv'
  BY <1>b, StepFacts DEF FileInv, At
<1>1. CASE create_dirs(n)
  <2>1. PICK s : s = [c[n] EXCEPT !.pc = "subdirs"]
    OBVIOUS
  <2>2. s.pc = "subdirs"
    BY <1>0, <2>1 DEF Sessions
  <2> QED BY <1>1, <1>b, <2>1, <2>2 DEF create_dirs
<1>2. CASE Subdirs(n)
  <2>1. PICK s : s = [c[n] EXCEPT !.pc = "add"]
    OBVIOUS
  <2>2. s.pc = "add"
    BY <1>0, <2>1 DEF Sessions
  <2> QED BY <1>2, <1>b, <2>1, <2>2 DEF Subdirs
<1>3. CASE add_flag(n)
  <2>1. PICK s, t : s = [c[n] EXCEPT !.add = Tail(@)] /\ t = [c[n] EXCEPT !.pc = "append"]
    OBVIOUS
  <2>2. s.pc = "add" /\ t.pc = "append"
    BY <1>0, <1>3, <2>1 DEF add_flag, At, Sessions
  <2>3. Step(n, s) \/ Step(n, t)
    BY <1>3, <2>1 DEF add_flag
  <2> QED BY <1>3, <1>a, <2>2, <2>3 DEF add_flag
<1>4. CASE AppendLine(n)
  <2>1. PICK s : s = [c[n] EXCEPT !.pc = "add", !.add = Tail(@)]
    OBVIOUS
  <2>2. s.pc = "add" /\ Step(n, s)
    BY <1>0, <1>4, <2>1 DEF AppendLine, Sessions
  <2>3. PICK w : w = Write(n, Position, Head(c[n].add))
    OBVIOUS
  <2>4. w.cmd \in Adding /\ w.at = End /\ w.line \in {Sent, Subscribed}
    <3>1. c[n].add # <<>> /\ c[n].add \in Adds
      BY <1>0, <1>4, SessionFacts DEF AppendLine, At, Fits
    <3> QED BY <1>0, <2>3, <3>1, AddFacts DEF Write, Position, Fits
  <2>5. writes' = writes \cup {w} /\ flags' # NoFile /\ dir # "none" /\ UNCHANGED <<dir, validity>>
    BY <1>4, <2>3 DEF AppendLine, NoFile
  <2>6. \A x \in writes' : \/ x.cmd \in Adding /\ x.at = End /\ x.line \in {Sent, Subscribed}
                           \/ x.cmd = "UNSUBSCRIBE" /\ x.at \in Nat
    BY <2>4, <2>5 DEF FileInv
  <2>7. \A m \in Conns : ~c'[m].gone => /\ c'[m].pc = "rewrite" => flags' # NoFile
                                        /\ c'[m].pc = "write value" => validity' # None
    BY <2>2, <2>5, StepFacts DEF FileInv, At
  <2> QED BY <2>5, <2>6, <2>7 DEF FileInv, At
<1>5. CASE Added(n)
  BY <1>0, <1>5, <1>a DEF Added, Answer
<1>6. CASE remove_flag(n)
  <2>1. PICK s : s = [c[n] EXCEPT !.pc = "truncate", !.text = flags, !.lines = retain(flags)]
    OBVIOUS
  <2>2. s.pc = "truncate"
    BY <1>0, <2>1 DEF Sessions
  <2> QED BY <1>6, <1>a, <2>1, <2>2 DEF remove_flag
<1>7. CASE Truncate(n)
  <2>1. PICK s : s = [c[n] EXCEPT !.pc = "rewrite"]
    OBVIOUS
  <2>2. s.pc = "rewrite" /\ Step(n, s) /\ flags' # NoFile /\ UNCHANGED <<dir, validity, writes>> /\ dir # "none"
    BY <1>0, <1>7, <2>1 DEF Truncate, Sessions, NoFile
  <2>3. \A m \in Conns : ~c'[m].gone => /\ c'[m].pc = "rewrite" => flags' # NoFile
                                        /\ c'[m].pc = "write value" => validity' # None
    BY <2>2, StepFacts DEF FileInv, At
  <2> QED BY <2>2, <2>3 DEF FileInv, At
<1>8. CASE Rewrite(n)
  <2>1. PICK x \in c[n].lines :
          /\ writes' = IF c[n].gone THEN writes ELSE writes \cup {Write(n, c[n].at, line(c[n].text, x))}
          /\ Step(n, [c[n] EXCEPT !.lines = @ \ {x}, !.at = @ + 1 + x[2] - x[1]])
    BY <1>8 DEF Rewrite
  <2>2. PICK s : s = [c[n] EXCEPT !.lines = @ \ {x}, !.at = @ + 1 + x[2] - x[1]]
    OBVIOUS
  <2>3. s.pc = "rewrite" /\ s.gone = c[n].gone /\ Step(n, s)
    BY <1>0, <1>8, <2>1, <2>2 DEF Rewrite, At, Sessions
  <2>4. UNCHANGED <<dir, flags, validity>> /\ At(n, "rewrite")
    BY <1>8 DEF Rewrite
  <2>5. PICK w : w = Write(n, c[n].at, line(c[n].text, x))
    OBVIOUS
  <2>6. w.cmd = "UNSUBSCRIBE" /\ w.at \in Nat
    BY <1>0, <2>4, <2>5, SessionFacts DEF Write, At, Fits
  <2>7. \A m \in Conns : ~c'[m].gone => /\ c'[m].pc = "rewrite" => flags' # NoFile
                                        /\ c'[m].pc = "write value" => validity' # None
    BY <2>3, <2>4, StepFacts DEF FileInv, At
  <2>8. writes' = writes \/ (writes' = writes \cup {w} /\ flags # NoFile)
    BY <2>1, <2>4, <2>5 DEF FileInv
  <2>9. \A v \in writes' : \/ v.cmd \in Adding /\ v.at = End /\ v.line \in {Sent, Subscribed}
                           \/ v.cmd = "UNSUBSCRIBE" /\ v.at \in Nat
    BY <2>6, <2>8 DEF FileInv
  <2> QED BY <2>4, <2>7, <2>8, <2>9 DEF FileInv, At
<1>9. CASE Removed(n)
  BY <1>0, <1>9, <1>a DEF Removed, Answer
<1>10. CASE ReadValue(n)
  BY <1>0, <1>10, <1>a DEF ReadValue, Tell
<1>11. CASE create_dir_all(n)
  <2>1. PICK s : s = [c[n] EXCEPT !.pc = "create"]
    OBVIOUS
  <2>2. s.pc = "create"
    BY <1>0, <2>1 DEF Sessions
  <2> QED BY <1>11, <1>b, <2>1, <2>2 DEF create_dir_all
<1>12. CASE CreateFile(n)
  <2>1. PICK s : s = [c[n] EXCEPT !.pc = "write value"]
    OBVIOUS
  <2>2. s.pc = "write value" /\ Step(n, s) /\ validity' # None /\ UNCHANGED <<dir, flags, writes>> /\ dir # "none"
    <3>1. Empty # None
      BY DEF Empty, None
    <3> QED BY <1>0, <1>12, <2>1, <3>1 DEF CreateFile, Sessions
  <2>3. \A m \in Conns : ~c'[m].gone => /\ c'[m].pc = "rewrite" => flags' # NoFile
                                        /\ c'[m].pc = "write value" => validity' # None
    BY <2>2, StepFacts DEF FileInv, At
  <2> QED BY <2>2, <2>3 DEF FileInv, At
<1>13. CASE WriteValue(n)
  <2>1. Step(n, Idle) /\ UNCHANGED <<dir, flags, writes>> /\ At(n, "write value")
    BY <1>13 DEF WriteValue, Tell
  <2>2. c[n].value # None
    <3>1. c[n].value \in Nat
      BY SessionFacts
    <3> QED BY <3>1 DEF None
  <2>3. validity' = validity \/ (validity' = c[n].value /\ validity # None)
    BY <1>13 DEF WriteValue, FileInv
  <2>4. \A m \in Conns : ~c'[m].gone => /\ c'[m].pc = "rewrite" => flags' # NoFile
                                        /\ c'[m].pc = "write value" => validity' # None
    BY <1>0, <2>1, <2>2, <2>3, StepFacts DEF FileInv, At
  <2> QED BY <2>1, <2>2, <2>3, <2>4 DEF FileInv, At
<1>14. CASE RemoveEntries(n)
  <2>1. dir' = "bare" /\ writes' = {}
    BY <1>14 DEF RemoveEntries
  <2>2. c'[n].pc = "remove directory"
    BY <1>0, <1>14, RemoveFacts DEF Sessions
  <2>3. \A m \in Conns \ {n} : c'[m].pc \in {"rewrite", "write value"} => c'[m].gone
    BY <1>14, RemoveFacts
  <2> QED BY <2>1, <2>2, <2>3 DEF FileInv, At
<1>15. CASE RemoveDirectory(n)
  <2>1. flags = NoFile /\ validity = None /\ Step(n, Idle) /\ UNCHANGED <<flags, validity, writes>>
    BY <1>15 DEF RemoveDirectory, HasEntries, Answer
  <2> QED BY <1>0, <2>1, StepFacts DEF FileInv, At
<1>16. CASE Fails(n)
  BY <1>0, <1>16, <1>a DEF Fails, Fail
<1> QED BY <1>1, <1>2, <1>3, <1>4, <1>5, <1>6, <1>7, <1>8, <1>9, <1>10, <1>11, <1>12, <1>13, <1>14, <1>15, <1>16 DEF ServerStep

LEMMA FileNext == ASSUME TypeInv, SessionInv, FileInv, Next PROVE FileInv'
<1>1. ASSUME NEW n \in Conns, Command(n) PROVE FileInv'
  <2>0. PICK cmd \in Cmds \ {"none"} : \E s \in Starts(n, cmd) : Begins(n, cmd, s)
    BY <1>1, CommandSteps
  <2>1. PICK s \in Starts(n, cmd) : Begins(n, cmd, s)
    BY <2>0
  <2>2. c'[n].pc \notin {"rewrite", "write value"}
    BY <2>1 DEF Begins, SameWork, Starts, Cmds, Adding
  <2>3. \A m \in Conns \ {n} : c'[m].pc = c[m].pc /\ c'[m].gone = c[m].gone
    BY <2>1 DEF Begins, SameWork
  <2>4. UNCHANGED <<dir, flags, validity, writes>>
    BY <2>1 DEF Begins
  <2> QED BY <2>2, <2>3, <2>4 DEF FileInv, At
<1>2. ASSUME NEW n \in Conns, ServerStep(n) PROVE FileInv'
  BY <1>2, FileServer
<1>3. ASSUME TypeInv, NEW w \in writes, Land(w) PROVE FileInv'
  <2>1. flags \in Texts /\ flags' \in Texts /\ writes' = writes \ {w} /\ UNCHANGED <<dir, validity, c>>
    BY <1>3, LandFacts DEF Land
  <2>2. flags # NoFile /\ flags' # NoFile
    BY <2>1, NoFileIsNoText
  <2> QED BY <2>1, <2>2 DEF FileInv, At
<1>4. CASE Crash
  <2>1. writes' = {} /\ UNCHANGED <<dir, flags, validity>> /\ \A m \in Conns : c'[m].pc = "idle"
    BY <1>4 DEF Crash, Idle
  <2> QED BY <2>1 DEF FileInv, At
<1> QED BY <1>1, <1>2, <1>3, <1>4 DEF Next

-----------------------------------------------------------------------------
(* UIDVALIDITY *)

CreatingPcs == {"make parent", "create", "write value"}

LEMMA UidServer ==
  ASSUME TypeInv, SessionInv, FileInv, UidInv, NEW n \in Conns, ServerStep(n)
  PROVE  UidInv'
<1>0. c[n] \in Sessions /\ Fits(c[n]) /\ Idle.pc = "idle" /\ Idle.expect = 0
  BY SessionFacts DEF SessionInv, Idle
<1>i. /\ settled # 0 => validity # None /\ Parse(validity) = settled /\ \A m \in Conns : c[m].pc \notin CreatingPcs
      /\ \A m \in Conns : c[m].expect # 0 => c[m].expect = settled
  BY DEF UidInv, Creating, CreatingPcs
\* Steps that leave the value, and who creates it, alone.
<1>a. ASSUME NEW s, Step(n, s), UNCHANGED <<validity, settled>>, s.pc \in CreatingPcs => c[n].pc \in CreatingPcs,
             s.expect \in {0, c[n].expect}
      PROVE  UidInv'
  <2>1. \A m \in Conns : c'[m].pc \in CreatingPcs => c[m].pc \in CreatingPcs
    BY <1>a, StepFacts
  <2>2. \A m \in Conns : c'[m].expect = 0 \/ c'[m].expect = c[m].expect
    BY <1>a, StepFacts
  <2> QED BY <1>a, <1>i, <2>1, <2>2 DEF UidInv, Creating, CreatingPcs, Parse
<1>1. ASSUME NEW pc, pc \notin CreatingPcs \/ c[n].pc \in CreatingPcs, UNCHANGED <<validity, settled>>,
             Step(n, [c[n] EXCEPT !.pc = pc])
      PROVE  UidInv'
  <2>1. PICK s : s = [c[n] EXCEPT !.pc = pc]
    OBVIOUS
  <2>2. s.pc = pc /\ s.expect = c[n].expect
    BY <1>0, <2>1 DEF Sessions
  <2> QED BY <1>1, <1>a, <2>1, <2>2
<1>2. CASE create_dirs(n)
  BY <1>1, <1>2 DEF create_dirs, CreatingPcs, history
<1>3. CASE Subdirs(n)
  BY <1>1, <1>3 DEF Subdirs, CreatingPcs, history
<1>4. CASE Truncate(n)
  BY <1>1, <1>4 DEF Truncate, CreatingPcs, history
<1>5. CASE create_dir_all(n)
  BY <1>1, <1>5 DEF create_dir_all, CreatingPcs, history, At
<1>6. CASE Added(n) \/ Removed(n) \/ Fails(n) \/ RemoveDirectory(n)
  <2>1. Step(n, Idle) /\ UNCHANGED <<validity, settled>>
    BY <1>6 DEF Added, Removed, Fails, RemoveDirectory, Answer, Fail, history
  <2> QED BY <1>0, <1>a, <2>1 DEF CreatingPcs
<1>7. CASE add_flag(n)
  <2>1. PICK s, t : s = [c[n] EXCEPT !.add = Tail(@)] /\ t = [c[n] EXCEPT !.pc = "append"]
    OBVIOUS
  <2>2. s.pc = "add" /\ t.pc = "append" /\ s.expect = c[n].expect /\ t.expect = c[n].expect
    BY <1>0, <1>7, <2>1 DEF add_flag, At, Sessions
  <2>3. (Step(n, s) \/ Step(n, t)) /\ UNCHANGED <<validity, settled>>
    BY <1>7, <2>1 DEF add_flag, history
  <2> QED BY <1>a, <2>2, <2>3 DEF CreatingPcs
<1>8. CASE AppendLine(n)
  <2>1. PICK s : s = [c[n] EXCEPT !.pc = "add", !.add = Tail(@)]
    OBVIOUS
  <2>2. s.pc = "add" /\ s.expect = c[n].expect
    BY <1>0, <2>1 DEF Sessions
  <2> QED BY <1>8, <1>a, <2>1, <2>2 DEF AppendLine, CreatingPcs, history
<1>9. CASE remove_flag(n)
  <2>1. PICK s : s = [c[n] EXCEPT !.pc = "truncate", !.text = flags, !.lines = retain(flags)]
    OBVIOUS
  <2>2. s.pc = "truncate" /\ s.expect = c[n].expect
    BY <1>0, <2>1 DEF Sessions
  <2> QED BY <1>9, <1>a, <2>1, <2>2 DEF remove_flag, CreatingPcs, history
<1>10. CASE Rewrite(n)
  <2>1. PICK x \in c[n].lines : Step(n, [c[n] EXCEPT !.lines = @ \ {x}, !.at = @ + 1 + x[2] - x[1]])
    BY <1>10 DEF Rewrite
  <2>2. PICK s : s = [c[n] EXCEPT !.lines = @ \ {x}, !.at = @ + 1 + x[2] - x[1]]
    OBVIOUS
  <2>3. s.pc = c[n].pc /\ s.expect = c[n].expect
    BY <1>0, <2>2 DEF Sessions
  <2> QED BY <1>10, <1>a, <2>1, <2>2, <2>3 DEF Rewrite, history
<1>11. CASE ReadValue(n)
  <2>1. validity # None /\ UNCHANGED validity /\ Step(n, Idle) /\ c[n].pc \notin CreatingPcs /\ ~c[n].gone
    BY <1>0, <1>11 DEF ReadValue, Tell, At, CreatingPcs, Fits
  <2>2. settled' = IF \E m \in Conns \ {n} : c[m].pc \in CreatingPcs THEN settled ELSE Parse(validity)
    BY <1>11, <2>1 DEF ReadValue, Tell, Creating, CreatingPcs
  <2>3. CASE \E m \in Conns \ {n} : c[m].pc \in CreatingPcs
    BY <1>0, <1>a, <2>1, <2>2, <2>3 DEF CreatingPcs
  <2>4. CASE \A m \in Conns \ {n} : c[m].pc \notin CreatingPcs
    <3>1. settled' = Parse(validity) /\ (settled # 0 => settled' = settled)
      BY <1>i, <2>2, <2>4
    <3>2. \A m \in Conns : c'[m].pc \notin CreatingPcs
      BY <1>0, <2>1, <2>4, StepFacts DEF CreatingPcs
    <3>3. \A m \in Conns : c'[m].expect # 0 => c'[m].expect = settled'
      <4>1. \A m \in Conns : c[m].expect # 0 => settled # 0
        BY <1>i
      <4> QED BY <1>0, <1>i, <2>1, <3>1, <4>1, StepFacts
    <3> QED BY <2>1, <3>1, <3>2, <3>3 DEF UidInv, Creating, CreatingPcs, Parse
  <2> QED BY <2>3, <2>4
<1>12. CASE CreateFile(n)
  <2>1. PICK s : s = [c[n] EXCEPT !.pc = "write value"]
    OBVIOUS
  <2>2. s.expect = c[n].expect /\ Step(n, s) /\ settled' = settled /\ c[n].pc \in CreatingPcs
    BY <1>0, <1>12, <2>1 DEF CreateFile, Sessions, CreatingPcs, At, history
  <2>3. settled = 0
    BY <1>i, <2>2
  <2> QED BY <1>i, <2>2, <2>3, StepFacts DEF UidInv
<1>13. CASE WriteValue(n)
  <2>1. /\ c[n].pc \in CreatingPcs /\ c[n].value \in Times /\ Step(n, Idle)
        /\ validity' = IF c[n].gone THEN validity ELSE c[n].value
    BY <1>0, <1>13 DEF WriteValue, Tell, At, CreatingPcs, Fits
  <2>2. settled = 0
    BY <1>i, <2>1
  <2>3. settled' = IF c[n].gone \/ \E m \in Conns \ {n} : c[m].pc \in CreatingPcs THEN settled ELSE c[n].value
    BY <1>13 DEF WriteValue, Tell, Creating, CreatingPcs
  <2>4. \A m \in Conns : c'[m].expect = 0
    BY <1>0, <1>i, <2>1, <2>2, StepFacts
  <2>5. CASE c[n].gone \/ \E m \in Conns \ {n} : c[m].pc \in CreatingPcs
    BY <2>2, <2>3, <2>4, <2>5 DEF UidInv
  <2>6. CASE ~c[n].gone /\ \A m \in Conns \ {n} : c[m].pc \notin CreatingPcs
    <3>1. validity' = c[n].value /\ settled' = c[n].value
      BY <2>1, <2>3, <2>6
    <3>2. validity' # None /\ Parse(validity') = settled'
      BY <2>1, <3>1, TimesAssumption DEF None, Parse, Empty
    <3>3. \A m \in Conns : c'[m].pc \notin CreatingPcs
      BY <1>0, <2>1, <2>6, StepFacts DEF CreatingPcs
    <3> QED BY <2>4, <3>2, <3>3 DEF UidInv, Creating, CreatingPcs, Parse
  <2> QED BY <2>5, <2>6
<1>14. CASE RemoveEntries(n)
  <2>1. settled' = 0 /\ c'[n] = [c[n] EXCEPT !.pc = "remove directory"] /\ c[n].expect = 0
    BY <1>0, <1>14, RemoveFacts DEF RemoveEntries, At, Fits
  <2>2. c'[n].expect = 0
    BY <1>0, <2>1 DEF Sessions
  <2>3. \A m \in Conns \ {n} : c'[m].expect = 0
    BY <1>14, RemoveFacts
  <2> QED BY <2>1, <2>2, <2>3 DEF UidInv
<1> QED BY <1>2, <1>3, <1>4, <1>5, <1>6, <1>7, <1>8, <1>9, <1>10, <1>11, <1>12, <1>13, <1>14 DEF ServerStep

LEMMA UidNext == ASSUME TypeInv, SessionInv, FileInv, UidInv, Next PROVE UidInv'
<1>i. /\ settled # 0 => validity # None /\ Parse(validity) = settled /\ \A m \in Conns : c[m].pc \notin CreatingPcs
      /\ \A m \in Conns : c[m].expect # 0 => c[m].expect = settled
  BY DEF UidInv, Creating, CreatingPcs
<1>1. ASSUME NEW n \in Conns, Command(n) PROVE UidInv'
  <2>0. PICK cmd \in Cmds \ {"none"} : \E s \in Starts(n, cmd) : Begins(n, cmd, s)
    BY <1>1, CommandSteps
  <2>1. PICK s \in Starts(n, cmd) : Begins(n, cmd, s)
    BY <2>0
  <2>2. UNCHANGED <<validity, settled>> /\ c'[n].pc = s.pc /\ c'[n].expect = s.expect
    BY <2>1 DEF Begins, SameWork
  <2>3. \A m \in Conns \ {n} : c'[m].pc = c[m].pc /\ c'[m].expect = c[m].expect
    BY <2>1 DEF Begins, SameWork
  <2>4. s.expect \in {0, settled} /\ (s.pc \in CreatingPcs => validity = None)
    BY DEF Starts, Cmds, Adding, CreatingPcs
  <2>5. settled # 0 => \A m \in Conns : c'[m].pc \notin CreatingPcs
    BY <1>i, <2>2, <2>3, <2>4
  <2>6. \A m \in Conns : c'[m].expect # 0 => c'[m].expect = settled
    BY <1>i, <2>2, <2>3, <2>4
  <2> QED BY <1>i, <2>2, <2>5, <2>6 DEF UidInv, Creating, CreatingPcs, Parse
<1>2. ASSUME NEW n \in Conns, ServerStep(n) PROVE UidInv'
  BY <1>2, UidServer
<1>3. ASSUME NEW w \in writes, Land(w) PROVE UidInv'
  <2>1. UNCHANGED <<validity, settled, c>>
    BY <1>3 DEF Land, history
  <2> QED BY <1>i, <2>1 DEF UidInv, Creating, CreatingPcs, Parse
<1>4. CASE Crash
  <2>1. UNCHANGED <<validity, settled>> /\ \A m \in Conns : c'[m].pc = "idle" /\ c'[m].expect = 0
    BY <1>4 DEF Crash, Idle
  <2> QED BY <1>i, <2>1 DEF UidInv, Creating, CreatingPcs, Parse
<1> QED BY <1>1, <1>2, <1>3, <1>4 DEF Next

-----------------------------------------------------------------------------
(* Who runs *)

\* A connection's command is its own until it is answered or fails, and what
\* it writes is of its command.
LEMMA ServerRuns ==
  ASSUME TypeInv, NEW n \in Conns, ServerStep(n)
  PROVE  /\ \/ c'[n] = Idle
            \/ c'[n].cmd = c[n].cmd /\ c'[n].clean = c[n].clean /\ c'[n].no = c[n].no
         /\ \A m \in Conns \ {n} : /\ c'[m].cmd = c[m].cmd /\ c'[m].clean = c[m].clean /\ c'[m].no = c[m].no
                                   /\ c'[m].add = c[m].add /\ c'[m].pc = c[m].pc
                                   /\ c'[m].text = c[m].text /\ c'[m].lines = c[m].lines /\ c'[m].at = c[m].at
         /\ \A w \in writes' : w \in writes \/ (w.cmd = c[n].cmd /\ w.no = c[n].no)
<1>0. c[n] \in Sessions
  BY SessionFacts
<1>i. Idle.cmd = "none"
  BY DEF Idle
<1>1. CASE create_dirs(n)
  <2>1. PICK s : s = [c[n] EXCEPT !.pc = "subdirs"]
    OBVIOUS
  <2>2. s.cmd = c[n].cmd /\ s.clean = c[n].clean /\ s.no = c[n].no
    BY <1>0, <2>1 DEF Sessions
  <2> QED BY <1>0, <1>1, <2>1, <2>2, StepFacts DEF create_dirs
<1>2. CASE Subdirs(n)
  <2>1. PICK s : s = [c[n] EXCEPT !.pc = "add"]
    OBVIOUS
  <2>2. s.cmd = c[n].cmd /\ s.clean = c[n].clean /\ s.no = c[n].no
    BY <1>0, <2>1 DEF Sessions
  <2> QED BY <1>0, <1>2, <2>1, <2>2, StepFacts DEF Subdirs
<1>3. CASE add_flag(n)
  <2>1. PICK s, t : s = [c[n] EXCEPT !.add = Tail(@)] /\ t = [c[n] EXCEPT !.pc = "append"]
    OBVIOUS
  <2>2. s.cmd = c[n].cmd /\ s.clean = c[n].clean /\ s.no = c[n].no /\ t.cmd = c[n].cmd /\ t.clean = c[n].clean /\ t.no = c[n].no
    BY <1>0, <2>1 DEF Sessions
  <2>3. (Step(n, s) \/ Step(n, t)) /\ writes' = writes
    BY <1>3, <2>1 DEF add_flag
  <2> QED BY <2>2, <2>3, StepFacts
<1>4. CASE AppendLine(n)
  <2>1. PICK s : s = [c[n] EXCEPT !.pc = "add", !.add = Tail(@)]
    OBVIOUS
  <2>2. s.cmd = c[n].cmd /\ s.clean = c[n].clean /\ s.no = c[n].no
    BY <1>0, <2>1 DEF Sessions
  <2>3. PICK w : w = Write(n, Position, Head(c[n].add))
    OBVIOUS
  <2>4. w.cmd = c[n].cmd /\ w.no = c[n].no
    BY <2>3 DEF Write
  <2>5. writes' = writes \cup {w} /\ Step(n, s)
    BY <1>4, <2>1, <2>3 DEF AppendLine
  <2> QED BY <2>2, <2>4, <2>5, StepFacts
<1>5. CASE Added(n)
  <2>1. Step(n, Idle) /\ writes' = writes
    BY <1>5 DEF Added, Answer, Fail, Tell
  <2> QED BY <1>i, <2>1, StepFacts
<1>6. CASE remove_flag(n)
  <2>1. PICK s : s = [c[n] EXCEPT !.pc = "truncate", !.text = flags, !.lines = retain(flags)]
    OBVIOUS
  <2>2. s.cmd = c[n].cmd /\ s.clean = c[n].clean /\ s.no = c[n].no
    BY <1>0, <2>1 DEF Sessions
  <2> QED BY <1>0, <1>6, <2>1, <2>2, StepFacts DEF remove_flag
<1>7. CASE Truncate(n)
  <2>1. PICK s : s = [c[n] EXCEPT !.pc = "rewrite"]
    OBVIOUS
  <2>2. s.cmd = c[n].cmd /\ s.clean = c[n].clean /\ s.no = c[n].no
    BY <1>0, <2>1 DEF Sessions
  <2> QED BY <1>0, <1>7, <2>1, <2>2, StepFacts DEF Truncate
<1>8. CASE Rewrite(n)
  <2>1. PICK x \in c[n].lines :
          /\ writes' = IF c[n].gone THEN writes ELSE writes \cup {Write(n, c[n].at, line(c[n].text, x))}
          /\ Step(n, [c[n] EXCEPT !.lines = @ \ {x}, !.at = @ + 1 + x[2] - x[1]])
    BY <1>8 DEF Rewrite
  <2>2. PICK s, w : s = [c[n] EXCEPT !.lines = @ \ {x}, !.at = @ + 1 + x[2] - x[1]] /\ w = Write(n, c[n].at, line(c[n].text, x))
    OBVIOUS
  <2>3. s.cmd = c[n].cmd /\ s.clean = c[n].clean /\ s.no = c[n].no
    BY <1>0, <2>2 DEF Sessions
  <2>4. w.cmd = c[n].cmd /\ w.no = c[n].no
    BY <2>2 DEF Write
  <2>5. (writes' = writes \/ writes' = writes \cup {w}) /\ Step(n, s)
    BY <2>1, <2>2
  <2> QED BY <2>3, <2>4, <2>5, StepFacts
<1>9. CASE Removed(n)
  <2>1. Step(n, Idle) /\ writes' = writes
    BY <1>9 DEF Removed, Answer, Fail, Tell
  <2> QED BY <1>i, <2>1, StepFacts
<1>10. CASE ReadValue(n)
  <2>1. Step(n, Idle) /\ writes' = writes
    BY <1>10 DEF ReadValue, Answer, Fail, Tell
  <2> QED BY <1>i, <2>1, StepFacts
<1>11. CASE create_dir_all(n)
  <2>1. PICK s : s = [c[n] EXCEPT !.pc = "create"]
    OBVIOUS
  <2>2. s.cmd = c[n].cmd /\ s.clean = c[n].clean /\ s.no = c[n].no
    BY <1>0, <2>1 DEF Sessions
  <2> QED BY <1>0, <1>11, <2>1, <2>2, StepFacts DEF create_dir_all
<1>12. CASE CreateFile(n)
  <2>1. PICK s : s = [c[n] EXCEPT !.pc = "write value"]
    OBVIOUS
  <2>2. s.cmd = c[n].cmd /\ s.clean = c[n].clean /\ s.no = c[n].no
    BY <1>0, <2>1 DEF Sessions
  <2> QED BY <1>0, <1>12, <2>1, <2>2, StepFacts DEF CreateFile
<1>13. CASE WriteValue(n)
  <2>1. Step(n, Idle) /\ writes' = writes
    BY <1>13 DEF WriteValue, Answer, Fail, Tell
  <2> QED BY <1>i, <2>1, StepFacts
<1>14. CASE RemoveEntries(n)
  <2>1. PICK s : s = [c[n] EXCEPT !.pc = "remove directory"]
    OBVIOUS
  <2>2. s.cmd = c[n].cmd /\ s.clean = c[n].clean /\ s.no = c[n].no
    BY <1>0, <2>1 DEF Sessions
  <2>3. /\ c'[n] = s /\ writes' = {}
        /\ \A m \in Conns \ {n} : /\ c'[m].cmd = c[m].cmd /\ c'[m].clean = c[m].clean /\ c'[m].no = c[m].no
                                  /\ c'[m].add = c[m].add /\ c'[m].pc = c[m].pc
                                  /\ c'[m].text = c[m].text /\ c'[m].lines = c[m].lines /\ c'[m].at = c[m].at
    <3>1. c'[n] = s /\ writes' = {}
      BY <1>14, <2>1 DEF RemoveEntries
    <3>2. \A m \in Conns \ {n} : /\ c'[m].cmd = c[m].cmd /\ c'[m].clean = c[m].clean /\ c'[m].no = c[m].no
                                  /\ c'[m].add = c[m].add /\ c'[m].pc = c[m].pc
                                  /\ c'[m].text = c[m].text /\ c'[m].lines = c[m].lines /\ c'[m].at = c[m].at
      BY <1>14, RemoveFacts
    <3> QED BY <3>1, <3>2
  <2> QED BY <2>2, <2>3
<1>15. CASE RemoveDirectory(n)
  <2>1. Step(n, Idle) /\ writes' = writes
    BY <1>15 DEF RemoveDirectory, Answer, Fail, Tell
  <2> QED BY <1>i, <2>1, StepFacts
<1>16. CASE Fails(n)
  <2>1. Step(n, Idle) /\ writes' = writes
    BY <1>16 DEF Fails, Answer, Fail, Tell
  <2> QED BY <1>i, <2>1, StepFacts
<1> QED BY <1>1, <1>2, <1>3, <1>4, <1>5, <1>6, <1>7, <1>8, <1>9, <1>10, <1>11, <1>12, <1>13, <1>14, <1>15, <1>16 DEF ServerStep

LEMMA RunningFacts ==
  ASSUME NEW cmds
  PROVE  (Running \cap cmds = {}) <=> (\A m \in Conns : c[m].cmd \notin cmds) /\ \A w \in writes : w.cmd \notin cmds
  BY DEF Running

\* A command that is not running does not come to run by a step of the server.
LEMMA ServerStarts ==
  ASSUME TypeInv, NEW n \in Conns, ServerStep(n), NEW cmds, "none" \notin cmds, Running \cap cmds = {}
  PROVE  Running' \cap cmds = {}
<1>1. (\A m \in Conns : c[m].cmd \notin cmds) /\ \A w \in writes : w.cmd \notin cmds
  BY RunningFacts
<1>2. Idle.cmd = "none"
  BY DEF Idle
<1>3. (\A m \in Conns : c'[m].cmd \notin cmds) /\ \A w \in writes' : w.cmd \notin cmds
  BY <1>1, <1>2, ServerRuns
<1> QED BY <1>3 DEF Running

-----------------------------------------------------------------------------
(* The subscription *)

LEMMA AppendKeepsSubscribed ==
  ASSUME NEW f \in Texts, NEW l \in Lines, NEW g, g = Overwrite(f, End, l), HasSubscribed(f) \/ l = Subscribed
  PROVE  HasSubscribed(g)
<1>0. Appended(f, l, Overwrite(f, End, l))
  BY AppendFacts
<1>1. /\ Len(f) \in Nat /\ Len(l) \in Nat \ {0} /\ Len(g) = Len(f) + Len(l)
      /\ \A k \in 1 .. Len(f) : g[k] = f[k]
      /\ \A k \in 1 .. Len(l) : g[Len(f) + k] = l[k]
  BY <1>0 DEF Appended
<1>2. CASE HasSubscribed(f)
  <2>1. PICK k \in 1 .. Len(f) - 1 : f[k] = "subsc" /\ f[k + 1] = "ribed" /\ Boundary(f, k - 1)
    BY <1>2 DEF HasSubscribed
  <2>2. k \in 1 .. Len(g) - 1 /\ k \in 1 .. Len(f) /\ k + 1 \in 1 .. Len(f) /\ (k - 1 = 0 \/ k - 1 \in 1 .. Len(f))
    BY <1>1
  <2>3. g[k] = "subsc" /\ g[k + 1] = "ribed" /\ Boundary(g, k - 1)
    BY <1>1, <2>1, <2>2 DEF Boundary
  <2> QED BY <2>2, <2>3 DEF HasSubscribed
<1>3. CASE l = Subscribed
  <2>1. Len(l) = 2 /\ l[1] = "subsc" /\ l[2] = "ribed"
    BY <1>3 DEF Subscribed
  <2> DEFINE k == Len(f) + 1
  <2>2. 1 \in 1 .. Len(l) /\ 2 \in 1 .. Len(l) /\ k + 1 = Len(f) + 2 /\ k - 1 = Len(f) /\ k \in 1 .. Len(g) - 1
    BY <1>1, <2>1
  <2>3. g[k] = "subsc" /\ g[k + 1] = "ribed"
    BY <1>1, <2>1, <2>2
  <2>4. Boundary(g, Len(f))
    <3>1. f # <<>> => f[Len(f)] \in LineEnds /\ Len(f) \in 1 .. Len(f)
      BY DEF Texts
    <3>2. f = <<>> => Len(f) = 0
      OBVIOUS
    <3> QED BY <1>1, <3>1, <3>2 DEF Boundary
  <2> HIDE DEF k
  <2> QED BY <2>2, <2>3, <2>4 DEF HasSubscribed
<1> QED BY <1>2, <1>3

LEMMA NothingInNoFile == ~HasSubscribed(NoFile) /\ ~HasSubscribed(<<>>)
<1>1. Len(NoFile) = 1 /\ Len(<<>>) = 0
  BY DEF NoFile
<1>2. 1 .. 1 - 1 = {} /\ 1 .. 0 - 1 = {}
  OBVIOUS
<1> QED BY <1>1, <1>2 DEF HasSubscribed

LEMMA HeldInAFile == ASSUME FileInv, Held PROVE flags # NoFile
  BY NothingInNoFile DEF Held, FileInv

\* Without UNSUBSCRIBE and DELETE the flag is not lost, and a SUBSCRIBE that
\* has nothing more to add has seen it or written it.
LEMMA ServerHeld ==
  ASSUME TypeInv, SessionInv, FileInv, NEW n \in Conns, ServerStep(n), Subscribing
  PROVE  /\ Held => Held'
         /\ c'[n].cmd = "SUBSCRIBE" /\ c'[n].add = <<>> => c[n].add = <<>> \/ Held'
<1>0. c[n] \in Sessions /\ Fits(c[n]) /\ Idle.cmd = "none"
  BY SessionFacts DEF SessionInv, Idle
<1>c. c[n].cmd \notin {"UNSUBSCRIBE", "DELETE"}
  BY DEF Subscribing, Running
<1>a. ASSUME NEW s, Step(n, s), UNCHANGED <<flags, writes>>, s.add = c[n].add
      PROVE  /\ Held => Held'
             /\ c'[n].cmd = "SUBSCRIBE" /\ c'[n].add = <<>> => c[n].add = <<>> \/ Held'
  BY <1>a, StepFacts DEF Held, HasSubscribed, Boundary
<1>b. ASSUME Step(n, Idle), UNCHANGED <<flags, writes>>
      PROVE  /\ Held => Held'
             /\ c'[n].cmd = "SUBSCRIBE" /\ c'[n].add = <<>> => c[n].add = <<>> \/ Held'
  BY <1>0, <1>b, StepFacts DEF Held, HasSubscribed, Boundary
<1>1. CASE create_dirs(n)
  <2>1. PICK s : s = [c[n] EXCEPT !.pc = "subdirs"]
    OBVIOUS
  <2>2. s.add = c[n].add
    BY <1>0, <2>1 DEF Sessions
  <2> QED BY <1>1, <1>a, <2>1, <2>2 DEF create_dirs
<1>2. CASE Subdirs(n)
  <2>1. PICK s : s = [c[n] EXCEPT !.pc = "add"]
    OBVIOUS
  <2>2. s.add = c[n].add
    BY <1>0, <2>1 DEF Sessions
  <2> QED BY <1>2, <1>a, <2>1, <2>2 DEF Subdirs
<1>3. CASE add_flag(n)
  <2>0. c[n].add # <<>> /\ c[n].add \in Adds
    BY <1>3, SessionFacts DEF add_flag
  <2>1. PICK s, t : s = [c[n] EXCEPT !.add = Tail(@)] /\ t = [c[n] EXCEPT !.pc = "append"]
    OBVIOUS
  <2>2. s.add = Tail(c[n].add) /\ t.add = c[n].add
    BY <1>0, <2>1 DEF Sessions
  <2>3. UNCHANGED <<flags, writes>> /\ ((Step(n, s) /\ Head(c[n].add) \in get_flags) \/ Step(n, t))
    BY <1>3, <2>1 DEF add_flag
  <2>4. CASE Step(n, t)
    BY <1>a, <2>2, <2>3, <2>4
  <2>5. CASE Step(n, s) /\ Head(c[n].add) \in get_flags
    <3>1. Held => Held'
      BY <2>3 DEF Held, HasSubscribed, Boundary
    <3>2. ASSUME c'[n].add = <<>> PROVE Held'
      <4>1. Head(c[n].add) = Subscribed
        BY <2>0, <2>2, <2>5, <3>2, StepFacts, AddFacts
      <4>2. \E x \in lines_from_file(flags) : line(flags, x) = Subscribed
        BY <2>5, <4>1 DEF get_flags
      <4>3. HasSubscribed(flags)
        BY <4>2, SubscribedLine DEF TypeInv, AnyText
      <4> QED BY <2>3, <4>3, <3>1 DEF Held
    <3> QED BY <3>1, <3>2
  <2> QED BY <2>3, <2>4, <2>5
<1>4. CASE AppendLine(n)
  <2>0. c[n].add # <<>> /\ c[n].add \in Adds
    BY <1>0, <1>4, SessionFacts DEF AppendLine, Fits, At
  <2>1. PICK s, w : s = [c[n] EXCEPT !.pc = "add", !.add = Tail(@)] /\ w = Write(n, Position, Head(c[n].add))
    OBVIOUS
  <2>2. s.add = Tail(c[n].add) /\ w.line = Head(c[n].add)
    BY <1>0, <2>1 DEF Sessions, Write
  <2>3. Step(n, s) /\ writes' = writes \cup {w} /\ (flags' = flags \/ (flags = NoFile /\ flags' = <<>>))
    BY <1>4, <2>1 DEF AppendLine
  <2>4. HasSubscribed(flags) => HasSubscribed(flags')
    BY <2>3, NothingInNoFile DEF HasSubscribed, Boundary
  <2>5. Held => Held'
    BY <2>3, <2>4 DEF Held, HasSubscribed, Boundary
  <2>6. ASSUME c'[n].add = <<>> PROVE Held'
    <3>1. w.line = Subscribed
      BY <2>0, <2>2, <2>3, <2>6, StepFacts, AddFacts
    <3> QED BY <2>3, <3>1 DEF Held
  <2> QED BY <2>5, <2>6
<1>5. CASE Added(n)
  BY <1>5, <1>b DEF Added, Answer, Fail, Tell
<1>6. CASE ReadValue(n)
  BY <1>6, <1>b DEF ReadValue, Answer, Fail, Tell
<1>7. CASE WriteValue(n)
  BY <1>7, <1>b DEF WriteValue, Answer, Fail, Tell
<1>8. CASE Fails(n)
  BY <1>8, <1>b DEF Fails, Answer, Fail, Tell
<1>9. CASE create_dir_all(n)
  <2>1. PICK s : s = [c[n] EXCEPT !.pc = "create"]
    OBVIOUS
  <2>2. s.add = c[n].add
    BY <1>0, <2>1 DEF Sessions
  <2> QED BY <1>9, <1>a, <2>1, <2>2 DEF create_dir_all
<1>10. CASE CreateFile(n)
  <2>1. PICK s : s = [c[n] EXCEPT !.pc = "write value"]
    OBVIOUS
  <2>2. s.add = c[n].add
    BY <1>0, <2>1 DEF Sessions
  <2> QED BY <1>10, <1>a, <2>1, <2>2 DEF CreateFile
<1>11. ~(remove_flag(n) \/ Truncate(n) \/ Rewrite(n) \/ Removed(n) \/ RemoveEntries(n) \/ RemoveDirectory(n))
  BY <1>0, <1>c DEF remove_flag, Truncate, Rewrite, Removed, RemoveEntries, RemoveDirectory, At, Fits
<1> QED BY <1>1, <1>2, <1>3, <1>4, <1>5, <1>6, <1>7, <1>8, <1>9, <1>10, <1>11 DEF ServerStep

\* Only an answer changes what the answers say.
LEMMA ServerKnown ==
  ASSUME TypeInv, SessionInv, NEW n \in Conns, ServerStep(n), known' # known
  PROVE  /\ UNCHANGED <<dir, flags, validity, writes>> /\ Step(n, Idle) /\ c[n].clean
         /\ \/ c[n].cmd = "SUBSCRIBE" /\ known' = "subscribed" /\ c[n].add = <<>>
            \/ c[n].cmd = "UNSUBSCRIBE" /\ known' = "unsubscribed" /\ (At(n, "add") \/ (At(n, "rewrite") /\ c[n].lines = {}))
<1>0. Fits(c[n])
  BY DEF SessionInv
<1>1. Added(n) \/ Removed(n) \/ RemoveDirectory(n)
  BY DEF ServerStep, create_dirs, Subdirs, add_flag, AppendLine, remove_flag, Truncate, Rewrite, ReadValue, Tell,
         create_dir_all, CreateFile, WriteValue, RemoveEntries, Fails, Fail, history
<1>2. ASSUME Answer(n)
      PROVE  /\ Step(n, Idle) /\ c[n].clean
             /\ \/ c[n].cmd = "SUBSCRIBE" /\ known' = "subscribed"
                \/ c[n].cmd = "UNSUBSCRIBE" /\ known' = "unsubscribed"
  BY <1>2 DEF Answer
<1>3. CASE Added(n)
  BY <1>2, <1>3 DEF Added
<1>4. CASE Removed(n)
  <2>1. c[n].cmd = "UNSUBSCRIBE"
    BY <1>0, <1>4 DEF Removed, At, Fits
  <2> QED BY <1>2, <1>4, <2>1 DEF Removed
<1>5. CASE RemoveDirectory(n)
  <2>1. c[n].cmd = "DELETE"
    BY <1>0, <1>5 DEF RemoveDirectory, At, Fits
  <2> QED BY <1>2, <1>5, <2>1 DEF RemoveDirectory
<1> QED BY <1>1, <1>3, <1>4, <1>5

LEMMA SubscribedNext ==
  ASSUME TypeInv, SessionInv, FileInv, SubscribedInv, Next PROVE SubscribedInv'
<1>1. ASSUME NEW n \in Conns, Command(n) PROVE SubscribedInv'
  <2>0. PICK cmd \in Cmds \ {"none"} : \E s \in Starts(n, cmd) : Begins(n, cmd, s)
    BY <1>1, CommandSteps
  <2>1. PICK s \in Starts(n, cmd) : Begins(n, cmd, s)
    BY <2>0
  <2>2. UNCHANGED <<dir, flags, validity, writes>> /\ c'[n].cmd = cmd /\ \A m \in Conns \ {n} : c'[m].cmd = c[m].cmd
    BY <2>1 DEF Begins
  <2>3. (Held => Held') /\ (Held => cmd # "DELETE")
    <3>1. Held => Held'
      BY <2>2 DEF Held, HasSubscribed, Boundary
    <3>2. Held => flags # NoFile
      BY HeldInAFile
    <3> QED BY <2>1, <3>1, <3>2 DEF Begins, HasEntries
  <2>4. ASSUME Subscribing, cmd \notin {"UNSUBSCRIBE", "DELETE"} PROVE Subscribing'
    <3>1. (\A m \in Conns : c[m].cmd \notin {"UNSUBSCRIBE", "DELETE"}) /\ \A w \in writes : w.cmd \notin {"UNSUBSCRIBE", "DELETE"}
      BY <2>4, RunningFacts DEF Subscribing
    <3>2. (\A m \in Conns : c'[m].cmd \notin {"UNSUBSCRIBE", "DELETE"}) /\ \A w \in writes' : w.cmd \notin {"UNSUBSCRIBE", "DELETE"}
      BY <2>2, <2>4, <3>1
    <3> QED BY <3>2 DEF Subscribing, Running
  <2>5. known' = "subscribed" => Subscribing' /\ Held'
    <3>1. known' = "subscribed" => known = "subscribed" /\ cmd # "UNSUBSCRIBE"
      BY <2>1 DEF Begins
    <3> QED BY <2>3, <2>4, <3>1 DEF SubscribedInv
  <2>6. ASSUME c'[n].clean, c'[n].cmd = "SUBSCRIBE" PROVE Subscribing' /\ c'[n].add # <<>>
    <3>1. Undoes("SUBSCRIBE") = {"UNSUBSCRIBE", "DELETE"} /\ cmd = "SUBSCRIBE"
      BY <2>2, <2>6 DEF Undoes
    <3>2. Subscribing
      BY <2>1, <2>6, <3>1 DEF Begins, Subscribing
    <3>3. s.add # <<>> /\ c'[n].add = s.add
      <4>1. Both # <<>> /\ <<Subscribed>> # <<>>
        BY DEF Both
      <4>2. s.add \in {Both, <<Subscribed>>}
        BY <3>1 DEF Starts
      <4> QED BY <2>1, <4>1, <4>2 DEF Begins, SameWork
    <3> QED BY <2>4, <3>1, <3>2, <3>3
  <2>7. ASSUME NEW m \in Conns \ {n}, c'[m].clean, c'[m].cmd = "SUBSCRIBE"
        PROVE  Subscribing' /\ (c'[m].add = <<>> => Held')
    <3>1. c[m].cmd = "SUBSCRIBE" /\ c[m].clean /\ cmd \notin Undoes("SUBSCRIBE") /\ c'[m].add = c[m].add
      BY <2>1, <2>2, <2>7 DEF Begins, SameWork
    <3>2. cmd \notin {"UNSUBSCRIBE", "DELETE"}
      BY <3>1 DEF Undoes
    <3> QED BY <2>3, <2>4, <3>1, <3>2 DEF SubscribedInv
  <2> QED BY <2>5, <2>6, <2>7 DEF SubscribedInv
<1>2. ASSUME NEW n \in Conns, ServerStep(n) PROVE SubscribedInv'
  <2>1. ASSUME Subscribing PROVE Subscribing'
    BY <1>2, <2>1, ServerStarts DEF Subscribing
  <2>2. known' = "subscribed" => Subscribing' /\ Held'
    <3>1. CASE known' = known
      BY <1>2, <2>1, <3>1, ServerHeld DEF SubscribedInv
    <3>2. CASE known' # known
      <4>1. known' = "subscribed" => c[n].clean /\ c[n].cmd = "SUBSCRIBE" /\ c[n].add = <<>>
        BY <1>2, <3>2, ServerKnown
      <4> QED BY <1>2, <2>1, <4>1, ServerHeld DEF SubscribedInv
    <3> QED BY <3>1, <3>2
  <2>3. ASSUME NEW m \in Conns, c'[m].clean, c'[m].cmd = "SUBSCRIBE"
        PROVE  Subscribing' /\ (c'[m].add = <<>> => Held')
    <3>1. c[m].clean /\ c[m].cmd = "SUBSCRIBE" /\ (m # n => c'[m].add = c[m].add)
      <4>1. Idle.cmd = "none"
        BY DEF Idle
      <4> QED BY <1>2, <2>3, <4>1, ServerRuns
    <3>2. Subscribing /\ (c[m].add = <<>> => Held)
      BY <3>1 DEF SubscribedInv
    <3> QED BY <1>2, <2>1, <2>3, <3>1, <3>2, ServerHeld
  <2> QED BY <2>2, <2>3 DEF SubscribedInv
<1>3. ASSUME NEW w \in writes, Land(w) PROVE SubscribedInv'
  <2>1. /\ flags \in Texts /\ flags' = Overwrite(flags, w.at, w.line) /\ w.line \in Lines /\ writes' = writes \ {w}
        /\ UNCHANGED <<c, known>>
    BY <1>3, LandFacts DEF Land, history
  <2>2. ASSUME Subscribing PROVE Subscribing'
    BY <2>1, <2>2 DEF Subscribing, Running
  <2>3. ASSUME Subscribing, Held PROVE Held'
    <3>1. w.at = End
      BY <2>3 DEF Subscribing, Running, FileInv
    <3>2. CASE HasSubscribed(flags) \/ w.line = Subscribed
      <4>1. HasSubscribed(flags')
        BY <2>1, <3>1, <3>2, AppendKeepsSubscribed
      <4> QED BY <4>1 DEF Held
    <3>3. CASE \E v \in writes : v.line = Subscribed /\ v # w
      BY <2>1, <3>3 DEF Held
    <3> QED BY <2>3, <3>2, <3>3 DEF Held
  <2> QED BY <2>1, <2>2, <2>3 DEF SubscribedInv
<1>4. CASE Crash
  <2>1. /\ \A m \in Conns : c'[m].cmd = "none"
        /\ writes' = {} /\ flags' = flags /\ (known' = "subscribed" => known = "subscribed" /\ writes = {})
    BY <1>4 DEF Crash, Idle
  <2>2. Subscribing'
    BY <2>1 DEF Subscribing, Running
  <2>3. known' = "subscribed" => Held'
    BY <2>1 DEF SubscribedInv, Held, HasSubscribed, Boundary
  <2> QED BY <2>1, <2>2, <2>3 DEF SubscribedInv
<1> QED BY <1>1, <1>2, <1>3, <1>4 DEF Next

-----------------------------------------------------------------------------
(* \Sent *)

LEMMA SentInAText ==
  ASSUME NEW f \in AnyText
  PROVE  /\ (\E x \in lines_from_file(f) : line(f, x) = Sent) <=> SentIn(f, Len(f))
         /\ SentIn(f, Len(f)) => f # NoFile
<1>1. DOMAIN f = 1 .. Len(f) /\ Len(f) \in Nat
  BY TextFacts
<1>2. SentIn(f, Len(f)) <=> \E i \in DOMAIN f : i <= Len(f) /\ f[i] = "sent" /\ Boundary(f, i - 1)
  BY <1>1 DEF SentIn
<1>3. ~SentIn(NoFile, Len(NoFile))
  <2>1. Len(NoFile) = 1 /\ NoFile[1] = "no file"
    BY DEF NoFile
  <2>2. \A i \in 1 .. Len(NoFile) : i = 1
    <3>1. \A i \in 1 .. 1 : i = 1
      OBVIOUS
    <3> QED BY <2>1, <3>1, Zenon
  <2> QED BY <2>1, <2>2 DEF SentIn
<1> QED BY <1>2, <1>3, SentLine

LEMMA SentInGrows ==
  ASSUME NEW f \in AnyText, NEW a \in Nat, NEW b \in Nat, a <= b, SentIn(f, a)
  PROVE  SentIn(f, b)
  BY TextFacts DEF SentIn

\* What stays the same up to a point stays so for the lines before it.
LEMMA SamePrefix ==
  ASSUME NEW f \in Texts, NEW g \in Texts, NEW b \in Nat, b <= Len(f), b <= Len(g), \A k \in 1 .. b : g[k] = f[k]
  PROVE  /\ Boundary(f, b) => Boundary(g, b)
         /\ SentIn(f, b) => SentIn(g, b)
<1>1. Len(f) \in Nat /\ Len(g) \in Nat
  BY TextFacts DEF AnyText
<1>2. Boundary(f, b) => Boundary(g, b)
  BY <1>1 DEF Boundary
<1>3. ASSUME NEW i \in 1 .. Len(f), i <= b, f[i] = "sent", Boundary(f, i - 1)
      PROVE  i \in 1 .. Len(g) /\ g[i] = "sent" /\ Boundary(g, i - 1)
  <2>1. i \in 1 .. b /\ i \in 1 .. Len(g) /\ (i - 1 = 0 \/ i - 1 \in 1 .. b) /\ i - 1 \in 0 .. Len(g)
    BY <1>1, <1>3
  <2> QED BY <1>3, <2>1 DEF Boundary
<1> QED BY <1>2, <1>3 DEF SentIn

LEMMA AppendKeepsSpecial ==
  ASSUME NEW f \in Texts, NEW l \in Lines, NEW g, g = Overwrite(f, End, l), NEW b \in Nat, Boundary(f, b)
  PROVE  Boundary(g, b) /\ (SentIn(f, b) => SentIn(g, b))
<1>0. Appended(f, l, Overwrite(f, End, l))
  BY AppendFacts
<1>1. /\ g \in Texts /\ Len(f) \in Nat /\ Len(l) \in Nat \ {0} /\ Len(g) = Len(f) + Len(l)
      /\ \A k \in 1 .. Len(f) : g[k] = f[k]
  BY <1>0 DEF Appended
<1>2. b <= Len(f) /\ b <= Len(g) /\ \A k \in 1 .. b : g[k] = f[k]
  BY <1>1 DEF Boundary
<1> QED BY <1>1, <1>2, SamePrefix

\* A line written where one ends.
LEMMA WriteKeepsSpecial ==
  ASSUME NEW f \in Texts, NEW at \in Nat, NEW l \in Lines, NEW g, g = Overwrite(f, at, l), Boundary(f, at)
  PROVE  /\ at + Len(l) \in Nat /\ at + Len(l) <= Len(g) /\ Boundary(g, at + Len(l))
         /\ SentIn(f, at) \/ l = Sent => SentIn(g, at + Len(l))
<1>0. at # End /\ at \in {End} \cup Nat
  BY DEF End
<1>1. Written(f, at, l, g)
  BY <1>0, OverwriteFacts
<1>2. /\ Len(f) \in Nat /\ Len(l) \in Nat \ {0} /\ g \in Texts /\ Len(g) \in Nat /\ Len(g) >= at + Len(l)
      /\ \A k \in 1 .. Len(l) : g[at + k] = l[k]
      /\ \A k \in 1 .. Len(f) : k <= at => g[k] = f[k]
  BY <1>1, TextFacts DEF Written, AnyText
<1>3. at <= Len(f) /\ at <= Len(g) /\ \A k \in 1 .. at : g[k] = f[k]
  BY <1>2 DEF Boundary
<1>4. Boundary(g, at + Len(l))
  <2>1. l[Len(l)] \in LineEnds /\ Len(l) \in 1 .. Len(l)
    BY <1>2 DEF Lines
  <2> QED BY <1>2, <2>1 DEF Boundary
<1>5. Boundary(g, at) /\ (SentIn(f, at) => SentIn(g, at))
  BY <1>2, <1>3, SamePrefix
<1>6. SentIn(f, at) => SentIn(g, at + Len(l))
  <2>1. at <= at + Len(l) /\ at + Len(l) \in Nat /\ g \in AnyText
    BY <1>2 DEF AnyText
  <2> QED BY <1>5, <2>1, SentInGrows
<1>7. l = Sent => SentIn(g, at + Len(l))
  <2> SUFFICES ASSUME l = Sent PROVE SentIn(g, at + Len(l))
    OBVIOUS
  <2>1. Len(l) = 1 /\ l[1] = "sent"
    BY DEF Sent
  <2>2. 1 \in 1 .. Len(l) /\ at + 1 \in 1 .. Len(g) /\ at + 1 <= at + Len(l) /\ (at + 1) - 1 = at
    BY <1>2, <2>1
  <2>3. g[at + 1] = "sent"
    BY <1>2, <2>1, <2>2
  <2> QED BY <1>5, <2>2, <2>3 DEF SentIn
<1> QED BY <1>2, <1>4, <1>6, <1>7

\* Nothing that matters to \Sent changes.
SameForRemoving(n) ==
  /\ c'[n].pc = c[n].pc /\ c'[n].gone = c[n].gone /\ c'[n].no = c[n].no
  /\ c'[n].text = c[n].text /\ c'[n].lines = c[n].lines /\ c'[n].at = c[n].at

LEMMA SpecialFrame ==
  ASSUME Special, flags' = flags, Rewrites' = Rewrites, Removing' = Removing, \A n \in Removing : SameForRemoving(n)
  PROVE  Special'
<1>1. \A n \in Removing : SentIsLeft(n)' <=> SentIsLeft(n)
  BY DEF SentIsLeft, SameForRemoving
<1>2. \A n \in Removing : At(n, "rewrite")' <=> At(n, "rewrite")
  BY DEF At, SameForRemoving
<1>3. \A n \in Removing : Keeps(n)'
  BY <1>1 DEF Special, Keeps, At, SameForRemoving, SentIn, Boundary
<1>4. \A w \in Rewrites : KeepsWith(w)'
  BY <1>1, <1>2 DEF Special, KeepsWith, SameForRemoving, SentIn, Boundary
<1> QED BY <1>3, <1>4 DEF Special, SentIn, Boundary

\* A step of a connection that carries out something else.
LEMMA SpecialOther ==
  ASSUME TypeInv, FileInv, Special, NEW n \in Conns, NEW s, Step(n, s), n \notin Removing, s.cmd # "UNSUBSCRIBE",
         flags' = flags, Rewrites' = Rewrites
  PROVE  Special'
<1>1. c'[n] = s /\ \A m \in Conns \ {n} : c'[m] = c[m]
  BY StepFacts
<1>2. Removing' = Removing /\ \A m \in Removing : SameForRemoving(m)
  BY <1>1 DEF Removing, SameForRemoving
<1> QED BY <1>2, SpecialFrame

LEMMA SpecialRemoving ==
  ASSUME TypeInv, SessionInv, FileInv, Special, NEW n \in Removing, ServerStep(n)
  PROVE  remove_flag(n) \/ Truncate(n) \/ Rewrite(n) \/ Removed(n)
<1>1. n \in Conns /\ Fits(c[n]) /\ c[n].cmd = "UNSUBSCRIBE" /\ c[n].pc \in {"read lines", "truncate", "rewrite"}
  BY DEF Removing, SessionInv, Fits, Special, Keeps
<1>2. flags # NoFile /\ dir # "none"
  BY DEF Special, FileInv
<1> QED BY <1>1, <1>2 DEF ServerStep, create_dirs, Subdirs, add_flag, AppendLine, Added, ReadValue,
             create_dir_all, CreateFile, WriteValue, RemoveEntries, RemoveDirectory, Fails, At

LEMMA SpecialServer ==
  ASSUME TypeInv, SessionInv, FileInv, Special, NEW n \in Conns, ServerStep(n), ~RemoveEntries(n)
  PROVE  Special'
<1>0. c[n] \in Sessions /\ Fits(c[n]) /\ Idle.cmd = "none" /\ flags # NoFile /\ flags \in Texts
  BY SessionFacts DEF SessionInv, Idle, Special, TypeInv
<1>1. CASE n \notin Removing
  <2>1. c[n].cmd # "UNSUBSCRIBE"
    BY <1>1 DEF Removing
  <2>2. c'[n].cmd # "UNSUBSCRIBE"
    BY <1>0, <2>1, ServerRuns
  <2>3. Rewrites' = Rewrites /\ flags' = flags
    <3>1. CASE writes' = writes /\ flags' = flags
      BY <3>1 DEF Rewrites
    <3>2. CASE AppendLine(n)
      <4>1. PICK w : writes' = writes \cup {w} /\ w = Write(n, Position, Head(c[n].add))
        BY <3>2 DEF AppendLine
      <4>2. w.cmd # "UNSUBSCRIBE"
        BY <2>1, <4>1 DEF Write
      <4>3. flags' = flags
        BY <1>0, <3>2 DEF AppendLine
      <4> QED BY <4>1, <4>2, <4>3 DEF Rewrites
    <3>3. ~Truncate(n) /\ ~Rewrite(n)
      BY <1>0, <2>1 DEF Truncate, Rewrite, At, Fits
    <3> QED BY <3>1, <3>2, <3>3 DEF ServerStep, create_dirs, Subdirs, add_flag, Added, remove_flag, Removed, ReadValue,
                  create_dir_all, CreateFile, WriteValue, RemoveDirectory, Fails
  <2>4. \A m \in Conns \ {n} : c'[m] = c[m]
    BY StepFacts DEF ServerStep, create_dirs, Subdirs, add_flag, AppendLine, Added, remove_flag, Truncate, Rewrite, Removed,
             ReadValue, create_dir_all, CreateFile, WriteValue, RemoveDirectory, Fails, Answer, Tell, Fail
  <2>5. Removing' = Removing /\ \A m \in Removing : SameForRemoving(m)
    BY <1>1, <2>2, <2>4 DEF Removing, SameForRemoving
  <2> QED BY <2>3, <2>5, SpecialFrame
<1>2. CASE n \in Removing
  <2>0. /\ Keeps(n) /\ Removing = {n} /\ c[n].cmd = "UNSUBSCRIBE" /\ ~c[n].gone
        /\ \A v, w \in Rewrites : v = w
        /\ \A w \in Rewrites : KeepsWith(w)
        /\ \A w \in Rewrites : c[n].pc = "rewrite" /\ w.no = c[n].no /\ c[n].at = w.at + Len(w.line)
    BY <1>2 DEF Special, Keeps, KeepsWith, Removing, At
  <2>1. CASE remove_flag(n)
    <3>1. PICK s : s = [c[n] EXCEPT !.pc = "truncate", !.text = flags, !.lines = retain(flags)]
      OBVIOUS
    <3>2. s.pc = "truncate" /\ s.text = flags /\ s.lines = retain(flags) /\ s.gone = c[n].gone /\ s.cmd = "UNSUBSCRIBE"
      BY <1>0, <2>0, <3>1 DEF Sessions
    <3>3. c'[n] = s /\ \A m \in Conns \ {n} : c'[m] = c[m]
      BY <2>1, <3>1, StepFacts DEF remove_flag
    <3>4. Removing' = {n} /\ UNCHANGED <<flags, writes>> /\ Rewrites = {} /\ Rewrites' = {}
      <4>1. Rewrites = {}
        BY <2>0, <2>1 DEF remove_flag, At
      <4> QED BY <2>0, <2>1, <3>2, <3>3, <4>1 DEF Removing, Rewrites, remove_flag
    <3>5. \E x \in retain(flags) : line(flags, x) = Sent
      <4>1. SentIn(flags, Len(flags))
        BY <2>0, <2>1 DEF Keeps, remove_flag
      <4>2. PICK x \in lines_from_file(flags) : line(flags, x) = Sent
        BY <1>0, <4>1, SentInAText DEF AnyText
      <4>3. Sent # Subscribed
        BY DEF Sent, Subscribed
      <4> QED BY <4>2, <4>3 DEF retain, retained
    <3>6. Keeps(n)'
      BY <2>0, <3>2, <3>3, <3>5 DEF Keeps, At, SentIsLeft
    <3> QED BY <1>0, <3>4, <3>6 DEF Special
  <2>2. CASE Truncate(n)
    <3>1. PICK s : s = [c[n] EXCEPT !.pc = "rewrite"]
      OBVIOUS
    <3>2. /\ s.pc = "rewrite" /\ s.text = c[n].text /\ s.lines = c[n].lines /\ s.gone = c[n].gone
          /\ s.cmd = "UNSUBSCRIBE" /\ s.at = 0
      BY <1>0, <2>0, <2>2, <3>1 DEF Sessions, Fits, Truncate, At
    <3>3. c'[n] = s /\ \A m \in Conns \ {n} : c'[m] = c[m]
      BY <2>2, <3>1, StepFacts DEF Truncate
    <3>4. Removing' = {n} /\ flags' = <<>> /\ Rewrites' = {} /\ flags' # NoFile
      <4>1. Rewrites = {}
        BY <2>0, <2>2 DEF Truncate, At
      <4> QED BY <2>0, <2>2, <3>2, <3>3, <4>1 DEF Removing, Rewrites, Truncate, NoFile
    <3>5. Boundary(<<>>, 0)
      BY DEF Boundary
    <3>6. SentIsLeft(n)'
      BY <2>0, <2>2, <3>2, <3>3 DEF Keeps, Truncate, SentIsLeft
    <3>7. Keeps(n)'
      BY <2>0, <3>2, <3>3, <3>4, <3>5, <3>6 DEF Keeps, At
    <3> QED BY <3>4, <3>7 DEF Special
  <2>3. CASE Rewrite(n)
    <3>1. PICK x \in c[n].lines :
            /\ writes' = writes \cup {Write(n, c[n].at, line(c[n].text, x))}
            /\ Step(n, [c[n] EXCEPT !.lines = @ \ {x}, !.at = @ + 1 + x[2] - x[1]])
      BY <2>0, <2>3 DEF Rewrite
    <3>2. PICK s, w : s = [c[n] EXCEPT !.lines = @ \ {x}, !.at = @ + 1 + x[2] - x[1]] /\ w = Write(n, c[n].at, line(c[n].text, x))
      OBVIOUS
    <3>3. /\ s.pc = "rewrite" /\ s.text = c[n].text /\ s.lines = c[n].lines \ {x} /\ s.gone = c[n].gone
          /\ s.cmd = "UNSUBSCRIBE" /\ s.at = c[n].at + 1 + x[2] - x[1] /\ s.no = c[n].no
      BY <1>0, <2>0, <2>3, <3>2 DEF Sessions, Rewrite, At
    <3>4. w.cmd = "UNSUBSCRIBE" /\ w.no = c[n].no /\ w.at = c[n].at /\ w.line = line(c[n].text, x)
      BY <2>0, <3>2 DEF Write
    <3>5. c'[n] = s /\ \A m \in Conns \ {n} : c'[m] = c[m]
      BY <3>1, <3>2, StepFacts
    <3>6. Rewrites = {} /\ Rewrites' = {w} /\ Removing' = {n} /\ flags' = flags
      <4>1. Rewrites = {}
        BY <2>0, <2>3 DEF Rewrite, Rewrites
      <4>2. Rewrites' = {w}
        BY <3>1, <3>2, <3>4, <4>1 DEF Rewrites
      <4>3. flags' = flags
        BY <2>3 DEF Rewrite
      <4> QED BY <2>0, <3>3, <3>5, <4>1, <4>2, <4>3 DEF Removing
    <3>7. s.at = w.at + Len(w.line)
      <4>1. x \in lines_from_file(c[n].text) /\ c[n].text \in AnyText /\ c[n].at \in Nat
        BY <1>0, SessionFacts DEF Fits, retain, AnyText
      <4>2. Len(w.line) = x[2] - x[1] + 1 /\ x[1] \in 1 .. Len(c[n].text) /\ x[2] \in x[1] .. Len(c[n].text) /\ Len(c[n].text) \in Nat
        BY <3>4, <4>1, LineCells, LineFacts, TextFacts
      <4>3. x[1] \in Nat /\ x[2] \in Nat
        BY <4>2
      <4>4. s.at = c[n].at + 1 + x[2] - x[1] /\ w.at = c[n].at
        BY <3>3, <3>4
      <4> HIDE <3>1, <3>2, <3>3, <3>4, <3>5
      <4>5. c[n].at + 1 + x[2] - x[1] = c[n].at + (x[2] - x[1] + 1)
        BY <4>1, <4>3
      <4> QED BY <4>2, <4>4, <4>5
    <3>8. Boundary(flags, w.at) /\ (SentIsLeft(n) \/ SentIn(flags, w.at))
      BY <2>0, <2>3, <3>4, <3>6 DEF Keeps, Rewrite
    <3>9. w.line = Sent \/ SentIn(flags, w.at) \/ SentIsLeft(n)'
      BY <3>3, <3>4, <3>5, <3>8 DEF SentIsLeft
    <3>10. KeepsWith(w)'
      BY <3>3, <3>4, <3>5, <3>6, <3>7, <3>8, <3>9 DEF KeepsWith, At
    <3>11. Keeps(n)'
      BY <2>0, <3>3, <3>5, <3>6 DEF Keeps, At
    <3> QED BY <1>0, <3>6, <3>10, <3>11 DEF Special
  <2>4. CASE Removed(n)
    <3>1. c'[n] = Idle /\ (\A m \in Conns \ {n} : c'[m] = c[m]) /\ c[n].lines = {} /\ At(n, "rewrite") /\ UNCHANGED <<flags, writes>>
      BY <2>4, StepFacts DEF Removed, Answer
    <3>2. Removing' = {} /\ Rewrites' = Rewrites /\ ~SentIsLeft(n)
      BY <1>0, <2>0, <3>1 DEF Removing, Rewrites, SentIsLeft
    <3>3. \A w \in Rewrites : KeepsWith(w)'
      BY <2>0, <3>1, <3>2 DEF KeepsWith
    <3>4. Rewrites = {} => SentIn(flags, Len(flags))
      <4>1. SUFFICES ASSUME Rewrites = {} PROVE SentIn(flags, Len(flags))
        OBVIOUS
      <4>2. Boundary(flags, c[n].at) /\ SentIn(flags, c[n].at)
        BY <2>0, <3>1, <3>2, <4>1 DEF Keeps
      <4>3. c[n].at \in Nat /\ c[n].at <= Len(flags) /\ Len(flags) \in Nat /\ flags \in AnyText
        BY <1>0, <4>2, TextFacts, SessionFacts DEF Boundary, AnyText
      <4> QED BY <4>2, <4>3, SentInGrows
    <3> QED BY <1>0, <2>0, <3>1, <3>2, <3>3, <3>4 DEF Special
  <2> QED BY <1>2, <2>1, <2>2, <2>3, <2>4, SpecialRemoving
<1> QED BY <1>1, <1>2

LEMMA SpecialLand ==
  ASSUME TypeInv, FileInv, Special, NEW w \in writes, Land(w)
  PROVE  Special'
<1>0. /\ flags \in Texts /\ flags' \in Texts /\ flags' = Overwrite(flags, w.at, w.line) /\ w.line \in Lines
      /\ writes' = writes \ {w} /\ c' = c /\ flags' # NoFile /\ flags \in AnyText /\ flags' \in AnyText
      /\ Len(flags) \in Nat /\ Len(flags') \in Nat
  <2>1. /\ flags \in Texts /\ flags' \in Texts /\ flags' = Overwrite(flags, w.at, w.line) /\ w.line \in Lines
        /\ writes' = writes \ {w} /\ c' = c
    BY LandFacts DEF Land
  <2>2. flags' # NoFile /\ flags \in AnyText /\ flags' \in AnyText
    BY <2>1, NoFileIsNoText DEF AnyText
  <2> QED BY <2>1, <2>2, TextFacts
<1>1. Removing' = Removing /\ Rewrites' = Rewrites \ {w} /\ \A n \in Removing : SentIsLeft(n)' <=> SentIsLeft(n)
  BY <1>0 DEF Removing, Rewrites, SentIsLeft
\* The file grows.
<1>2. CASE w \notin Rewrites
  <2>1. w.at = End
    BY <1>2 DEF FileInv, Rewrites
  <2>2. \A b \in Nat : Boundary(flags, b) => Boundary(flags', b) /\ (SentIn(flags, b) => SentIn(flags', b))
    BY <1>0, <2>1, AppendKeepsSpecial
  <2>3. SentIn(flags, Len(flags)) => SentIn(flags', Len(flags'))
    <3>1. Boundary(flags, Len(flags))
      <4>1. flags # <<>> => flags[Len(flags)] \in LineEnds
        BY <1>0 DEF Texts
      <4>2. flags = <<>> => Len(flags) = 0
        OBVIOUS
      <4> QED BY <1>0, <4>1, <4>2 DEF Boundary
    <3>2. Len(flags) <= Len(flags')
      BY <1>0, <2>2, <3>1 DEF Boundary
    <3> QED BY <1>0, <2>2, <3>1, <3>2, SentInGrows
  <2>4. \A b : Boundary(flags, b) => b \in Nat
    BY <1>0 DEF Boundary
  <2>5. Rewrites' = Rewrites
    BY <1>1, <1>2
  <2>6. \A n \in Removing : Keeps(n)'
    BY <1>0, <1>1, <2>2, <2>3, <2>4, <2>5 DEF Special, Keeps, At
  <2>7. \A v \in Rewrites : KeepsWith(v)'
    BY <1>0, <1>1, <2>2, <2>4, <2>5 DEF Special, KeepsWith, At
  <2> QED BY <1>0, <1>1, <2>3, <2>5, <2>6, <2>7 DEF Special
\* The next line of remove_flag lands.
<1>3. CASE w \in Rewrites
  <2>1. KeepsWith(w) /\ Rewrites = {w} /\ w.at \in Nat /\ Rewrites' = {}
    <3>1. w.at \in Nat
      BY <1>3 DEF FileInv, Rewrites, Adding
    <3> QED BY <1>1, <1>3, <3>1 DEF Special
  <2> DEFINE b == w.at + Len(w.line)
  <2>2. b \in Nat /\ b <= Len(flags') /\ Boundary(flags', b) /\ (SentIn(flags, w.at) \/ w.line = Sent => SentIn(flags', b))
    BY <1>0, <2>1, WriteKeepsSpecial DEF KeepsWith
  <2> HIDE DEF b
  <2>3. ASSUME NEW n \in Removing PROVE Keeps(n)'
    <3>1. At(n, "rewrite") /\ c[n].at = b /\ Removing = {n} /\ ~c[n].gone
      BY <2>1, <2>3 DEF KeepsWith, Special, b, Keeps
    <3>2. SentIsLeft(n) \/ SentIn(flags', b)
      BY <2>1, <2>2, <3>1 DEF KeepsWith
    <3> QED BY <1>0, <1>1, <2>2, <2>3, <3>1, <3>2 DEF Keeps, At
  <2>4. Removing = {} => SentIn(flags', Len(flags'))
    <3> SUFFICES ASSUME Removing = {} PROVE SentIn(flags', Len(flags'))
      OBVIOUS
    <3>1. SentIn(flags', b)
      BY <2>1, <2>2 DEF KeepsWith
    <3> QED BY <1>0, <2>2, <3>1, SentInGrows
  <2> QED BY <1>0, <1>1, <2>1, <2>3, <2>4 DEF Special
<1> QED BY <1>2, <1>3

LEMMA SpecialNext == ASSUME TypeInv, SessionInv, FileInv, SpecialInv, Next PROVE SpecialInv'
<1>1. ASSUME NEW n \in Conns, Command(n) PROVE SpecialInv'
  <2>0. PICK cmd \in Cmds \ {"none"} : \E s \in Starts(n, cmd) : Begins(n, cmd, s)
    BY <1>1, CommandSteps
  <2>1. PICK s \in Starts(n, cmd) : Begins(n, cmd, s)
    BY <2>0
  <2>2. UNCHANGED <<flags, writes>> /\ c'[n].cmd = cmd /\ SameWork(c'[n], s) /\ At(n, "idle")
    BY <2>1 DEF Begins
  <2>3. \A m \in Conns \ {n} : c'[m].cmd = c[m].cmd /\ c'[m].no = c[m].no /\ SameWork(c'[m], c[m])
    BY <2>1 DEF Begins
  <2>4. n \notin Removing
    BY <2>2 DEF Removing, SessionInv, Fits, At
  <2>5. CASE cmd # "UNSUBSCRIBE"
    <3>1. Removing' = Removing /\ Rewrites' = Rewrites /\ special' = special
      BY <2>1, <2>2, <2>3, <2>4, <2>5 DEF Removing, Rewrites, Begins
    <3>2. \A m \in Removing : SameForRemoving(m)
      BY <2>3, <2>4 DEF SameForRemoving, SameWork, Removing
    <3> QED BY <2>2, <3>1, <3>2, SpecialFrame DEF SpecialInv
  <2>6. CASE cmd = "UNSUBSCRIBE"
    <3>1. SUFFICES ASSUME Sent \in get_flags, "UNSUBSCRIBE" \notin Running PROVE Special'
      BY <2>1, <2>6 DEF Begins, SpecialInv
    <3>2. Removing = {} /\ Rewrites = {}
      BY <3>1 DEF Running, Removing, Rewrites
    <3>3. Removing' = {n} /\ Rewrites' = {}
      BY <2>2, <2>3, <2>6, <3>2 DEF Removing, Rewrites
    <3>4. SentIn(flags, Len(flags)) /\ flags # NoFile
      <4>1. \E x \in lines_from_file(flags) : line(flags, x) = Sent
        BY <3>1 DEF get_flags
      <4> QED BY <4>1, SentInAText DEF TypeInv, AnyText
    <3>5. c'[n].pc = "read lines" /\ ~c'[n].gone
      <4>1. dir # "none"
        BY <3>4 DEF FileInv
      <4> QED BY <2>2, <2>6, <4>1 DEF SameWork, Starts
    <3> QED BY <2>2, <3>3, <3>4, <3>5 DEF Special, Keeps, At
  <2> QED BY <2>5, <2>6
<1>2. ASSUME NEW n \in Conns, ServerStep(n) PROVE SpecialInv'
  <2>1. CASE RemoveEntries(n)
    BY <2>1 DEF RemoveEntries, SpecialInv
  <2>2. CASE ~RemoveEntries(n)
    <3>1. special' = special
      BY <1>2, <2>2 DEF ServerStep, create_dirs, Subdirs, add_flag, AppendLine, Added, remove_flag, Truncate, Rewrite, Removed,
             ReadValue, create_dir_all, CreateFile, WriteValue, RemoveDirectory, Fails, Answer, Tell, Fail, history
    <3> QED BY <1>2, <2>2, <3>1, SpecialServer DEF SpecialInv
  <2> QED BY <2>1, <2>2
<1>3. ASSUME NEW w \in writes, Land(w) PROVE SpecialInv'
  <2>1. special' = special
    BY <1>3 DEF Land, history
  <2> QED BY <1>3, <2>1, SpecialLand DEF SpecialInv
<1>4. CASE Crash
  <2> SUFFICES ASSUME special, "UNSUBSCRIBE" \notin Running PROVE Special'
    BY <1>4 DEF Crash, SpecialInv
  <2>1. Removing = {} /\ Rewrites = {}
    BY DEF Running, Removing, Rewrites
  <2>2. flags # NoFile /\ SentIn(flags, Len(flags))
    BY <2>1 DEF SpecialInv, Special
  <2>3. Removing' = {} /\ Rewrites' = {} /\ flags' = flags
    BY <1>4 DEF Crash, Removing, Rewrites, Idle
  <2> QED BY <2>2, <2>3 DEF Special
<1> QED BY <1>1, <1>2, <1>3, <1>4 DEF Next

-----------------------------------------------------------------------------
(* What is left after UNSUBSCRIBE *)

LEMMA AppendNoSubscribed ==
  ASSUME NEW f \in Texts, NEW l \in Lines, NEW g, g = Overwrite(f, End, l), ~HasSubscribed(f), l # Subscribed
  PROVE  ~HasSubscribed(g)
<1>0. Appended(f, l, Overwrite(f, End, l))
  BY AppendFacts
<1>1. /\ Len(f) \in Nat /\ Len(l) \in Nat \ {0} /\ Len(g) = Len(f) + Len(l)
      /\ \A k \in 1 .. Len(f) : g[k] = f[k]
      /\ \A k \in 1 .. Len(l) : g[Len(f) + k] = l[k]
  BY <1>0 DEF Appended
<1>2. /\ l \in Seq(Cells) /\ l[Len(l)] \in LineEnds /\ \A k \in 1 .. Len(l) - 1 : l[k] \notin LineEnds
      /\ f # <<>> => f[Len(f)] \in LineEnds
  BY DEF Lines, Texts
<1> SUFFICES ASSUME NEW k \in 1 .. Len(g) - 1, g[k] = "subsc", g[k + 1] = "ribed", Boundary(g, k - 1) PROVE FALSE
  BY DEF HasSubscribed
<1>3. CASE k + 1 <= Len(f)
  <2>1. k \in 1 .. Len(f) - 1 /\ k \in 1 .. Len(f) /\ k + 1 \in 1 .. Len(f) /\ (k - 1 = 0 \/ k - 1 \in 1 .. Len(f)) /\ k - 1 \in 0 .. Len(f)
    BY <1>1, <1>3
  <2>2. f[k] = "subsc" /\ f[k + 1] = "ribed" /\ Boundary(f, k - 1)
    BY <1>1, <2>1 DEF Boundary
  <2> QED BY <2>1, <2>2 DEF HasSubscribed
<1>4. CASE k = Len(f)
  <2>1. f # <<>> /\ Len(f) \in 1 .. Len(f)
    BY <1>1, <1>4
  <2>2. f[Len(f)] = "subsc"
    BY <1>1, <1>4, <2>1
  <2> QED BY <1>2, <2>1, <2>2 DEF LineEnds
<1>5. CASE k > Len(f)
  <2>1. PICK j \in Nat : j = k - Len(f)
    BY <1>1, <1>5
  <2>2. j \in 1 .. Len(l) - 1 /\ j \in 1 .. Len(l) /\ j + 1 \in 1 .. Len(l) /\ k = Len(f) + j /\ k + 1 = Len(f) + (j + 1)
    BY <1>1, <1>5, <2>1
  <2>3. l[j] = "subsc" /\ l[j + 1] = "ribed"
    BY <1>1, <2>2
  <2>4. j + 1 = Len(l)
    <3>1. l[j + 1] \in LineEnds
      BY <2>3 DEF LineEnds
    <3> QED BY <1>1, <1>2, <2>2, <3>1
  <2>5. CASE j = 1
    <3>1. l = <<"subsc", "ribed">>
      BY <1>2, <2>3, <2>4, <2>5
    <3> QED BY <3>1 DEF Subscribed
  <2>6. CASE j # 1
    <3>1. j - 1 \in 1 .. Len(l) - 1 /\ j - 1 \in 1 .. Len(l) /\ k - 1 = Len(f) + (j - 1) /\ k - 1 # 0
      BY <1>1, <2>2, <2>6
    <3>2. g[k - 1] = l[j - 1]
      BY <1>1, <3>1
    <3>3. g[k - 1] \in LineEnds
      BY <3>1 DEF Boundary
    <3> QED BY <1>2, <3>1, <3>2, <3>3
  <2> QED BY <2>5, <2>6
<1> QED BY <1>1, <1>3, <1>4, <1>5

LEMMA AtTheEnd ==
  ASSUME NEW f \in Texts, NEW l \in Lines
  PROVE  Overwrite(f, Len(f), l) = Overwrite(f, End, l)
<1>1. Len(f) \in Nat
  BY TextFacts DEF AnyText
<1>2. Len(f) # End
  BY <1>1 DEF End
<1> QED BY <1>2 DEF Overwrite

\* Holes are no line ends: a part has no flag that the whole has not.
LEMMA PartHasNot ==
  ASSUME NEW f \in Texts, NEW g \in Texts, PartOf(f, 0, g), ~HasSubscribed(g)
  PROVE  ~HasSubscribed(f)
<1>1. Len(f) \in Nat /\ Len(g) \in Nat
  BY TextFacts DEF AnyText
<1> SUFFICES ASSUME NEW k \in 1 .. Len(f) - 1, f[k] = "subsc", f[k + 1] = "ribed", Boundary(f, k - 1) PROVE FALSE
  BY DEF HasSubscribed
<1>2. Len(f) <= Len(g) /\ \A i \in 1 .. Len(f) : f[i] \in {g[i], Nul}
  BY <1>1 DEF PartOf
<1>3. /\ k \in 1 .. Len(g) - 1 /\ k \in 1 .. Len(f) /\ k + 1 \in 1 .. Len(f)
      /\ k - 1 \in 0 .. Len(g) /\ (k - 1 = 0 \/ k - 1 \in 1 .. Len(f))
  BY <1>1, <1>2
<1>4. "subsc" # Nul /\ "ribed" # Nul /\ Nul \notin LineEnds
  BY DEF Nul, LineEnds
<1>5. g[k] = "subsc" /\ g[k + 1] = "ribed"
  BY <1>2, <1>3, <1>4
<1>6. Boundary(g, k - 1)
  BY <1>2, <1>3, <1>4 DEF Boundary
<1> QED BY <1>3, <1>5, <1>6 DEF HasSubscribed

LEMMA Least == ASSUME NEW T \in SUBSET Nat, T # {} PROVE \E x \in T : \A y \in T : x <= y
<1> DEFINE F == {0 .. x : x \in T}
<1>1. F \subseteq FiniteSubsetsOf(Nat) /\ F # {}
  <2>1. \A x \in T : IsFiniteSet(0 .. x) /\ 0 .. x \subseteq Nat
    BY FS_Interval
  <2> QED BY <2>1 DEF FiniteSubsetsOf
<1>2. IsWellFoundedOn(StrictSubsetOrdering(Nat), FiniteSubsetsOf(Nat))
  BY FS_StrictSubsetOrderingWellFounded
<1>3. \E s \in F : \A r \in F : ~ (<<r, s>> \in StrictSubsetOrdering(Nat))
  <2> HIDE DEF F
  <2> QED BY <1>1, <1>2, WFMin
<1>4. PICK x \in T : \A y \in T : ~ (<<0 .. y, 0 .. x>> \in StrictSubsetOrdering(Nat))
  BY <1>3
<1>5. \A y \in T : x <= y
  <2> SUFFICES ASSUME NEW y \in T, ~ (x <= y) PROVE FALSE
    OBVIOUS
  <2>1. x \in Nat /\ y \in Nat
    OBVIOUS
  <2>2. 0 .. y \subseteq 0 .. x /\ x \in 0 .. x /\ x \notin 0 .. y
    BY <2>1
  <2>3. 0 .. y \in SUBSET Nat /\ 0 .. x \in SUBSET Nat /\ 0 .. y # 0 .. x
    BY <2>1, <2>2
  <2>4. <<0 .. y, 0 .. x>> \in StrictSubsetOrdering(Nat)
    <3> DEFINE a == 0 .. y  b == 0 .. x
    <3>1. <<a, b>> \in (SUBSET Nat) \X (SUBSET Nat) /\ a \subseteq b /\ a # b
      BY <2>2, <2>3
    <3> HIDE DEF a, b
    <3> QED BY <3>1 DEF StrictSubsetOrdering
  <2> QED BY <1>4, <2>4
<1> QED BY <1>5

\* The next line starts where the last one ended.
LEMMA NextLine ==
  ASSUME NEW f \in Texts, NEW at \in Nat, Boundary(f, at), NEW x \in Rest(f, at), \A y \in Rest(f, at) : x[1] <= y[1]
  PROVE  /\ x[1] = at + 1 /\ x[2] \in x[1] .. Len(f) /\ Boundary(f, x[2])
         /\ Rest(f, at) \ {x} = Rest(f, x[2])
<1>0. f \in AnyText /\ Len(f) \in Nat /\ x \in lines_from_file(f) /\ at < x[1]
  BY TextFacts DEF AnyText, Rest
<1>1. /\ \A y \in lines_from_file(f) : /\ y \in Nat \X Nat /\ y[1] \in 1 .. Len(f) /\ y[2] \in y[1] .. Len(f) /\ f[y[2]] \in LineEnds
                                       /\ Boundary(f, y[1] - 1) /\ \A k \in y[1] .. y[2] - 1 : f[k] \notin LineEnds
  BY <1>0, LineFacts
<1>2. x[1] = at + 1
  <2> DEFINE T == {j \in at + 1 .. Len(f) : f[j] \in LineEnds}
  <2>1. T \in SUBSET Nat
    BY <1>0
  <2>2. x[2] \in T
    BY <1>0, <1>1
  <2>3. PICK j \in T : \A i \in T : j <= i
    <3> HIDE DEF T
    <3> QED BY <2>1, <2>2, Least
  <2>4. at + 1 \in 1 .. Len(f) /\ j \in at + 1 .. Len(f) /\ f[j] \in LineEnds /\ (at + 1) - 1 = at
    BY <1>0, <1>1
  <2>5. \A k \in at + 1 .. j - 1 : f[k] \notin LineEnds
    <3> SUFFICES ASSUME NEW k \in at + 1 .. j - 1, f[k] \in LineEnds PROVE FALSE
      OBVIOUS
    <3>1. k \in T
      BY <1>0, <2>4
    <3>2. j <= k /\ k <= j - 1 /\ j \in Nat /\ k \in Nat
      BY <1>0, <2>3, <2>4, <3>1
    <3> QED BY <3>2
  <2> HIDE DEF T
  <2>6. <<at + 1, j>> \in lines_from_file(f)
    BY <1>0, <2>4, <2>5, IsALine
  <2>7. <<at + 1, j>> \in Rest(f, at)
    BY <2>6 DEF Rest
  <2>8. x[1] <= at + 1
    BY <2>7
  <2> QED BY <1>0, <1>1, <2>8
<1>3. x[2] \in x[1] .. Len(f) /\ f[x[2]] \in LineEnds
  BY <1>0, <1>1
<1>4. Boundary(f, x[2])
  BY <1>0, <1>2, <1>3 DEF Boundary
<1>5. ASSUME NEW y \in Rest(f, at), y # x PROVE x[2] < y[1]
  <2>0. y \in lines_from_file(f) /\ at < y[1]
    BY DEF Rest
  <2>1. /\ y[1] \in 1 .. Len(f) /\ y[2] \in y[1] .. Len(f) /\ Boundary(f, y[1] - 1) /\ f[y[2]] \in LineEnds
        /\ \A k \in y[1] .. y[2] - 1 : f[k] \notin LineEnds
    BY <1>1, <2>0
  <2>2. \A k \in x[1] .. x[2] - 1 : f[k] \notin LineEnds
    BY <1>0, <1>1
  <2>3. x[1] <= y[1]
    OBVIOUS
  <2>4. CASE y[1] = x[1]
    <3>1. x[2] = y[2]
      <4>1. ~(x[2] < y[2])
        <5>1. x[2] < y[2] => x[2] \in y[1] .. y[2] - 1
          BY <1>0, <1>3, <2>1, <2>4
        <5> QED BY <1>3, <2>1, <5>1
      <4>2. ~(y[2] < x[2])
        <5>1. y[2] < x[2] => y[2] \in x[1] .. x[2] - 1
          BY <1>0, <1>3, <2>1, <2>4
        <5> QED BY <2>1, <2>2, <5>1
      <4> QED BY <1>0, <1>2, <1>3, <2>1, <4>1, <4>2
    <3>2. x = <<x[1], x[2]>> /\ y = <<y[1], y[2]>>
      BY <1>0, <1>1, <2>0
    <3> QED BY <1>5, <2>4, <3>1, <3>2
  <2>5. CASE y[1] # x[1]
    <3>1. y[1] - 1 \in x[1] .. Len(f) /\ y[1] - 1 # 0
      BY <1>0, <1>2, <2>1, <2>3, <2>5
    <3>2. f[y[1] - 1] \in LineEnds
      BY <2>1, <3>1 DEF Boundary
    <3>3. y[1] - 1 \notin x[1] .. x[2] - 1
      BY <2>2, <3>2
    <3> QED BY <1>0, <1>2, <1>3, <2>1, <3>1, <3>3
  <2> QED BY <2>4, <2>5
<1>6. ASSUME NEW y \in Rest(f, x[2]) PROVE y \in Rest(f, at) /\ y # x
  <2>1. y \in lines_from_file(f) /\ x[2] < y[1]
    BY DEF Rest
  <2>2. y[1] \in Nat /\ x[2] \in Nat /\ x[1] \in Nat /\ x[1] <= x[2]
    BY <1>0, <1>2, <1>3, <1>1, <2>1
  <2> QED BY <1>2, <2>1, <2>2 DEF Rest
<1>7. Rest(f, at) \ {x} \subseteq Rest(f, x[2])
  BY <1>5 DEF Rest
<1>8. Rest(f, x[2]) \subseteq Rest(f, at) \ {x}
  BY <1>6
<1> QED BY <1>2, <1>3, <1>4, <1>7, <1>8

\* A connection that neither adds nor removes flags leaves the file alone, or
\* removes it.
LEMMA ServerElse ==
  ASSUME TypeInv, SessionInv, NEW n \in Conns, ServerStep(n), c[n].cmd \notin Adding \cup {"UNSUBSCRIBE"}
  PROVE  \/ RemoveEntries(n)
         \/ UNCHANGED <<flags, writes>> /\ (\A m \in Conns \ {n} : c'[m] = c[m]) /\ c'[n].cmd \in {c[n].cmd, "none"}
<1>1. Fits(c[n]) /\ Idle.cmd = "none"
  BY DEF SessionInv, Idle
<1>2. CASE ~RemoveEntries(n)
  <2>1. \A m \in Conns \ {n} : c'[m] = c[m]
    BY <1>2, StepFacts DEF ServerStep, create_dirs, Subdirs, add_flag, AppendLine, Added, remove_flag, Truncate, Rewrite, Removed,
             ReadValue, create_dir_all, CreateFile, WriteValue, RemoveDirectory, Fails, Answer, Tell, Fail
  <2>2. ~AppendLine(n) /\ ~Truncate(n) /\ ~Rewrite(n)
    BY <1>1 DEF AppendLine, Truncate, Rewrite, Fits, At
  <2>3. UNCHANGED <<flags, writes>>
    BY <1>2, <2>2 DEF ServerStep, create_dirs, Subdirs, add_flag, Added, remove_flag, Removed,
             ReadValue, create_dir_all, CreateFile, WriteValue, RemoveDirectory, Fails
  <2>4. c'[n].cmd \in {c[n].cmd, "none"}
    BY <1>1, ServerRuns
  <2> QED BY <2>1, <2>3, <2>4
<1> QED BY <1>2

\* The steps of a connection that removes the flag.
LEMMA ServerRemoving ==
  ASSUME TypeInv, SessionInv, NEW n \in Removing, ServerStep(n)
  PROVE  \/ remove_flag(n) \/ Truncate(n) \/ Rewrite(n)
         \/ Step(n, Idle) /\ UNCHANGED <<flags, writes>>
<1>1. n \in Conns /\ Fits(c[n]) /\ c[n].cmd = "UNSUBSCRIBE" /\ c[n].add = <<>> /\ c[n].pc \in {"add", "read lines", "truncate", "rewrite"}
  BY DEF Removing, SessionInv, Fits
<1>2. remove_flag(n) \/ Truncate(n) \/ Rewrite(n) \/ Added(n) \/ Removed(n) \/ Fails(n)
  BY <1>1 DEF ServerStep, create_dirs, Subdirs, add_flag, AppendLine, ReadValue, create_dir_all, CreateFile, WriteValue,
           RemoveEntries, RemoveDirectory, At
<1> QED BY <1>2 DEF Added, Removed, Fails, Answer, Fail

\* The next line is on its way to the file.
Rewritten(n, x, w) ==
  /\ \A y \in c[n].lines : x[1] <= y[1]
  /\ x \in lines_from_file(c[n].text) /\ line(c[n].text, x) # Subscribed /\ c[n].text \in Texts /\ c[n].at \in Nat
  /\ w.cmd = c[n].cmd /\ w.no = c[n].no /\ w.at = c[n].at /\ w.line = line(c[n].text, x)
  /\ writes' = IF c[n].gone THEN writes ELSE writes \cup {w}
  /\ c'[n].pc = "rewrite" /\ c'[n].cmd = c[n].cmd /\ c'[n].no = c[n].no /\ c'[n].gone = c[n].gone
  /\ c'[n].text = c[n].text /\ c'[n].lines = c[n].lines \ {x} /\ c'[n].at = c[n].at + Len(w.line)
  /\ Len(w.line) = x[2] - x[1] + 1 /\ x[1] \in Nat /\ x[2] \in Nat /\ x[1] <= x[2]
  /\ (\A m \in Conns \ {n} : c'[m] = c[m]) /\ flags' = flags

LEMMA RewriteFacts ==
  ASSUME TypeInv, SessionInv, NEW n \in Conns, Rewrite(n)
  PROVE  \E x \in c[n].lines : \E w : Rewritten(n, x, w)
<1>1. PICK x \in c[n].lines :
        /\ \A y \in c[n].lines : x[1] <= y[1]
        /\ writes' = IF c[n].gone THEN writes ELSE writes \cup {Write(n, c[n].at, line(c[n].text, x))}
        /\ Step(n, [c[n] EXCEPT !.lines = @ \ {x}, !.at = @ + 1 + x[2] - x[1]])
  BY DEF Rewrite
<1>2. PICK s, w : s = [c[n] EXCEPT !.lines = @ \ {x}, !.at = @ + 1 + x[2] - x[1]] /\ w = Write(n, c[n].at, line(c[n].text, x))
  OBVIOUS
<1>3. /\ s.pc = "rewrite" /\ s.text = c[n].text /\ s.lines = c[n].lines \ {x} /\ s.gone = c[n].gone
      /\ s.cmd = c[n].cmd /\ s.at = c[n].at + 1 + x[2] - x[1] /\ s.no = c[n].no
  BY <1>2, SessionFacts DEF Sessions, Rewrite, At
<1>4. w.cmd = c[n].cmd /\ w.no = c[n].no /\ w.at = c[n].at /\ w.line = line(c[n].text, x)
  BY <1>2 DEF Write
<1>5. /\ x \in lines_from_file(c[n].text) /\ line(c[n].text, x) # Subscribed /\ c[n].text \in Texts /\ c[n].at \in Nat
      /\ c[n].text \in AnyText
  BY SessionFacts DEF SessionInv, Fits, retain, retained, AnyText
<1>6. Len(w.line) = x[2] - x[1] + 1 /\ x[1] \in Nat /\ x[2] \in Nat /\ x[1] <= x[2]
  <2>1. Len(w.line) = x[2] - x[1] + 1 /\ x[1] \in 1 .. Len(c[n].text) /\ x[2] \in x[1] .. Len(c[n].text) /\ Len(c[n].text) \in Nat
    BY <1>4, <1>5, LineCells, LineFacts, TextFacts
  <2>2. x[1] \in Nat /\ x[2] \in Nat /\ x[1] <= x[2]
    BY <2>1
  <2> QED BY <2>1, <2>2
<1>7. s.at = c[n].at + Len(w.line)
  <2>1. c[n].at + 1 + x[2] - x[1] = c[n].at + (x[2] - x[1] + 1)
    BY <1>5, <1>6
  <2> QED BY <1>3, <1>6, <2>1
<1>8. c'[n] = s /\ \A m \in Conns \ {n} : c'[m] = c[m]
  BY <1>1, <1>2, StepFacts
<1>9. flags' = flags
  BY DEF Rewrite
<1>10. Rewritten(n, x, w)
  BY <1>1, <1>2, <1>3, <1>4, <1>5, <1>6, <1>7, <1>8, <1>9 DEF Rewritten
<1> QED BY <1>10

LEMMA CleanServer ==
  ASSUME TypeInv, SessionInv, FileInv, NEW k \in Conns, ServerStep(k), NEW n \in Removing, Clean(n), c'[n].cmd = "UNSUBSCRIBE"
  PROVE  Clean(n)'
<1>0. n \in Conns /\ c[n] \in Sessions /\ Fits(c[n]) /\ c[n].cmd = "UNSUBSCRIBE" /\ Idle.cmd = "none"
  BY SessionFacts DEF Removing, SessionInv, Idle
<1>n. "none" \notin Adding \cup {"UNSUBSCRIBE"}
  BY DEF Adding
<1>1. \A m \in Conns \ {n} : c[m].cmd \notin Adding \cup {"UNSUBSCRIBE"} /\ c'[m].cmd \notin Adding \cup {"UNSUBSCRIBE"}
  <2>1. \A m \in Conns : c'[m].cmd = c[m].cmd \/ c'[m].cmd = "none"
    BY <1>0, ServerRuns
  <2> QED BY <1>n, <2>1 DEF Clean
<1>2. CASE k # n
  <2>1. c[k].cmd \notin Adding \cup {"UNSUBSCRIBE"}
    BY <1>1, <1>2
  <2>2. CASE RemoveEntries(k)
    <3>1. flags' = NoFile /\ writes' = {}
      BY <2>2 DEF RemoveEntries
    <3>2. c'[n].pc = "rewrite" => c'[n].gone
      <4>1. n \in Conns \ {k}
        BY <1>0, <1>2
      <4>2. c'[n].pc = c[n].pc /\ c'[n].gone = (c[n].gone \/ c[n].pc \in {"rewrite", "write value"})
        BY <2>2, <4>1, RemoveFacts
      <4> QED BY <4>2
    <3> QED BY <1>1, <3>1, <3>2 DEF Clean, At
  <2>3. CASE UNCHANGED <<flags, writes>> /\ \A m \in Conns \ {k} : c'[m] = c[m]
    <3>1. c'[n] = c[n]
      BY <1>0, <1>2, <2>3
    <3> QED BY <1>1, <2>3, <3>1 DEF Clean, At, HasSubscribed, Boundary
  <2> QED BY <2>1, <2>2, <2>3, ServerElse
<1>3. CASE k = n
  <2>1. CASE remove_flag(n)
    <3>1. PICK s : s = [c[n] EXCEPT !.pc = "truncate", !.text = flags, !.lines = retain(flags)]
      OBVIOUS
    <3>2. s.pc = "truncate" /\ ~s.gone /\ c'[n] = s /\ c[n].pc = "read lines" /\ UNCHANGED <<flags, writes>>
      BY <1>0, <2>1, <3>1, StepFacts DEF Sessions, remove_flag, Fits, At
    <3>3. writes = {}
      BY <3>2 DEF Clean, At
    <3> QED BY <1>1, <3>2, <3>3 DEF Clean, At
  <2>2. CASE Truncate(n)
    <3>1. PICK s : s = [c[n] EXCEPT !.pc = "rewrite"]
      OBVIOUS
    <3>2. s.pc = "rewrite" /\ ~s.gone /\ s.at = 0 /\ c'[n] = s /\ c[n].pc = "truncate" /\ writes' = writes /\ flags' = <<>>
      BY <1>0, <2>2, <3>1, StepFacts DEF Sessions, Truncate, Fits, At
    <3>3. writes = {} /\ Len(<<>>) = 0
      BY <3>2 DEF Clean, At
    <3> QED BY <1>1, <3>2, <3>3, NothingInNoFile DEF Clean, At
  <2>3. CASE Rewrite(n)
    <3>0. PICK x \in c[n].lines : \E w : Rewritten(n, x, w)
      BY <1>0, <2>3, RewriteFacts
    <3>w. PICK w : Rewritten(n, x, w)
      BY <3>0
    <3>1. /\ w.line # Subscribed /\ w.no = c[n].no /\ w.at = c[n].at
          /\ writes' = IF c[n].gone THEN writes ELSE writes \cup {w}
          /\ c'[n].pc = "rewrite" /\ c'[n].no = c[n].no /\ c'[n].gone = c[n].gone
          /\ c'[n].at = c[n].at + Len(w.line) /\ flags' = flags
      BY <3>w DEF Rewritten
    <3>2. writes = {} /\ c[n].pc = "rewrite"
      BY <2>3 DEF Rewrite, Clean, At
    <3>3. CASE c[n].gone
      BY <1>1, <3>1, <3>2, <3>3 DEF Clean, At
    <3>4. CASE ~c[n].gone
      <4>1. writes' = {w} /\ c[n].at = Len(flags) /\ ~HasSubscribed(flags)
        BY <3>1, <3>2, <3>4 DEF Clean, At
      <4>2. ~HasSubscribed(flags)'
        BY <3>1, <4>1
      <4> QED BY <1>1, <3>1, <3>4, <4>1, <4>2 DEF Clean, At
    <3> QED BY <3>3, <3>4
  <2>4. CASE Step(n, Idle)
    BY <1>0, <2>4, StepFacts
  <2> QED BY <1>3, <2>1, <2>2, <2>3, <2>4, ServerRemoving
<1> QED BY <1>2, <1>3

LEMMA CleanNext == ASSUME TypeInv, SessionInv, FileInv, CleanInv, Next PROVE CleanInv'
<1>1. ASSUME NEW k \in Conns, Command(k) PROVE CleanInv'
  <2>0. PICK cmd \in Cmds \ {"none"} : \E s \in Starts(k, cmd) : Begins(k, cmd, s)
    BY <1>1, CommandSteps
  <2>1. PICK s \in Starts(k, cmd) : Begins(k, cmd, s)
    BY <2>0
  <2>2. /\ UNCHANGED <<dir, flags, writes>> /\ c'[k].cmd = cmd /\ SameWork(c'[k], s)
        /\ c'[k].clean = (Running \cap Undoes(cmd) = {})
    BY <2>1 DEF Begins
  <2>3. \A m \in Conns \ {k} : /\ c'[m].cmd = c[m].cmd /\ c'[m].no = c[m].no /\ SameWork(c'[m], c[m])
                               /\ c'[m].clean = (c[m].clean /\ cmd \notin Undoes(c[m].cmd))
    BY <2>1 DEF Begins
  <2>4. ASSUME NEW n \in Conns \ {k}, c'[n].clean, c'[n].cmd = "UNSUBSCRIBE" PROVE Clean(n)'
    <3>1. Clean(n) /\ cmd \notin Adding \cup {"UNSUBSCRIBE"}
      BY <2>3, <2>4 DEF CleanInv, Undoes
    <3>2. \A m \in Conns \ {n} : c'[m].cmd \notin Adding \cup {"UNSUBSCRIBE"}
      BY <2>2, <2>3, <3>1 DEF Clean
    <3>3. c'[n].pc = c[n].pc /\ c'[n].gone = c[n].gone /\ c'[n].at = c[n].at /\ c'[n].no = c[n].no
      BY <2>3 DEF SameWork
    <3> QED BY <2>2, <3>1, <3>2, <3>3 DEF Clean, At, HasSubscribed, Boundary
  <2>5. ASSUME c'[k].clean, c'[k].cmd = "UNSUBSCRIBE" PROVE Clean(k)'
    <3>1. Running \cap (Adding \cup {"UNSUBSCRIBE"}) = {} /\ cmd = "UNSUBSCRIBE"
      BY <2>2, <2>5 DEF Undoes
    <3>2. /\ \A m \in Conns : c[m].cmd \notin Adding \cup {"UNSUBSCRIBE"}
          /\ \A w \in writes : w.cmd \notin Adding \cup {"UNSUBSCRIBE"}
      BY <3>1 DEF Running
    <3>3. writes = {}
      BY <3>2 DEF FileInv
    <3>4. c'[k].pc = (IF dir = "none" THEN "add" ELSE "read lines") /\ ~c'[k].gone
      BY <2>2, <3>1 DEF SameWork, Starts
    <3>5. c'[k].pc = "add" => flags = NoFile
      BY <3>4 DEF FileInv
    <3> QED BY <2>2, <2>3, <3>2, <3>3, <3>4, <3>5 DEF Clean, At
  <2> QED BY <2>4, <2>5 DEF CleanInv
<1>2. ASSUME NEW k \in Conns, ServerStep(k) PROVE CleanInv'
  <2> SUFFICES ASSUME NEW n \in Conns, c'[n].clean, c'[n].cmd = "UNSUBSCRIBE" PROVE Clean(n)'
    BY DEF CleanInv
  <2>1. c[n].clean /\ c[n].cmd = "UNSUBSCRIBE"
    <3>1. Idle.cmd = "none"
      BY DEF Idle
    <3> QED BY <1>2, <3>1, ServerRuns
  <2>2. n \in Removing /\ Clean(n)
    BY <2>1 DEF CleanInv, Removing
  <2> QED BY <1>2, <2>2, CleanServer
<1>3. ASSUME NEW w \in writes, Land(w) PROVE CleanInv'
  <2>0. /\ flags \in Texts /\ flags' = Overwrite(flags, w.at, w.line) /\ w.line \in Lines /\ writes' = writes \ {w} /\ c' = c
        /\ flags # NoFile
    BY <1>3, LandFacts, NoFileIsNoText DEF Land
  <2> SUFFICES ASSUME NEW n \in Conns, c[n].clean, c[n].cmd = "UNSUBSCRIBE" PROVE Clean(n)'
    BY <2>0 DEF CleanInv
  <2>1. Clean(n)
    BY DEF CleanInv
  <2>2. /\ At(n, "rewrite") /\ ~c[n].gone /\ writes = {w} /\ w.at = Len(flags) /\ w.line # Subscribed
        /\ c[n].at = w.at + Len(w.line) /\ ~HasSubscribed(flags)
    BY <2>0, <2>1 DEF Clean
  <2>3. flags' = Overwrite(flags, End, w.line)
    BY <2>0, <2>2, AtTheEnd
  <2>4. ~HasSubscribed(flags') /\ Len(flags') = Len(flags) + Len(w.line)
    <3>1. Appended(flags, w.line, Overwrite(flags, End, w.line))
      BY <2>0, AppendFacts
    <3> QED BY <2>0, <2>2, <2>3, <3>1, AppendNoSubscribed DEF Appended
  <2>5. writes' = {}
    BY <2>0, <2>2
  <2> QED BY <2>0, <2>1, <2>2, <2>4, <2>5 DEF Clean, At
<1>4. CASE Crash
  BY <1>4 DEF Crash, CleanInv, Idle
<1> QED BY <1>1, <1>2, <1>3, <1>4 DEF Next

-----------------------------------------------------------------------------
(* Parts of the text that the last UNSUBSCRIBE left *)

LEMMA EmptyRest ==
  /\ Boundary(<<>>, 0) /\ Rest(<<>>, 0) = {}
  /\ \A g \in Texts : PartOf(<<>>, 0, g)
<1>1. <<>> \in AnyText /\ Len(<<>>) = 0
  BY KnownLines DEF AnyText
<1>2. lines_from_file(<<>>) = {}
  <2> SUFFICES ASSUME NEW x \in lines_from_file(<<>>) PROVE FALSE
    OBVIOUS
  <2>1. x[1] \in 1 .. 0
    BY <1>1, LineFacts
  <2> QED BY <2>1
<1>3. ASSUME NEW g \in Texts PROVE PartOf(<<>>, 0, g)
  <2>1. Len(g) \in Nat
    BY TextFacts DEF AnyText
  <2>2. 1 .. 0 = {} /\ 0 + 0 <= Len(g)
    BY <2>1
  <2> QED BY <1>1, <2>2 DEF PartOf
<1>4. Boundary(<<>>, 0)
  BY <1>1 DEF Boundary
<1> QED BY <1>2, <1>3, <1>4 DEF Rest

LEMMA WholeRest ==
  ASSUME NEW f \in Texts, ~HasSubscribed(f)
  PROVE  retain(f) = Rest(f, 0) /\ Boundary(f, 0)
<1>1. f \in AnyText /\ Len(f) \in Nat
  BY TextFacts DEF AnyText
<1>2. \A x \in lines_from_file(f) : line(f, x) # Subscribed
  BY <1>1, SubscribedLine
<1>3. \A x \in lines_from_file(f) : 0 < x[1]
  <2> SUFFICES ASSUME NEW x \in lines_from_file(f) PROVE 0 < x[1]
    OBVIOUS
  <2>1. x[1] \in 1 .. Len(f)
    BY <1>1, LineFacts
  <2> QED BY <1>1, <2>1
<1>4. Boundary(f, 0)
  BY <1>1 DEF Boundary
<1> QED BY <1>2, <1>3, <1>4 DEF retain, retained, Rest

LEMMA PartOfItself == ASSUME NEW f \in Texts PROVE PartOf(f, 0, f)
<1>1. Len(f) \in Nat
  BY TextFacts DEF AnyText
<1>2. \A k \in 1 .. Len(f) : 0 + k = k
  OBVIOUS
<1>3. 0 + Len(f) <= Len(f)
  BY <1>1
<1> QED BY <1>2, <1>3 DEF PartOf

\* A line of a part is a part, at the place where the line is.
LEMMA PartOfLine ==
  ASSUME NEW f \in Texts, NEW g \in Texts, PartOf(f, 0, g), NEW x \in lines_from_file(f)
  PROVE  PartOf(line(f, x), x[1] - 1, g)
<1>1. f \in AnyText /\ Len(f) \in Nat /\ Len(g) \in Nat
  BY TextFacts DEF AnyText
<1>2. x[1] \in 1 .. Len(f) /\ x[2] \in x[1] .. Len(f)
  BY <1>1, LineFacts
<1>3. Len(line(f, x)) = x[2] - x[1] + 1 /\ \A k \in 1 .. x[2] - x[1] + 1 : line(f, x)[k] = f[x[1] + k - 1]
  BY <1>1, LineCells
<1>4. Len(f) <= Len(g) /\ \A i \in 1 .. Len(f) : f[i] \in {g[i], Nul}
  BY <1>1 DEF PartOf
<1>5. (x[1] - 1) + Len(line(f, x)) <= Len(g)
  BY <1>1, <1>2, <1>3, <1>4
<1>6. ASSUME NEW k \in 1 .. Len(line(f, x)) PROVE line(f, x)[k] \in {g[(x[1] - 1) + k], Nul}
  <2>1. x[1] \in Nat /\ x[2] \in Nat /\ k \in 1 .. x[2] - x[1] + 1
    BY <1>2, <1>3
  <2>2. x[1] + k - 1 = (x[1] - 1) + k /\ x[1] + k - 1 \in 1 .. Len(f)
    BY <1>1, <1>2, <2>1
  <2>3. line(f, x)[k] = f[x[1] + k - 1]
    BY <1>3, <2>1
  <2>4. f[x[1] + k - 1] \in {g[x[1] + k - 1], Nul}
    BY <1>4, <2>2
  <2> QED BY <2>2, <2>3, <2>4
<1> QED BY <1>5, <1>6 DEF PartOf

\* What was read, written where it was, makes nothing else of the file.
LEMMA PartWritten ==
  ASSUME NEW f \in Texts, NEW g \in Texts, NEW l \in Lines, NEW at \in Nat, PartOf(f, 0, g), PartOf(l, at, g)
  PROVE  PartOf(Overwrite(f, at, l), 0, g)
<1>1. PICK h : h = Overwrite(f, at, l)
  OBVIOUS
<1>2. at # End
  BY DEF End
<1>3. Written(f, IF at = End THEN Len(f) ELSE at, l, Overwrite(f, at, l))
  BY OverwriteFacts
<1>4. /\ Len(f) \in Nat /\ Len(l) \in Nat \ {0} /\ Len(g) \in Nat
      /\ Len(h) = IF at + Len(l) > Len(f) THEN at + Len(l) ELSE Len(f)
      /\ \A k \in 1 .. Len(l) : h[at + k] = l[k]
      /\ \A k \in 1 .. Len(f) : k <= at \/ at + Len(l) < k => h[k] = f[k]
      /\ \A k \in Len(f) + 1 .. at : h[k] = Nul
  BY <1>1, <1>2, <1>3, TextFacts DEF Written, AnyText
<1>5. /\ Len(f) <= Len(g) /\ \A k \in 1 .. Len(f) : f[k] \in {g[k], Nul}
      /\ at + Len(l) <= Len(g) /\ \A k \in 1 .. Len(l) : l[k] \in {g[at + k], Nul}
  BY <1>4 DEF PartOf
<1>6. Len(h) \in Nat /\ 0 + Len(h) <= Len(g)
  BY <1>4, <1>5
<1>7. ASSUME NEW k \in 1 .. Len(h) PROVE h[k] \in {g[k], Nul}
  <2>1. CASE k \in 1 .. Len(f) /\ (k <= at \/ at + Len(l) < k)
    <3>1. h[k] = f[k]
      BY <1>4, <2>1
    <3>2. f[k] \in {g[k], Nul}
      BY <1>5, <2>1
    <3> QED BY <3>1, <3>2
  <2>2. CASE k \in Len(f) + 1 .. at
    <3>1. h[k] = Nul
      BY <1>4, <2>2
    <3> QED BY <3>1
  <2>3. CASE at < k /\ k <= at + Len(l)
    <3>1. PICK i \in Nat : i = k - at
      BY <2>3
    <3>2. i \in 1 .. Len(l) /\ at + i = k
      BY <1>4, <2>3, <3>1
    <3>3. h[at + i] = l[i] /\ l[i] \in {g[at + i], Nul}
      BY <1>4, <1>5, <3>2
    <3> QED BY <3>2, <3>3
  <2>4. k \in Nat /\ 1 <= k /\ k <= Len(h)
    BY <1>6
  <2> QED BY <1>4, <2>1, <2>2, <2>3, <2>4
<1>8. \A k \in 1 .. Len(h) : 0 + k = k
  OBVIOUS
<1>9. PartOf(h, 0, g)
  BY <1>6, <1>7, <1>8 DEF PartOf
<1> QED BY <1>1, <1>9

LEMMA PartAppended ==
  ASSUME NEW f \in Texts, NEW l \in Lines, NEW g, g = Overwrite(f, End, l)
  PROVE  g \in Texts /\ PartOf(f, 0, g) /\ PartOf(l, Len(f), g) /\ Len(f) \in Nat
<1>0. Appended(f, l, Overwrite(f, End, l))
  BY AppendFacts
<1>1. /\ g \in Texts /\ Len(f) \in Nat /\ Len(l) \in Nat \ {0} /\ Len(g) = Len(f) + Len(l)
      /\ \A k \in 1 .. Len(f) : g[k] = f[k]
      /\ \A k \in 1 .. Len(l) : g[Len(f) + k] = l[k]
  BY <1>0 DEF Appended
<1>2. PartOf(f, 0, g)
  <2>1. 0 + Len(f) <= Len(g) /\ \A k \in 1 .. Len(f) : 0 + k = k
    BY <1>1
  <2> QED BY <1>1, <2>1 DEF PartOf
<1>3. PartOf(l, Len(f), g)
  <2>1. Len(f) + Len(l) <= Len(g)
    BY <1>1
  <2> QED BY <1>1, <2>1 DEF PartOf
<1> QED BY <1>1, <1>2, <1>3

\* A step of the server takes nothing into the file that was not left.
LEMMA UnsubscribedServer ==
  ASSUME TypeInv, SessionInv, FileInv, NEW k \in Conns, ServerStep(k), Running \cap Adding = {},
         NEW g \in Texts, UnsubscribedIn(g)
  PROVE  UnsubscribedIn(g)'
<1>0. /\ ~HasSubscribed(g) /\ (flags = NoFile \/ PartOf(flags, 0, g))
      /\ \A w \in writes : w.at \in Nat /\ PartOf(w.line, w.at, g)
      /\ \A n \in Removing : Reads(c[n], g)
      /\ flags \in Texts \cup {NoFile}
  BY DEF UnsubscribedIn, TypeInv
<1>i. Idle.cmd = "none"
  BY DEF Idle
<1>1. CASE k \notin Removing
  <2>0. c[k].cmd \notin Adding \cup {"UNSUBSCRIBE"}
    BY <1>1, RunningFacts DEF Removing
  <2>1. CASE RemoveEntries(k)
    <3>1. flags' = NoFile /\ writes' = {}
      BY <2>1 DEF RemoveEntries
    <3>2. c'[k].cmd # "UNSUBSCRIBE"
      BY <1>i, <2>0, ServerRuns
    <3>3. ASSUME NEW n \in Removing' PROVE Reads(c'[n], g)
      <4>1. n \in Conns \ {k} /\ c'[n].cmd = "UNSUBSCRIBE"
        BY <3>2 DEF Removing
      <4>2. c[n].cmd = "UNSUBSCRIBE" /\ c'[n].text = c[n].text /\ c'[n].at = c[n].at /\ c'[n].lines = c[n].lines
        BY <2>1, <4>1, RemoveFacts
      <4>3. Reads(c[n], g)
        BY <1>0, <4>1, <4>2 DEF Removing
      <4> QED BY <4>2, <4>3 DEF Reads
    <3> QED BY <1>0, <3>1, <3>3 DEF UnsubscribedIn
  <2>2. CASE UNCHANGED <<flags, writes>> /\ (\A m \in Conns \ {k} : c'[m] = c[m]) /\ c'[k].cmd \in {c[k].cmd, "none"}
    <3>1. \A n \in Removing' : n \in Removing /\ c'[n] = c[n]
      BY <2>0, <2>2 DEF Removing
    <3> QED BY <1>0, <2>2, <3>1 DEF UnsubscribedIn
  <2> QED BY <2>0, <2>1, <2>2, ServerElse
<1>2. CASE k \in Removing
  <2>0. Reads(c[k], g) /\ c[k] \in Sessions /\ Fits(c[k]) /\ c[k].cmd = "UNSUBSCRIBE"
    BY <1>0, <1>2, SessionFacts DEF SessionInv, Removing
  \* It is enough to look at the connection itself.
  <2>a. ASSUME \A m \in Conns \ {k} : c'[m] = c[m], c'[k].cmd = "UNSUBSCRIBE" => Reads(c'[k], g)
        PROVE  \A n \in Removing' : Reads(c'[n], g)
    BY <1>0, <2>a DEF Removing
  <2>1. CASE remove_flag(k)
    <3>1. PICK s : s = [c[k] EXCEPT !.pc = "truncate", !.text = flags, !.lines = retain(flags)]
      OBVIOUS
    <3>2. s.text = flags /\ s.lines = retain(flags) /\ s.at = 0
      BY <2>0, <2>1, <3>1 DEF Sessions, remove_flag, Fits, At
    <3>3. c'[k] = s /\ (\A m \in Conns \ {k} : c'[m] = c[m]) /\ flags' = flags /\ writes' = writes /\ flags # NoFile
      BY <2>1, <3>1, StepFacts DEF remove_flag
    <3>4. flags \in Texts /\ PartOf(flags, 0, g) /\ ~HasSubscribed(flags)
      BY <1>0, <3>3, PartHasNot
    <3>5. Reads(c'[k], g)
      BY <3>2, <3>3, <3>4, WholeRest DEF Reads
    <3>6. \A n \in Removing' : Reads(c'[n], g)
      BY <2>a, <3>3, <3>5
    <3> QED BY <1>0, <3>3, <3>6 DEF UnsubscribedIn
  <2>2. CASE Truncate(k)
    <3>1. PICK s : s = [c[k] EXCEPT !.pc = "rewrite"]
      OBVIOUS
    <3>2. s.text = c[k].text /\ s.lines = c[k].lines /\ s.at = c[k].at
      BY <2>0, <3>1 DEF Sessions
    <3>3. c'[k] = s /\ (\A m \in Conns \ {k} : c'[m] = c[m]) /\ flags' = <<>> /\ writes' = writes
      BY <2>2, <3>1, StepFacts DEF Truncate
    <3>4. \A n \in Removing' : Reads(c'[n], g)
      BY <2>0, <2>a, <3>2, <3>3 DEF Reads
    <3>5. PartOf(flags', 0, g)
      BY <3>3, EmptyRest
    <3> QED BY <1>0, <3>3, <3>4, <3>5 DEF UnsubscribedIn
  <2>3. CASE Rewrite(k)
    <3>0. PICK x \in c[k].lines : \E w : Rewritten(k, x, w)
      BY <2>3, RewriteFacts
    <3>w. PICK w : Rewritten(k, x, w)
      BY <3>0
    <3>f. PICK f \in Texts : f = c[k].text
      BY <3>w DEF Rewritten
    <3>a. PICK at \in Nat : at = c[k].at
      BY <3>w DEF Rewritten
    <3>1. PartOf(f, 0, g) /\ Boundary(f, at) /\ c[k].lines = Rest(f, at) /\ x \in lines_from_file(f)
      BY <2>0, <3>f, <3>a, <3>w DEF Reads, Rewritten
    <3>2. \A y \in Rest(f, at) : x[1] <= y[1]
      BY <3>1, <3>w DEF Rewritten
    <3>3. x[1] = at + 1 /\ Boundary(f, x[2]) /\ Rest(f, at) \ {x} = Rest(f, x[2])
      BY <3>1, <3>2, NextLine
    <3>4. c'[k].at = x[2]
      <4>1. c'[k].at = at + Len(w.line) /\ Len(w.line) = x[2] - x[1] + 1 /\ x[1] \in Nat /\ x[2] \in Nat
        BY <3>w, <3>a DEF Rewritten
      <4> QED BY <3>3, <4>1
    <3>5. Reads(c'[k], g)
      <4>1. c'[k].text = f /\ c'[k].lines = Rest(f, x[2])
        BY <3>w, <3>f, <3>1, <3>3 DEF Rewritten
      <4> QED BY <3>1, <3>3, <3>4, <4>1 DEF Reads
    <3>6. w.at \in Nat /\ PartOf(w.line, w.at, g)
      <4>1. PartOf(line(f, x), x[1] - 1, g)
        BY <3>1, PartOfLine
      <4>2. x[1] - 1 = at
        BY <3>3
      <4> QED BY <3>w, <3>f, <3>a, <4>1, <4>2 DEF Rewritten
    <3>7. \A v \in writes' : v.at \in Nat /\ PartOf(v.line, v.at, g)
      <4>1. writes' \subseteq writes \cup {w}
        BY <3>w DEF Rewritten
      <4> QED BY <1>0, <3>6, <4>1
    <3>8. flags' = flags /\ \A n \in Removing' : Reads(c'[n], g)
      BY <2>a, <3>5, <3>w DEF Rewritten
    <3> QED BY <1>0, <3>7, <3>8 DEF UnsubscribedIn
  <2>4. CASE Step(k, Idle) /\ UNCHANGED <<flags, writes>>
    <3>1. c'[k] = Idle /\ \A m \in Conns \ {k} : c'[m] = c[m]
      BY <2>4, StepFacts
    <3>2. \A n \in Removing' : Reads(c'[n], g)
      BY <1>i, <2>a, <3>1
    <3> QED BY <1>0, <2>4, <3>2 DEF UnsubscribedIn
  <2> QED BY <1>2, <2>1, <2>2, <2>3, <2>4, ServerRemoving
<1> QED BY <1>1, <1>2

\* What an UNSUBSCRIBE that ran alone leaves, with the write that is still
\* under way.
LEMMA UnsubscribedAnswer ==
  ASSUME TypeInv, SessionInv, FileInv, CleanInv, NEW k \in Conns, ServerStep(k), known' # known, known' = "unsubscribed"
  PROVE  Running' \cap Adding = {} /\ \E g \in Texts : UnsubscribedIn(g)'
<1>1. /\ UNCHANGED <<flags, writes>> /\ Step(k, Idle) /\ c[k].clean /\ c[k].cmd = "UNSUBSCRIBE"
      /\ At(k, "add") \/ (At(k, "rewrite") /\ c[k].lines = {})
  BY ServerKnown
<1>2. Clean(k) /\ flags \in Texts \cup {NoFile}
  BY <1>1 DEF CleanInv, TypeInv
<1>3. c'[k].cmd = "none" /\ \A m \in Conns \ {k} : c'[m].cmd \notin Adding \cup {"UNSUBSCRIBE"}
  <2>1. c'[k] = Idle /\ \A m \in Conns \ {k} : c'[m] = c[m]
    BY <1>1, StepFacts
  <2> QED BY <1>2, <2>1 DEF Clean, Idle
<1>4. "none" \notin Adding \cup {"UNSUBSCRIBE"}
  BY DEF Adding
<1>5. Removing' = {}
  BY <1>3, <1>4 DEF Removing
\* Nothing is in the folder any more.
<1>6. CASE flags = NoFile
  <2>1. writes = {}
    BY <1>6 DEF FileInv
  <2>2. Running' \cap Adding = {}
    BY <1>1, <1>3, <1>4, <2>1 DEF Running
  <2>3. UnsubscribedIn(<<>>)'
    BY <1>1, <1>5, <1>6, <2>1, NothingInNoFile DEF UnsubscribedIn
  <2> QED BY <2>2, <2>3, KnownLines
<1>7. CASE flags # NoFile
  <2>1. /\ At(k, "rewrite") /\ ~c[k].gone /\ ~HasSubscribed(flags) /\ (\A v, w \in writes : v = w)
        /\ \A w \in writes : w.at = Len(flags) /\ w.line # Subscribed
    BY <1>1, <1>2, <1>7 DEF Clean, At
  <2>2. flags \in Texts /\ Len(flags) \in Nat
    BY <1>2, <1>7, TextFacts DEF AnyText
  <2>3. \A w \in writes : w.cmd = "UNSUBSCRIBE"
    <3>1. Len(flags) # End
      BY <2>2 DEF End
    <3> QED BY <2>1, <3>1 DEF FileInv
  <2>4. Running' \cap Adding = {}
    BY <1>1, <1>3, <1>4, <2>3 DEF Running, Adding
  <2>5. CASE writes = {}
    <3>1. PICK g \in Texts : g = flags
      BY <2>2
    <3>2. ~HasSubscribed(g) /\ PartOf(flags', 0, g) /\ writes' = {}
      BY <1>1, <2>1, <2>5, <3>1, PartOfItself
    <3>3. UnsubscribedIn(g)'
      BY <1>5, <3>2 DEF UnsubscribedIn
    <3> QED BY <2>4, <3>3
  <2>6. ASSUME NEW w \in writes PROVE \E g \in Texts : UnsubscribedIn(g)'
    <3>1. PICK g : g = Overwrite(flags, End, w.line)
      OBVIOUS
    <3>2. w.line \in Lines /\ w.at = Len(flags) /\ w.line # Subscribed
      BY <2>1 DEF TypeInv
    <3>3. g \in Texts /\ PartOf(flags, 0, g) /\ PartOf(w.line, w.at, g) /\ w.at \in Nat /\ ~HasSubscribed(g)
      BY <2>1, <2>2, <3>1, <3>2, PartAppended, AppendNoSubscribed
    <3>4. \A v \in writes' : v = w
      BY <1>1, <2>1
    <3>5. UnsubscribedIn(g)'
      BY <1>1, <1>5, <3>3, <3>4 DEF UnsubscribedIn
    <3> QED BY <3>3, <3>5
  <2> QED BY <2>4, <2>5, <2>6
<1> QED BY <1>6, <1>7

LEMMA UnsubscribedNext ==
  ASSUME TypeInv, SessionInv, FileInv, CleanInv, UnsubscribedInv, Next PROVE UnsubscribedInv'
<1>1. ASSUME NEW k \in Conns, Command(k) PROVE UnsubscribedInv'
  <2>0. PICK cmd \in Cmds \ {"none"} : \E s \in Starts(k, cmd) : Begins(k, cmd, s)
    BY <1>1, CommandSteps
  <2>1. PICK s \in Starts(k, cmd) : Begins(k, cmd, s)
    BY <2>0
  <2>2. UNCHANGED <<flags, writes>> /\ c'[k].cmd = cmd /\ SameWork(c'[k], s)
    BY <2>1 DEF Begins
  <2>3. \A m \in Conns \ {k} : c'[m].cmd = c[m].cmd /\ SameWork(c'[m], c[m])
    BY <2>1 DEF Begins
  <2> SUFFICES ASSUME known' = "unsubscribed" PROVE (Running \cap Adding = {} /\ \E g \in Texts : UnsubscribedIn(g))'
    BY DEF UnsubscribedInv
  <2>4. known = "unsubscribed" /\ cmd \notin Adding
    BY <2>1 DEF Begins
  <2>5. PICK g \in Texts : UnsubscribedIn(g)
    BY <2>4 DEF UnsubscribedInv
  <2>6. Running' \cap Adding = {}
    <3>1. (\A m \in Conns : c[m].cmd \notin Adding) /\ \A w \in writes : w.cmd \notin Adding
      BY <2>4, RunningFacts DEF UnsubscribedInv
    <3>2. (\A m \in Conns : c'[m].cmd \notin Adding) /\ \A w \in writes' : w.cmd \notin Adding
      BY <2>2, <2>3, <2>4, <3>1
    <3> QED BY <3>2 DEF Running
  <2>7. \A n \in Removing' : Reads(c'[n], g)
    <3> SUFFICES ASSUME NEW n \in Conns, c'[n].cmd = "UNSUBSCRIBE" PROVE Reads(c'[n], g)
      BY DEF Removing
    <3>1. CASE n = k
      <4>1. c'[n].text = <<>> /\ c'[n].at = 0 /\ c'[n].lines = {}
        BY <2>2, <3>1 DEF SameWork, Starts
      <4> QED BY <4>1, EmptyRest DEF Reads
    <3>2. CASE n # k
      <4>1. c[n].cmd = "UNSUBSCRIBE" /\ SameWork(c'[n], c[n])
        BY <2>3, <3>2
      <4>2. Reads(c[n], g)
        BY <2>5, <4>1 DEF UnsubscribedIn, Removing
      <4> QED BY <4>1, <4>2 DEF Reads, SameWork
    <3> QED BY <3>1, <3>2
  <2>8. UnsubscribedIn(g)'
    BY <2>2, <2>5, <2>7 DEF UnsubscribedIn
  <2> QED BY <2>6, <2>8
<1>2. ASSUME NEW k \in Conns, ServerStep(k) PROVE UnsubscribedInv'
  <2> SUFFICES ASSUME known' = "unsubscribed" PROVE (Running \cap Adding = {} /\ \E g \in Texts : UnsubscribedIn(g))'
    BY DEF UnsubscribedInv
  <2>1. CASE known' # known
    BY <1>2, <2>1, UnsubscribedAnswer
  <2>2. CASE known' = known
    <3>1. Running \cap Adding = {} /\ \E g \in Texts : UnsubscribedIn(g)
      BY <2>2 DEF UnsubscribedInv
    <3>2. PICK g \in Texts : UnsubscribedIn(g)
      BY <3>1
    <3>3. UnsubscribedIn(g)'
      BY <1>2, <3>1, <3>2, UnsubscribedServer
    <3>4. "none" \notin Adding
      BY DEF Adding
    <3>5. Running' \cap Adding = {}
      BY <1>2, <3>1, <3>4, ServerStarts
    <3> QED BY <3>3, <3>5
  <2> QED BY <2>1, <2>2
<1>3. ASSUME NEW w \in writes, Land(w) PROVE UnsubscribedInv'
  <2>0. /\ flags \in Texts /\ flags' = Overwrite(flags, w.at, w.line) /\ w.line \in Lines /\ writes' = writes \ {w}
        /\ UNCHANGED <<c, known>> /\ flags # NoFile
    BY <1>3, LandFacts, NoFileIsNoText DEF Land, history
  <2> SUFFICES ASSUME known = "unsubscribed" PROVE (Running \cap Adding = {} /\ \E g \in Texts : UnsubscribedIn(g))'
    BY <2>0 DEF UnsubscribedInv
  <2>1. Running' \cap Adding = {}
    BY <2>0 DEF UnsubscribedInv, Running
  <2>2. PICK g \in Texts : UnsubscribedIn(g)
    BY DEF UnsubscribedInv
  <2>3. PartOf(flags, 0, g) /\ w.at \in Nat /\ PartOf(w.line, w.at, g)
    BY <2>0, <2>2 DEF UnsubscribedIn
  <2>4. PartOf(flags', 0, g)
    BY <2>0, <2>3, PartWritten
  <2>5. Removing' = Removing
    BY <2>0 DEF Removing
  <2>6. UnsubscribedIn(g)'
    BY <2>0, <2>2, <2>4, <2>5 DEF UnsubscribedIn
  <2> QED BY <2>1, <2>6
<1>4. CASE Crash
  <2>1. /\ \A n \in Conns : c'[n].cmd = "none"
        /\ writes' = {} /\ flags' = flags /\ (known' = "unsubscribed" => known = "unsubscribed")
    BY <1>4 DEF Crash, Idle
  <2> SUFFICES ASSUME known = "unsubscribed" PROVE (Running \cap Adding = {} /\ \E g \in Texts : UnsubscribedIn(g))'
    BY <2>1 DEF UnsubscribedInv
  <2>2. PICK g \in Texts : UnsubscribedIn(g)
    BY DEF UnsubscribedInv
  <2>3. Removing' = {} /\ Running' \cap Adding = {}
    BY <2>1 DEF Removing, Running, Adding
  <2>4. UnsubscribedIn(g)'
    BY <2>1, <2>2, <2>3 DEF UnsubscribedIn
  <2> QED BY <2>3, <2>4
<1> QED BY <1>1, <1>2, <1>3, <1>4 DEF Next

-----------------------------------------------------------------------------
(* The invariant *)

LEMMA InitInv == Init => IInv
<1> SUFFICES ASSUME Init PROVE IInv
  OBVIOUS
<1>1. /\ writes = {} /\ (\A n \in Conns : c[n] = Idle) /\ c = [n \in Conns |-> Idle] /\ known = "unknown" /\ special = FALSE
      /\ settled = 0 /\ commands = 0 /\ crashes = 0 /\ dir \in Dirs /\ flags \in Before /\ validity \in {None, Empty} \cup Times
      /\ dir = "none" => flags = NoFile /\ validity = None
  BY DEF Init, Dirs
<1>2. Idle \in Sessions /\ Idle.pc = "idle" /\ Idle.cmd = "none" /\ Idle.expect = 0 /\ ~Idle.clean
  BY IdleFacts DEF Idle
<1>3. TypeInv
  BY <1>1, <1>2, BeforeFacts DEF TypeInv
<1>4. SessionInv
  <2>1. Fits(Idle)
    BY IdleFacts DEF Fits, Idle, Adding
  <2> QED BY <1>1, <2>1 DEF SessionInv
<1>5. FileInv /\ UidInv
  BY <1>1, <1>2 DEF FileInv, UidInv, At
<1>6. SubscribedInv /\ SpecialInv /\ CleanInv /\ UnsubscribedInv
  BY <1>1, <1>2 DEF SubscribedInv, SpecialInv, CleanInv, UnsubscribedInv
<1> QED BY <1>3, <1>4, <1>5, <1>6 DEF IInv

LEMMA NextInv == IInv /\ [Next]_vars => IInv'
<1> SUFFICES ASSUME IInv, [Next]_vars PROVE IInv'
  OBVIOUS
<1>0. TypeInv /\ SessionInv /\ FileInv /\ UidInv /\ SubscribedInv /\ SpecialInv /\ CleanInv /\ UnsubscribedInv
  BY DEF IInv
<1>1. CASE Next
  <2>1. TypeInv' /\ SessionInv' /\ FileInv' /\ UidInv'
    BY <1>0, <1>1, TypeNext, SessionNext, FileNext, UidNext
  <2>2. SubscribedInv' /\ SpecialInv'
    BY <1>0, <1>1, SubscribedNext, SpecialNext
  <2>3. CleanInv' /\ UnsubscribedInv'
    BY <1>0, <1>1, CleanNext, UnsubscribedNext
  <2> QED BY <2>1, <2>2, <2>3 DEF IInv
<1>2. CASE UNCHANGED vars
  <2>1. UNCHANGED <<dir, flags, validity, writes, c, known, special, settled, commands, crashes>>
    BY <1>2 DEF vars, history
  <2>2. TypeInv' /\ SessionInv' /\ FileInv' /\ UidInv'
    BY <1>0, <2>1 DEF TypeInv, SessionInv, FileInv, UidInv, At, Creating
  <2>3. Running' = Running /\ Removing' = Removing /\ Rewrites' = Rewrites
    BY <2>1 DEF Running, Removing, Rewrites
  <2>4. SubscribedInv'
    BY <1>0, <2>1, <2>3 DEF SubscribedInv, Subscribing, Held
  <2>5. SpecialInv'
    BY <1>0, <2>1, <2>3 DEF SpecialInv, Special, Keeps, KeepsWith, SentIsLeft, At
  <2>6. CleanInv'
    BY <1>0, <2>1 DEF CleanInv, Clean, At
  <2>7. UnsubscribedInv'
    BY <1>0, <2>1, <2>3 DEF UnsubscribedInv, UnsubscribedIn
  <2> QED BY <2>2, <2>4, <2>5, <2>6, <2>7 DEF IInv
<1> QED BY <1>1, <1>2

-----------------------------------------------------------------------------
(* Theorems *)

\* The invariant holds in every state that the server reaches.
THEOREM Invariant == Spec => []IInv
  BY InitInv, NextInv, PTL DEF Spec

\* Every variable has its type: the flags file is whole lines, however the
\* writes of several connections land in it.
THEOREM TypeCorrect == Spec => []TypeInv
<1>1. IInv => TypeInv
  BY DEF IInv
<1> QED BY <1>1, Invariant, PTL

\* get_or_create_uidvalidity: after a UIDVALIDITY was told while nobody was
\* creating one, everybody is told the same.
THEOREM StableUidValidity == Spec => []UidValidityIsStable
<1>1. IInv => UidValidityIsStable
  BY DEF IInv, UidInv, UidValidityIsStable, TypeInv, Sessions
<1> QED BY <1>1, Invariant, PTL

\* add_flag: a folder whose SUBSCRIBE was answered stays subscribed, through
\* other commands that add flags and through restarts.
THEOREM SubscriptionKept == Spec => []SubscriptionHolds
<1>1. ASSUME IInv PROVE SubscriptionHolds
  <2>1. known = "subscribed" => Held
    BY <1>1 DEF IInv, SubscribedInv
  <2>2. flags \in AnyText
    BY <1>1 DEF IInv, TypeInv, AnyText
  <2>3. HasSubscribed(flags) => Subscribed \in get_flags
    BY <2>2, SubscribedLine DEF get_flags
  <2> QED BY <2>1, <2>3 DEF Held, SubscriptionHolds
<1> QED BY <1>1, Invariant, PTL

\* remove_flag: \Sent is in the file again when the UNSUBSCRIBE that emptied
\* it is over and its last write has landed.
THEOREM SpecialKept == Spec => []SpecialUseKept
<1>1. ASSUME IInv PROVE SpecialUseKept
  <2> SUFFICES ASSUME special, "UNSUBSCRIBE" \notin Running PROVE Sent \in get_flags
    BY DEF SpecialUseKept
  <2>1. Removing = {} /\ Rewrites = {}
    BY DEF Running, Removing, Rewrites
  <2>2. SentIn(flags, Len(flags)) /\ flags \in AnyText
    BY <1>1, <2>1 DEF IInv, SpecialInv, Special, TypeInv, AnyText
  <2> QED BY <2>2, SentInAText DEF get_flags
<1> QED BY <1>1, Invariant, PTL

\* remove_flag: after an UNSUBSCRIBE that ran alone the flag is not in the
\* file, and later UNSUBSCRIBEs, whatever overlaps them, do not bring it back.
THEOREM UnsubscribedStays == Spec => []UnsubscribedIsGone
<1>1. ASSUME IInv PROVE UnsubscribedIsGone
  <2> SUFFICES ASSUME known = "unsubscribed" PROVE Subscribed \notin get_flags
    BY DEF UnsubscribedIsGone
  <2>1. PICK g \in Texts : UnsubscribedIn(g)
    BY <1>1 DEF IInv, UnsubscribedInv
  <2>2. flags \in Texts \cup {NoFile} /\ flags \in AnyText
    BY <1>1 DEF IInv, TypeInv, AnyText
  <2>3. ~HasSubscribed(flags)
    BY <2>1, <2>2, PartHasNot, NothingInNoFile DEF UnsubscribedIn
  <2> QED BY <2>2, <2>3, SubscribedLine DEF get_flags
<1> QED BY <1>1, Invariant, PTL

=============================================================================
