-------------------------- MODULE HttpExec_proofs --------------------------
(***************************************************************************)
(* Proofs that what html.c makes of any text has its paragraphs and tables *)
(* closed, and that every client of httpd-exec gets the output of one      *)
(* execution of the command, its own: for any number of clients, whatever  *)
(* they do and whatever the command prints.                                *)
(***************************************************************************)
EXTENDS HttpExec, SeqLemmas_proofs

-----------------------------------------------------------------------------
(* The converter.  Places are where a reader of its output may be.          *)
Places == {"start", "body", "p", "table", "td", "end", "error"}
Names == {"<body>", "</body>", "<p>", "</p>", "<table>", "</table>",
          "<tr><td>", "</td><td>", "</td></tr>"}
Marks == {Tag(name) : name \in Names} \cup {Cell(size) : size \in Nat}

LEMMA AfterType == \A where \in Places, item \in Marks : After(where, item) \in Places
  BY DEF After, Places

(* f is how PlaceAfter(where, s) comes about.                               *)
Reads(f, where, s) ==
  /\ f \in [0..Len(s) -> Places]
  /\ f[0] = where
  /\ \A n \in 1..Len(s) : f[n] = After(f[n - 1], s[n])
  /\ PlaceAfter(where, s) = f[Len(s)]

LEMMA ReadsExists ==
  ASSUME NEW where \in Places, NEW s \in Seq(Marks)
  PROVE  \E f : Reads(f, where, s)
<1> DEFINE N == Len(s)
           G == [p \in (1..N) \X Places |-> After(p[2], s[p[1]])]
           Body(f) == [n \in 0..N |-> IF n = 0 THEN where ELSE After(f[n - 1], s[n])]
           F == CHOOSE f : f = Body(f)
<1>1. N \in Nat /\ \A k \in 1..N : s[k] \in Marks
  OBVIOUS
<1>2. G \in [(1..N) \X Places -> Places]
  BY <1>1, AfterType
<1>3. \A n \in 1..N, v \in Places : G[<<n, v>>] = After(v, s[n])
  OBVIOUS
<1> HIDE DEF G
<1>4. PICK f : Recursion(f, N, Places, where, G)
  <2> HIDE DEF N
  <2> QED
    BY <1>1, <1>2, RecursionExists
<1>5. /\ f \in [0..N -> Places] /\ f[0] = where
      /\ \A n \in 1..N : f[n] = After(f[n - 1], s[n])
  <2>1. /\ f \in [0..N -> Places] /\ f[0] = where
        /\ \A n \in 1..N : f[n] = G[<<n, f[n - 1]>>]
    BY <1>4 DEF Recursion
  <2>2. \A n \in 1..N : n - 1 \in 0..N
    BY <1>1
  <2> HIDE DEF N
  <2> QED
    BY <1>3, <2>1, <2>2
<1>6. f = Body(f)
  <2>1. ASSUME NEW n \in 0..N
        PROVE  f[n] = IF n = 0 THEN where ELSE After(f[n - 1], s[n])
    <3>1. n = 0 \/ n \in 1..N
      BY <1>1
    <3> HIDE DEF N
    <3> QED
      BY <1>5, <3>1
  <2> HIDE DEF N
  <2> QED
    BY <1>5, <2>1
<1>7. F = Body(F)
  <2> HIDE DEF Body
  <2> QED
    BY <1>6
<1>8. PlaceAfter(where, s) = F[N]
  BY DEF PlaceAfter
<1>9. \A n \in 0..N : F[n] = IF n = 0 THEN where ELSE After(F[n - 1], s[n])
  <2> HIDE DEF F, N
  <2> QED
    BY <1>7
<1> HIDE DEF F, Body
<1>10. F[0] = where /\ \A n \in 1..N : F[n] = After(F[n - 1], s[n])
  <2>1. 0 \in 0..N /\ \A n \in 1..N : n \in 0..N /\ n # 0
    BY <1>1
  <2> HIDE DEF N
  <2> QED
    BY <1>9, <2>1
<1>11. \A n \in 0..N : F[n] = f[n]
  <2> HIDE DEF N
  <2>1. SameSteps(F, f, N)
    BY <1>5, <1>10 DEF SameSteps
  <2> QED
    BY <1>1, <2>1, RecursionUnique
<1>12. PlaceAfter(where, s) = f[N]
  <2>1. N \in 0..N
    BY <1>1
  <2> HIDE DEF N
  <2> QED
    BY <1>8, <1>11, <2>1
<1> QED
  BY <1>5, <1>12 DEF Reads

LEMMA PlaceType ==
  ASSUME NEW where \in Places, NEW s \in Seq(Marks)
  PROVE  PlaceAfter(where, s) \in Places
<1>1. PICK f : Reads(f, where, s)
  BY ReadsExists
<1>2. Len(s) \in 0..Len(s)
  OBVIOUS
<1> QED
  BY <1>1, <1>2 DEF Reads

LEMMA PlaceAfterNone ==
  ASSUME NEW where \in Places
  PROVE  PlaceAfter(where, <<>>) = where
<1>1. PICK s \in Seq(Marks) : s = <<>> /\ Len(s) = 0
  <2>1. <<>> \in Seq(Marks) /\ Len(<<>>) = 0
    OBVIOUS
  <2> QED
    BY <2>1
<1>2. PICK f : Reads(f, where, s)
  BY ReadsExists
<1> QED
  BY <1>1, <1>2 DEF Reads

LEMMA PlaceAfterOne ==
  ASSUME NEW where \in Places, NEW item \in Marks
  PROVE  PlaceAfter(where, <<item>>) = After(where, item)
<1>1. PICK s \in Seq(Marks) : s = <<item>> /\ Len(s) = 1 /\ s[1] = item
  <2>1. <<item>> \in Seq(Marks) /\ Len(<<item>>) = 1 /\ <<item>>[1] = item
    OBVIOUS
  <2> QED
    BY <2>1
<1>2. PICK f : Reads(f, where, s)
  BY ReadsExists
<1>3. f[0] = where /\ f[1] = After(f[1 - 1], s[1]) /\ PlaceAfter(where, s) = f[1] /\ 1 - 1 = 0
  BY <1>1, <1>2 DEF Reads
<1> QED
  BY <1>1, <1>3

(* A reader of two parts goes on where the first part left it.              *)
LEMMA PlaceAfterBoth ==
  ASSUME NEW where \in Places, NEW s \in Seq(Marks), NEW t \in Seq(Marks)
  PROVE  PlaceAfter(where, s \o t) = PlaceAfter(PlaceAfter(where, s), t)
<1>1. PICK N \in Nat, M \in Nat : N = Len(s) /\ M = Len(t)
  OBVIOUS
<1>2. PICK r \in Seq(Marks) : /\ r = s \o t /\ Len(r) = N + M
                              /\ \A j \in 1..N + M : r[j] = IF j <= N THEN s[j] ELSE t[j - N]
  <2>1. /\ s \o t \in Seq(Marks) /\ Len(s \o t) = Len(s) + Len(t)
        /\ \A j \in 1..Len(s) + Len(t) :
             (s \o t)[j] = IF j <= Len(s) THEN s[j] ELSE t[j - Len(s)]
    BY ConcatProperties
  <2> QED
    BY <1>1, <2>1
<1>3. PICK f : Reads(f, where, s)
  BY ReadsExists
<1>4. PICK g : Reads(g, PlaceAfter(where, s), t)
  BY PlaceType, ReadsExists
<1>5. PICK h : Reads(h, where, r)
  BY ReadsExists
<1> DEFINE k == [n \in 0..N + M |-> IF n <= N THEN f[n] ELSE g[n - N]]
<1>6. f[N] = g[0]
  BY <1>1, <1>3, <1>4 DEF Reads
<1>7. h[0] = k[0]
  BY <1>1, <1>3, <1>5 DEF Reads
<1>8. ASSUME NEW n \in 1..N + M, h[n - 1] = k[n - 1] PROVE h[n] = k[n]
  <2>1. h[n] = After(k[n - 1], r[n])
    BY <1>2, <1>5, <1>8 DEF Reads
  <2>2. CASE n <= N
    <3>1. n \in 1..N /\ k[n] = f[n] /\ k[n - 1] = f[n - 1] /\ r[n] = s[n]
      BY <1>2, <2>2
    <3>2. f[n] = After(f[n - 1], s[n])
      BY <1>1, <1>3, <3>1 DEF Reads
    <3> QED
      BY <2>1, <3>1, <3>2
  <2>3. CASE n > N
    <3>1. n - N \in 1..M /\ (n - N) - 1 = (n - 1) - N /\ ~(n <= N)
      BY <2>3
    <3>2. k[n] = g[n - N] /\ r[n] = t[n - N]
      BY <1>2, <3>1
    <3>3. k[n - 1] = g[(n - N) - 1]
      <4>1. CASE n - 1 = N
        BY <1>6, <4>1
      <4>2. CASE n - 1 # N
        <5>1. n - 1 \in 0..N + M /\ ~(n - 1 <= N)
          BY <2>3, <4>2
        <5> QED
          BY <3>1, <5>1
      <4> QED
        BY <4>1, <4>2
    <3>4. g[n - N] = After(g[(n - N) - 1], t[n - N])
      BY <1>1, <1>4, <3>1 DEF Reads
    <3> HIDE DEF k
    <3> QED
      BY <2>1, <3>2, <3>3, <3>4
  <2> QED
    BY <2>2, <2>3
<1>9. h[N + M] = k[N + M]
  <2> HIDE DEF k
  <2>1. SameSteps(h, k, N + M) /\ N + M \in Nat
    BY <1>7, <1>8 DEF SameSteps
  <2>2. \A n \in 0..N + M : h[n] = k[n]
    BY <2>1, RecursionUnique
  <2> QED
    BY <2>1, <2>2
<1>10. k[N + M] = g[M]
  <2>1. CASE M = 0
    BY <1>6, <2>1
  <2>2. CASE M # 0
    BY <2>2
  <2> QED
    BY <2>1, <2>2
<1>11. PlaceAfter(where, r) = h[N + M] /\ PlaceAfter(PlaceAfter(where, s), t) = g[M]
  BY <1>1, <1>2, <1>4, <1>5 DEF Reads
<1> HIDE DEF k
<1> QED
  BY <1>2, <1>9, <1>10, <1>11

(* Once out of place, always out of place: what is right has no part that   *)
(* is wrong.                                                                *)
LEMMA PartIsRight ==
  ASSUME NEW where \in Places, NEW s \in Seq(Marks), NEW m \in 0..Len(s),
         PlaceAfter(where, s) # "error"
  PROVE  PlaceAfter(where, SubSeq(s, 1, m)) # "error"
<1>1. PICK N \in Nat : N = Len(s)
  OBVIOUS
<1>2. PICK t \in Seq(Marks) : /\ t = SubSeq(s, 1, m) /\ Len(t) = m
                              /\ \A i \in 1..m : t[i] = s[i]
  <2>1. /\ SubSeq(s, 1, m) \in Seq(Marks) /\ Len(SubSeq(s, 1, m)) = m
        /\ \A i \in 1..m : SubSeq(s, 1, m)[i] = s[i]
    BY <1>1
  <2> QED
    BY <2>1
<1>3. PICK f : Reads(f, where, s)
  BY ReadsExists
<1>4. PICK g : Reads(g, where, t)
  BY ReadsExists
<1>5. m \in Nat /\ m <= N
  BY <1>1
<1>6. \A n \in 0..m : g[n] = f[n]
  <2>1. ASSUME NEW n \in 1..m, g[n - 1] = f[n - 1] PROVE g[n] = f[n]
    <3>1. n \in 1..N /\ n \in 1..Len(t) /\ t[n] = s[n]
      BY <1>2, <1>5
    <3>2. f[n] = After(f[n - 1], s[n]) /\ g[n] = After(g[n - 1], t[n])
      BY <1>1, <1>3, <1>4, <3>1 DEF Reads
    <3> QED
      BY <2>1, <3>1, <3>2
  <2>2. g[0] = f[0]
    BY <1>3, <1>4 DEF Reads
  <2>3. SameSteps(g, f, m)
    BY <2>1, <2>2 DEF SameSteps
  <2> QED
    BY <1>5, <2>3, RecursionUnique
<1>7. PlaceAfter(where, t) = f[m] /\ PlaceAfter(where, s) = f[N]
  BY <1>1, <1>2, <1>3, <1>4, <1>5, <1>6 DEF Reads
<1>8. SUFFICES ASSUME f[m] = "error" PROVE f[N] = "error"
  BY <1>2, <1>7
<1> DEFINE h == [n \in 0..N - m |-> f[m + n]]
           e == [n \in 0..N - m |-> "error"]
<1>9. N - m \in Nat /\ h[0] = e[0]
  BY <1>5, <1>8
<1>10. ASSUME NEW n \in 1..N - m, h[n - 1] = e[n - 1] PROVE h[n] = e[n]
  <2>1. m + n \in 1..N /\ m + (n - 1) = (m + n) - 1 /\ n - 1 \in 0..N - m
    BY <1>5
  <2>2. f[(m + n) - 1] = "error"
    BY <1>10, <2>1
  <2>3. f[m + n] = After("error", s[m + n])
    BY <1>1, <1>3, <2>1, <2>2 DEF Reads
  <2>4. After("error", s[m + n]) = "error"
    BY DEF After
  <2> QED
    BY <2>3, <2>4
<1>11. SameSteps(h, e, N - m)
  <2> HIDE DEF h, e
  <2> QED
    BY <1>9, <1>10 DEF SameSteps
<1>12. h[N - m] = e[N - m]
  <2> HIDE DEF h, e
  <2>1. \A n \in 0..N - m : h[n] = e[n]
    BY <1>9, <1>11, RecursionUnique
  <2> QED
    BY <1>9, <2>1
<1> QED
  BY <1>5, <1>12

(* Lists of tags after which the reader is where it was.                    *)
Round(where) == {s \in Seq(Marks) : PlaceAfter(where, s) = where}

LEMMA RoundsAreRound ==
  ASSUME NEW where \in Places, NEW w \in Seq(Round(where))
  PROVE  FlattenSeq(w) \in Round(where)
<1>1. PICK N \in Nat : N = Len(w)
  OBVIOUS
<1>2. \A n \in 1..N : w[n] \in Seq(Marks) /\ PlaceAfter(where, w[n]) = where
  <2>1. \A n \in 1..N : w[n] \in Round(where)
    BY <1>1
  <2> QED
    BY <2>1 DEF Round
<1>3. w \in Seq(Seq(Marks))
  BY <1>1, <1>2
<1>4. PICK g : Flattens(g, Marks, w)
  BY <1>3, FlattenSteps
<1>5. /\ \A n \in 0..N : g[n] \in Seq(Marks)
      /\ g[0] = <<>> /\ FlattenSeq(w) = g[N]
      /\ \A n \in 1..N : g[n] = g[n - 1] \o w[n]
  BY <1>1, <1>4 DEF Flattens
<1> DEFINE f == [n \in 0..N |-> PlaceAfter(where, g[n])]
           e == [n \in 0..N |-> where]
<1>6. f[0] = e[0]
  <2>1. f[0] = PlaceAfter(where, <<>>) /\ e[0] = where
    BY <1>5
  <2> QED
    BY <2>1, PlaceAfterNone
<1>7. ASSUME NEW n \in 1..N, f[n - 1] = e[n - 1] PROVE f[n] = e[n]
  <2>1. n \in 0..N /\ n - 1 \in 0..N
    BY <1>1
  <2>2. PlaceAfter(where, g[n - 1]) = where
    BY <1>7, <2>1
  <2>3. g[n] = g[n - 1] \o w[n] /\ g[n - 1] \in Seq(Marks) /\ w[n] \in Seq(Marks)
    BY <1>2, <1>5, <2>1
  <2>4. PlaceAfter(where, g[n - 1] \o w[n]) = PlaceAfter(PlaceAfter(where, g[n - 1]), w[n])
    BY <2>3, PlaceAfterBoth
  <2>5. PlaceAfter(where, g[n]) = where
    BY <1>2, <2>2, <2>3, <2>4
  <2> QED
    BY <2>1, <2>5
<1>8. PlaceAfter(where, g[N]) = where
  <2>1. SameSteps(f, e, N)
    <3> HIDE DEF f, e
    <3> QED
      BY <1>6, <1>7 DEF SameSteps
  <2>2. f[N] = e[N] /\ N \in 0..N
    <3> HIDE DEF f, e
    <3> QED
      BY <1>1, <2>1, RecursionUnique
  <2> QED
    BY <2>2
<1>9. g[N] \in Seq(Marks)
  BY <1>1, <1>5
<1> QED
  BY <1>5, <1>8, <1>9 DEF Round

(* One list of tags, and what the reader makes of it.                       *)
Leads(s, from, to) == s \in Seq(Marks) /\ PlaceAfter(from, s) = to

LEMMA LeadsOn ==
  ASSUME NEW from \in Places, NEW s, NEW via \in Places, Leads(s, from, via),
         NEW t, NEW to, Leads(t, via, to)
  PROVE  Leads(s \o t, from, to)
<1>1. s \o t \in Seq(Marks)
  BY ConcatProperties DEF Leads
<1>2. PlaceAfter(from, s \o t) = to
  BY PlaceAfterBoth DEF Leads
<1> QED
  BY <1>1, <1>2 DEF Leads

LEMMA ItemLeads ==
  ASSUME NEW from \in Places, NEW item \in Marks
  PROVE  Leads(<<item>>, from, After(from, item))
<1>1. <<item>> \in Seq(Marks)
  OBVIOUS
<1> QED
  BY <1>1, PlaceAfterOne DEF Leads

LEMMA NothingLeads ==
  ASSUME NEW from \in Places
  PROVE  Leads(<<>>, from, from)
<1>1. <<>> \in Seq(Marks)
  OBVIOUS
<1> QED
  BY <1>1, PlaceAfterNone DEF Leads

LEMMA MarksAre == /\ \A name \in Names : Tag(name) \in Marks
                  /\ \A size \in Nat : Cell(size) \in Marks
  BY DEF Marks

LEMMA PlacesAre ==
  /\ "start" \in Places /\ "body" \in Places /\ "p" \in Places
  /\ "table" \in Places /\ "td" \in Places /\ "end" \in Places
  BY DEF Places

LEMMA TagLeads ==
  ASSUME NEW from \in Places, NEW name \in Names,
         NEW to, After(from, Tag(name)) = to
  PROVE  Leads(<<Tag(name)>>, from, to)
  BY MarksAre, ItemLeads

(* The tags the converter prints, each where it may be.                     *)
LEMMA TagsLead ==
  /\ Leads(<<Tag("<body>")>>, "start", "body")
  /\ Leads(<<Tag("</body>")>>, "body", "end")
  /\ Leads(<<Tag("<p>")>>, "body", "p")
  /\ Leads(<<Tag("</p>")>>, "p", "body")
  /\ Leads(<<Tag("<table>")>>, "body", "table")
  /\ Leads(<<Tag("</table>")>>, "table", "body")
  /\ Leads(<<Tag("<tr><td>")>>, "table", "td")
  /\ Leads(<<Tag("</td><td>")>>, "td", "td")
  /\ Leads(<<Tag("</td></tr>")>>, "td", "table")
<1>1. Leads(<<Tag("<body>")>>, "start", "body")
  <2>1. After("start", Tag("<body>")) = "body"
    BY DEF After, Tag
  <2>2. "<body>" \in Names
    BY DEF Names
  <2> QED
    BY <2>1, <2>2, PlacesAre, TagLeads
<1>2. Leads(<<Tag("</body>")>>, "body", "end")
  <2>1. After("body", Tag("</body>")) = "end"
    BY DEF After, Tag
  <2>2. "</body>" \in Names
    BY DEF Names
  <2> QED
    BY <2>1, <2>2, PlacesAre, TagLeads
<1>3. Leads(<<Tag("<p>")>>, "body", "p")
  <2>1. After("body", Tag("<p>")) = "p"
    BY DEF After, Tag
  <2>2. "<p>" \in Names
    BY DEF Names
  <2> QED
    BY <2>1, <2>2, PlacesAre, TagLeads
<1>4. Leads(<<Tag("</p>")>>, "p", "body")
  <2>1. After("p", Tag("</p>")) = "body"
    BY DEF After, Tag
  <2>2. "</p>" \in Names
    BY DEF Names
  <2> QED
    BY <2>1, <2>2, PlacesAre, TagLeads
<1>5. Leads(<<Tag("<table>")>>, "body", "table")
  <2>1. After("body", Tag("<table>")) = "table"
    BY DEF After, Tag
  <2>2. "<table>" \in Names
    BY DEF Names
  <2> QED
    BY <2>1, <2>2, PlacesAre, TagLeads
<1>6. Leads(<<Tag("</table>")>>, "table", "body")
  <2>1. After("table", Tag("</table>")) = "body"
    BY DEF After, Tag
  <2>2. "</table>" \in Names
    BY DEF Names
  <2> QED
    BY <2>1, <2>2, PlacesAre, TagLeads
<1>7. Leads(<<Tag("<tr><td>")>>, "table", "td")
  <2>1. After("table", Tag("<tr><td>")) = "td"
    BY DEF After, Tag
  <2>2. "<tr><td>" \in Names
    BY DEF Names
  <2> QED
    BY <2>1, <2>2, PlacesAre, TagLeads
<1>8. Leads(<<Tag("</td><td>")>>, "td", "td")
  <2>1. After("td", Tag("</td><td>")) = "td"
    BY DEF After, Tag
  <2>2. "</td><td>" \in Names
    BY DEF Names
  <2> QED
    BY <2>1, <2>2, PlacesAre, TagLeads
<1>9. Leads(<<Tag("</td></tr>")>>, "td", "table")
  <2>1. After("td", Tag("</td></tr>")) = "table"
    BY DEF After, Tag
  <2>2. "</td></tr>" \in Names
    BY DEF Names
  <2> QED
    BY <2>1, <2>2, PlacesAre, TagLeads
<1> QED
  BY <1>1, <1>2, <1>3, <1>4, <1>5, <1>6, <1>7, <1>8, <1>9

LEMMA CellLeads ==
  ASSUME NEW size \in Nat
  PROVE  Leads(<<Cell(size)>>, "td", "td") /\ Leads(<<Cell(size)>>, "p", "p")
<1>1. After("td", Cell(size)) = "td" /\ After("p", Cell(size)) = "p"
  BY DEF After, Cell
<1> QED
  BY <1>1, MarksAre, PlacesAre, ItemLeads

-----------------------------------------------------------------------------
(* A row is opened and closed again, however many cells the line has.       *)
Lines == Seq(Nat) \ {<<>>}

LEMMA OneAndOne == ASSUME NEW a, NEW b PROVE <<a>> \o <<b>> = <<a, b>>
<1> DEFINE S == {a, b}
<1>1. <<a>> \in Seq(S) /\ <<b>> \in Seq(S) /\ <<a, b>> \in Seq(S)
  OBVIOUS
<1>2. Len(<<a>>) = 1 /\ Len(<<b>>) = 1 /\ Len(<<a, b>>) = 2
  OBVIOUS
<1>3. <<a>>[1] = a /\ <<b>>[1] = b /\ <<a, b>>[1] = a /\ <<a, b>>[2] = b
  OBVIOUS
<1>4. PICK s \in Seq(S), t \in Seq(S), u \in Seq(S) : s = <<a>> /\ t = <<b>> /\ u = <<a, b>>
  BY <1>1
<1> HIDE DEF S
<1>5. /\ s \o t \in Seq(S) /\ Len(s \o t) = Len(s) + Len(t)
      /\ \A i \in 1..Len(s) + Len(t) : (s \o t)[i] = IF i <= Len(s) THEN s[i] ELSE t[i - Len(s)]
  BY ConcatProperties
<1>6. Len(s) = 1 /\ Len(t) = 1 /\ Len(u) = 2
  BY <1>2, <1>4
<1>7. PICK r \in Seq(S) : r = s \o t /\ Len(r) = 2 /\ r[1] = s[1] /\ r[2] = t[1]
  <2>1. Len(s \o t) = 2 /\ 1 \in 1..2 /\ 2 \in 1..2 /\ 2 - 1 = 1 /\ 1 <= 1 /\ ~(2 <= 1)
    BY <1>5, <1>6
  <2>2. \A i \in 1..2 : (s \o t)[i] = IF i <= 1 THEN s[i] ELSE t[i - 1]
    BY <1>5, <1>6
  <2>3. (s \o t)[1] = s[1]
    BY <2>1, <2>2
  <2>4. (s \o t)[2] = t[1]
    BY <2>1, <2>2
  <2> QED
    BY <1>5, <2>1, <2>3, <2>4
<1>8. \A i \in 1..2 : r[i] = u[i]
  <2>1. s[1] = u[1]
    BY <1>3, <1>4
  <2>2. t[1] = u[2]
    BY <1>3, <1>4
  <2>3. \A i \in 1..2 : i = 1 \/ i = 2
    OBVIOUS
  <2> QED
    BY <1>7, <2>1, <2>2, <2>3
<1>9. r = u
  BY <1>6, <1>7, <1>8, SeqEqual
<1> QED
  BY <1>4, <1>7, <1>9

LEMMA RowLeads ==
  ASSUME NEW line \in Lines
  PROVE  Leads(HtmlRow(line), "table", "table")
<1>1. PICK n \in Nat \ {0} : n = Len(line)
  BY EmptySeq DEF Lines
<1>2. \A i \in 1..n : line[i] \in Nat
  BY <1>1 DEF Lines
<1> DEFINE Separated(i) == <<Cell(line[i]), Tag("</td><td>")>>
           w == [i \in 1..n - 1 |-> Separated(i)]
           a == <<Tag("<tr><td>")>>
           b == FlattenSeq(w)
           c == IF line[n] > 1 THEN <<Cell(line[n])>> ELSE <<>>
           d == <<Tag("</td></tr>")>>
<1>3. ASSUME NEW i \in 1..n - 1 PROVE Separated(i) \in Round("td")
  <2>1. line[i] \in Nat
    BY <1>2
  <2>2. Leads(<<Cell(line[i])>> \o <<Tag("</td><td>")>>, "td", "td")
    BY <2>1, CellLeads, TagsLead, PlacesAre, LeadsOn
  <2>3. <<Cell(line[i])>> \o <<Tag("</td><td>")>> = <<Cell(line[i]), Tag("</td><td>")>>
    BY OneAndOne
  <2> QED
    BY <2>2, <2>3 DEF Round, Leads
<1>4. w \in Seq(Round("td"))
  <2> HIDE DEF Separated
  <2> QED
    BY <1>3
<1>5. Leads(b, "td", "td")
  <2> HIDE DEF w
  <2> QED
    BY <1>4, RoundsAreRound, PlacesAre DEF Round, Leads
<1>6. Leads(c, "td", "td")
  <2>1. line[n] \in Nat
    BY <1>1, <1>2
  <2> QED
    BY <2>1, CellLeads, NothingLeads, PlacesAre
<1>7. Leads(a, "table", "td") /\ Leads(d, "td", "table")
  BY TagsLead
<1>8. HtmlRow(line) = a \o b \o c \o d
  BY <1>1 DEF HtmlRow
<1> HIDE DEF a, b, c, d
<1>9. Leads(a \o b, "table", "td")
  BY <1>5, <1>7, PlacesAre, LeadsOn
<1>10. Leads(a \o b \o c, "table", "td")
  BY <1>6, <1>9, PlacesAre, LeadsOn
<1>11. Leads(a \o b \o c \o d, "table", "table")
  BY <1>7, <1>10, PlacesAre, LeadsOn
<1> QED
  BY <1>8, <1>11

(* Where the reader is while the converter has a block of this kind open.   *)
Inside(block) == IF block = TEXT THEN "p" ELSE IF block = TABLE THEN "table" ELSE "body"

Blocks == {UNDEFINED, TEXT, TABLE}

(* The states of the converter: its list leads into the block it has open.  *)
Converters ==
  {h \in [html : Seq(Marks), ended : BOOLEAN, block : Blocks] :
     /\ Leads(h.html, "body", Inside(h.block))
     /\ h.ended => h.html = <<>>}

LEMMA ConverterIs ==
  ASSUME NEW h \in Converters
  PROVE  /\ h \in [html : Seq(Marks), ended : BOOLEAN, block : Blocks]
         /\ Leads(h.html, "body", Inside(h.block))
         /\ h.ended => h.html = <<>>
  BY DEF Converters

LEMMA InsideIsPlace == \A block \in Blocks : Inside(block) \in Places
  BY PlacesAre DEF Inside

LEMMA NewHtmlConverts == NewHtml \in Converters
<1>1. NewHtml \in [html : Seq(Marks), ended : BOOLEAN, block : Blocks]
  BY DEF NewHtml, Blocks
<1>2. NewHtml.html = <<>> /\ Inside(NewHtml.block) = "body"
  BY DEF NewHtml, Inside, UNDEFINED, TEXT, TABLE
<1> QED
  BY <1>1, <1>2, NothingLeads, PlacesAre DEF Converters

(* What is appended, wherever it leads.                                     *)
LEMMA HtmlAppendIs ==
  ASSUME NEW h \in [html : Seq(Marks), ended : BOOLEAN, block : Blocks],
         h.ended => h.html = <<>>,
         NEW from \in Places, Leads(h.html, "body", from),
         NEW s, NEW to \in Places, Leads(s, from, to)
  PROVE  /\ HtmlAppend(h, s) \in [html : Seq(Marks), ended : BOOLEAN, block : Blocks]
         /\ HtmlAppend(h, s).ended = FALSE
         /\ HtmlAppend(h, s).block = h.block
         /\ Leads(HtmlAppend(h, s).html, "body", to)
<1>1. HtmlAppend(h, s) = [h EXCEPT !.html = h.html \o s, !.ended = FALSE]
  BY DEF HtmlAppend
<1>2. Leads(h.html \o s, "body", to)
  BY PlacesAre, LeadsOn
<1>3. h.html \o s \in Seq(Marks)
  BY <1>2 DEF Leads
<1> QED
  BY <1>1, <1>2, <1>3

(* After __html_finish_block no block is open.                              *)
LEMMA FinishBlockCloses ==
  ASSUME NEW h \in Converters
  PROVE  /\ HtmlFinishBlock(h) \in [html : Seq(Marks), ended : BOOLEAN, block : Blocks]
         /\ HtmlFinishBlock(h).ended => HtmlFinishBlock(h).html = <<>>
         /\ Leads(HtmlFinishBlock(h).html, "body", "body")
<1>1. /\ h \in [html : Seq(Marks), ended : BOOLEAN, block : Blocks]
      /\ Leads(h.html, "body", Inside(h.block))
      /\ h.ended => h.html = <<>>
  BY ConverterIs
<1>2. CASE h.block = TEXT
  <2>1. HtmlFinishBlock(h) = HtmlAppend(h, <<Tag("</p>")>>)
    BY <1>2 DEF HtmlFinishBlock, TEXT, TABLE
  <2>2. Leads(h.html, "body", "p")
    BY <1>1, <1>2 DEF Inside
  <2>3. Leads(<<Tag("</p>")>>, "p", "body")
    BY TagsLead
  <2>4. "p" \in Places /\ "body" \in Places
    BY PlacesAre
  <2>5. /\ HtmlAppend(h, <<Tag("</p>")>>) \in [html : Seq(Marks), ended : BOOLEAN, block : Blocks]
        /\ HtmlAppend(h, <<Tag("</p>")>>).ended = FALSE
        /\ Leads(HtmlAppend(h, <<Tag("</p>")>>).html, "body", "body")
    BY <1>1, <2>2, <2>3, <2>4, HtmlAppendIs
  <2> QED
    BY <2>1, <2>5
<1>3. CASE h.block = TABLE
  <2>1. HtmlFinishBlock(h) = HtmlAppend(h, <<Tag("</table>")>>)
    BY <1>3 DEF HtmlFinishBlock, TEXT, TABLE
  <2>2. Leads(h.html, "body", "table")
    BY <1>1, <1>3 DEF Inside, TEXT, TABLE
  <2>3. Leads(<<Tag("</table>")>>, "table", "body")
    BY TagsLead
  <2>4. "table" \in Places /\ "body" \in Places
    BY PlacesAre
  <2>5. /\ HtmlAppend(h, <<Tag("</table>")>>) \in [html : Seq(Marks), ended : BOOLEAN, block : Blocks]
        /\ HtmlAppend(h, <<Tag("</table>")>>).ended = FALSE
        /\ Leads(HtmlAppend(h, <<Tag("</table>")>>).html, "body", "body")
    BY <1>1, <2>2, <2>3, <2>4, HtmlAppendIs
  <2> QED
    BY <2>1, <2>5
<1>4. CASE h.block # TEXT /\ h.block # TABLE
  <2>1. HtmlFinishBlock(h) = h
    BY <1>4 DEF HtmlFinishBlock
  <2>2. Leads(h.html, "body", "body")
    BY <1>1, <1>4 DEF Inside
  <2> QED
    BY <1>1, <2>1, <2>2
<1> QED
  BY <1>2, <1>3, <1>4

LEMMA EnterBlockConverts ==
  ASSUME NEW h \in Converters, NEW block \in {TEXT, TABLE},
         NEW tag, Leads(<<Tag(tag)>>, "body", Inside(block))
  PROVE  /\ HtmlEnterBlock(h, block, tag) \in Converters
         /\ HtmlEnterBlock(h, block, tag).block = block
<1>1. CASE h.block = block
  BY <1>1 DEF HtmlEnterBlock
<1>2. CASE h.block # block
  <2> DEFINE k == HtmlFinishBlock(h)
             a == HtmlAppend(k, <<Tag(tag)>>)
  <2>1. /\ k \in [html : Seq(Marks), ended : BOOLEAN, block : Blocks]
        /\ k.ended => k.html = <<>>
        /\ Leads(k.html, "body", "body")
    BY FinishBlockCloses
  <2>2. block \in Blocks /\ Inside(block) \in Places
    BY InsideIsPlace DEF Blocks
  <2>3. /\ a \in [html : Seq(Marks), ended : BOOLEAN, block : Blocks]
        /\ a.ended = FALSE
        /\ Leads(a.html, "body", Inside(block))
    <3> HIDE DEF k
    <3> QED
      BY <2>1, <2>2, PlacesAre, HtmlAppendIs
  <2>4. HtmlEnterBlock(h, block, tag) = [a EXCEPT !.block = block]
    BY <1>2 DEF HtmlEnterBlock
  <2> HIDE DEF a
  <2>5. PICK b : b = [a EXCEPT !.block = block]
    OBVIOUS
  <2>6. /\ b \in [html : Seq(Marks), ended : BOOLEAN, block : Blocks]
        /\ b.ended = FALSE /\ b.html = a.html /\ b.block = block
    BY <2>2, <2>3, <2>5
  <2>7. b \in Converters
    BY <2>3, <2>6 DEF Converters
  <2> QED
    BY <2>4, <2>5, <2>6, <2>7
<1> QED
  BY <1>1, <1>2

(* What goes into the block that is open leaves the converter in it.        *)
LEMMA StaysInBlock ==
  ASSUME NEW h \in Converters, NEW s, Leads(s, Inside(h.block), Inside(h.block))
  PROVE  HtmlAppend(h, s) \in Converters
<1>1. /\ h \in [html : Seq(Marks), ended : BOOLEAN, block : Blocks]
      /\ Leads(h.html, "body", Inside(h.block))
      /\ h.ended => h.html = <<>>
  BY ConverterIs
<1>2. Inside(h.block) \in Places
  BY <1>1, InsideIsPlace
<1>3. /\ HtmlAppend(h, s) \in [html : Seq(Marks), ended : BOOLEAN, block : Blocks]
      /\ HtmlAppend(h, s).ended = FALSE
      /\ HtmlAppend(h, s).block = h.block
      /\ Leads(HtmlAppend(h, s).html, "body", Inside(h.block))
  BY <1>1, <1>2, HtmlAppendIs
<1> QED
  BY <1>3 DEF Converters

LEMMA AppendTextConverts ==
  ASSUME NEW h \in Converters, NEW line \in Lines
  PROVE  HtmlAppendText(h, line) \in Converters
<1>1. Inside(TEXT) = "p" /\ Inside(TABLE) = "table"
  BY DEF Inside, TEXT, TABLE
<1>2. CASE Len(line) > 1
  <2> DEFINE b == HtmlEnterBlock(h, TABLE, "<table>")
  <2>1. b \in Converters /\ b.block = TABLE
    BY <1>1, TagsLead, EnterBlockConverts
  <2>2. HtmlAppendText(h, line) = HtmlAppend(b, HtmlRow(line))
    BY <1>2 DEF HtmlAppendText
  <2> HIDE DEF b
  <2> QED
    BY <1>1, <2>1, <2>2, RowLeads, StaysInBlock
<1>3. CASE ~(Len(line) > 1)
  <2> DEFINE b == HtmlEnterBlock(h, TEXT, "<p>")
  <2>1. b \in Converters /\ b.block = TEXT
    BY <1>1, TagsLead, EnterBlockConverts
  <2>2. HtmlAppendText(h, line) = HtmlAppend(b, <<Cell(line[1])>>)
    BY <1>3 DEF HtmlAppendText
  <2>3. line[1] \in Nat
    BY EmptySeq DEF Lines
  <2> HIDE DEF b
  <2> QED
    BY <1>1, <2>1, <2>2, <2>3, CellLeads, StaysInBlock
<1> QED
  BY <1>2, <1>3

(* The converter after any text.                                            *)
LEMMA HtmlLinesConverts ==
  ASSUME NEW lines \in Seq(Lines)
  PROVE  HtmlLines(lines) \in Converters
<1> DEFINE N == Len(lines)
           G == [p \in (1..N) \X Converters |-> HtmlAppendText(p[2], lines[p[1]])]
           Body(f) == [n \in 0..N |-> IF n = 0 THEN NewHtml
                                      ELSE HtmlAppendText(f[n - 1], lines[n])]
           F == CHOOSE f : f = Body(f)
<1>1. N \in Nat /\ \A k \in 1..N : lines[k] \in Lines
  OBVIOUS
<1>2. G \in [(1..N) \X Converters -> Converters]
  BY <1>1, AppendTextConverts
<1>3. \A n \in 1..N, h \in Converters : G[<<n, h>>] = HtmlAppendText(h, lines[n])
  OBVIOUS
<1> HIDE DEF G
<1>4. PICK f : Recursion(f, N, Converters, NewHtml, G)
  <2> HIDE DEF N
  <2> QED
    BY <1>1, <1>2, NewHtmlConverts, RecursionExists
<1>5. /\ f \in [0..N -> Converters] /\ f[0] = NewHtml
      /\ \A n \in 1..N : f[n] = HtmlAppendText(f[n - 1], lines[n])
  <2>1. /\ f \in [0..N -> Converters] /\ f[0] = NewHtml
        /\ \A n \in 1..N : f[n] = G[<<n, f[n - 1]>>]
    BY <1>4 DEF Recursion
  <2>2. \A n \in 1..N : n - 1 \in 0..N
    BY <1>1
  <2> HIDE DEF N
  <2> QED
    BY <1>3, <2>1, <2>2
<1>6. f = Body(f)
  <2>1. ASSUME NEW n \in 0..N
        PROVE  f[n] = IF n = 0 THEN NewHtml ELSE HtmlAppendText(f[n - 1], lines[n])
    <3>1. n = 0 \/ n \in 1..N
      BY <1>1
    <3> HIDE DEF N
    <3> QED
      BY <1>5, <3>1
  <2> HIDE DEF N
  <2> QED
    BY <1>5, <2>1
<1>7. F = Body(F)
  <2> HIDE DEF Body
  <2> QED
    BY <1>6
<1>8. HtmlLines(lines) = F[N]
  BY DEF HtmlLines
<1>9. \A n \in 0..N : F[n] = IF n = 0 THEN NewHtml ELSE HtmlAppendText(F[n - 1], lines[n])
  <2> HIDE DEF F, N
  <2> QED
    BY <1>7
<1> HIDE DEF F, Body
<1>10. F[0] = NewHtml /\ \A n \in 1..N : F[n] = HtmlAppendText(F[n - 1], lines[n])
  <2>1. 0 \in 0..N /\ \A n \in 1..N : n \in 0..N /\ n # 0
    BY <1>1
  <2> HIDE DEF N
  <2> QED
    BY <1>9, <2>1
<1>11. \A n \in 0..N : F[n] = f[n]
  <2> HIDE DEF N
  <2>1. SameSteps(F, f, N)
    BY <1>5, <1>10 DEF SameSteps
  <2> QED
    BY <1>1, <2>1, RecursionUnique
<1>12. N \in 0..N
  BY <1>1
<1> HIDE DEF N
<1> QED
  BY <1>5, <1>8, <1>11, <1>12

(* All that html.c prints is in its place, and there is nothing behind it.  *)
LEMMA HtmlIsComplete ==
  ASSUME NEW lines \in Seq(Lines)
  PROVE  Leads(Html(lines), "start", "end")
<1> DEFINE h == HtmlLines(lines)
           k == HtmlFinishBlock(h)
<1>1. /\ k \in [html : Seq(Marks), ended : BOOLEAN, block : Blocks]
      /\ Leads(k.html, "body", "body")
  BY HtmlLinesConverts, FinishBlockCloses
<1>2. HtmlFinish(h).html = k.html
  <2>1. HtmlFinish(h) = [k EXCEPT !.ended = TRUE, !.block = UNDEFINED]
    BY DEF HtmlFinish
  <2> HIDE DEF k, h
  <2> QED
    BY <1>1, <2>1
<1>3. Html(lines) = <<Tag("<body>")>> \o k.html \o <<Tag("</body>")>>
  BY <1>2 DEF Html
<1> HIDE DEF k, h
<1>4. Leads(<<Tag("<body>")>> \o k.html, "start", "body")
  BY <1>1, TagsLead, PlacesAre, LeadsOn
<1> QED
  BY <1>3, <1>4, TagsLead, PlacesAre, LeadsOn

(* Wherever it is cut off, what is there is in its place.                   *)
Closed(s) ==
  /\ Place(s) # "error"
  /\ s # <<>> /\ Last(s).tag = "</body>" => Place(s) = "end"

LEMMA PrintedIsClosed ==
  ASSUME NEW lines \in Seq(Lines), NEW n \in 0..Len(Html(lines))
  PROVE  Closed(SubSeq(Html(lines), 1, n))
<1>1. PICK t \in Seq(Marks) : t = Html(lines) /\ PlaceAfter("start", t) = "end"
  BY HtmlIsComplete DEF Leads
<1>2. PICK N \in Nat : N = Len(t)
  OBVIOUS
<1>3. n \in Nat /\ n \in 0..Len(t) /\ n <= N
  BY <1>1, <1>2
<1>4. PICK s \in Seq(Marks) : s = SubSeq(t, 1, n) /\ Len(s) = n
  <2>1. SubSeq(t, 1, n) \in Seq(Marks) /\ Len(SubSeq(t, 1, n)) = n
    BY <1>2, <1>3
  <2> QED
    BY <2>1
<1>5. PlaceAfter("start", s) # "error"
  BY <1>1, <1>3, <1>4, PlacesAre, PartIsRight
<1>6. ASSUME s # <<>>, Last(s).tag = "</body>" PROVE PlaceAfter("start", s) = "end"
  <2>1. n \in 1..n /\ n - 1 \in 0..n
    BY <1>3, <1>4, <1>6, EmptySeq
  <2>2. PICK f : Reads(f, "start", s)
    BY PlacesAre, ReadsExists
  <2>3. PlaceAfter("start", s) = After(f[n - 1], s[n])
    BY <1>4, <2>1, <2>2 DEF Reads
  <2>4. s[n].tag = "</body>"
    BY <1>4, <1>6 DEF Last
  <2>5. After(f[n - 1], s[n]) \in {"end", "error"}
    BY <2>4 DEF After
  <2> QED
    BY <1>5, <2>3, <2>5
<1> QED
  BY <1>1, <1>4, <1>5, <1>6 DEF Closed, Place

-----------------------------------------------------------------------------
(* What may be sent to a client.                                            *)
Items == {Header, Failed} \cup {Html(lines)[i] : lines \in Inputs, i \in Nat \ {0}}

ItemTypes ==
  /\ received \in [Clients -> Seq(Items)]
  /\ output \in Seq(Items)
  /\ can_send \in BOOLEAN
  /\ pc \in {"accept", "request", "header", "exec", "copy", "close"}
  /\ backlog \in Seq(Clients)
  /\ pc # "accept" => client \in Clients
  /\ \A c \in DOMAIN served : served[c] \in Seq(Items)

Untouched(c) == received[c] = <<>> /\ c \notin DOMAIN served

(* One client is served at a time, and nothing is left of those before it.  *)
OneAtATime == \A c \in Clients : (pc = "accept" \/ c # client) => Untouched(c)

(* What a client has after the header, item by item.                        *)
Got(c, n) ==
  /\ Len(received[c]) = n + 1
  /\ received[c][1] = Header
  /\ \A i \in 1..n : received[c][i + 1] = served[c][i]

(* The pipe holds what has not been copied.                                 *)
Remains(n) ==
  /\ Len(output) + n = Len(served[client])
  /\ \A i \in 1..Len(output) : output[i] = served[client][n + i]

Copying ==
  /\ client \in DOMAIN served
  /\ Len(output) <= Len(served[client])
  /\ Remains(Len(served[client]) - Len(output))
  /\ \E n \in 0..Len(served[client]) - Len(output) :
       /\ Got(client, n)
       /\ can_send => n = Len(served[client]) - Len(output)

(* What the client has at each place in the server.                         *)
PlaceInv ==
  /\ pc \in {"request", "header"} => Untouched(client)
  /\ pc = "exec" => received[client] = <<Header>> /\ client \notin DOMAIN served
  /\ pc = "copy" => Copying
  /\ pc = "close" =>
       \/ client \notin DOMAIN served
          /\ received[client] \in {<<>>, <<Header>>, <<Header, Failed>>}
       \/ client \in DOMAIN served /\ \E n \in 0..Len(served[client]) : Got(client, n)

HInv == ItemTypes /\ OneAtATime /\ PlaceInv

-----------------------------------------------------------------------------
LEMMA PrefixByItem ==
  ASSUME NEW S, NEW s \in Seq(S), NEW t \in Seq(S),
         Len(s) <= Len(t), \A i \in 1..Len(s) : s[i] = t[i]
  PROVE  IsPrefix(s, t)
<1>1. SubSeq(s, 1, Len(s)) = s /\ Len(s) \in Nat /\ Len(t) \in Nat
  OBVIOUS
<1>2. SubSeq(t, 1, Len(s)) = [i \in 1..Len(s) |-> t[i]]
  BY <1>1
<1>3. s = [i \in 1..Len(s) |-> s[i]]
  OBVIOUS
<1> QED
  BY <1>1, <1>2, <1>3 DEF IsPrefix

LEMMA GotIsOwn ==
  ASSUME HInv, NEW c \in Clients, c \in DOMAIN served, NEW n \in 0..Len(served[c]), Got(c, n)
  PROVE  Head(received[c]) = Header /\ IsPrefix(Tail(received[c]), served[c])
<1> DEFINE r == received[c]
<1>1. r \in Seq(Items) /\ served[c] \in Seq(Items) /\ Len(served[c]) \in Nat /\ n \in Nat
  BY DEF HInv, ItemTypes
<1>2. Len(r) = n + 1 /\ r # <<>> /\ Head(r) = Header
  BY <1>1 DEF Got
<1>3. Tail(r) \in Seq(Items) /\ Len(Tail(r)) = n /\ \A i \in 1..n : Tail(r)[i] = r[i + 1]
  BY <1>1, <1>2
<1>4. Len(Tail(r)) <= Len(served[c]) /\ \A i \in 1..Len(Tail(r)) : Tail(r)[i] = served[c][i]
  BY <1>1, <1>3 DEF Got
<1>5. IsPrefix(Tail(r), served[c])
  BY <1>1, <1>3, <1>4, PrefixByItem
<1> QED
  BY <1>2, <1>5

LEMMA HInvImplies == HInv => ClientsGetTheirOwn
<1> SUFFICES ASSUME HInv, NEW c \in Clients, received[c] # <<>>
             PROVE  /\ Head(received[c]) = Header
                    /\ \/ c \in DOMAIN served /\ IsPrefix(Tail(received[c]), served[c])
                       \/ c \notin DOMAIN served /\ Tail(received[c]) \in {<<>>, <<Failed>>}
  BY DEF ClientsGetTheirOwn
<1>1. pc # "accept" /\ c = client /\ pc \in {"exec", "copy", "close"}
  BY DEF HInv, OneAtATime, Untouched, PlaceInv, ItemTypes
<1>2. CASE c \in DOMAIN served
  <2>1. \E n \in 0..Len(served[c]) : Got(c, n)
    <3>1. Len(served[c]) \in Nat /\ Len(output) \in Nat
      BY <1>2 DEF HInv, ItemTypes
    <3> QED
      BY <1>1, <1>2, <3>1 DEF HInv, PlaceInv, Copying
  <2> QED
    BY <1>2, <2>1, GotIsOwn
<1>3. CASE c \notin DOMAIN served
  <2>1. received[c] \in {<<Header>>, <<Header, Failed>>}
    BY <1>1, <1>3 DEF HInv, PlaceInv, Copying
  <2>2. Head(<<Header>>) = Header /\ Tail(<<Header>>) = <<>>
        /\ Head(<<Header, Failed>>) = Header /\ Tail(<<Header, Failed>>) = <<Failed>>
    OBVIOUS
  <2> QED
    BY <1>3, <2>1, <2>2
<1> QED
  BY <1>2, <1>3

-----------------------------------------------------------------------------
LEMMA InitHInv == Init => HInv
  BY DEF Init, HInv, ItemTypes, OneAtATime, Untouched, PlaceInv

(* What HInv speaks of besides the backlog.                                 *)
serviceVars == <<received, serverVars>>

LEMMA SameService ==
  ASSUME HInv, UNCHANGED serviceVars, backlog' \in Seq(Clients)
  PROVE  HInv'
  BY DEF HInv, ItemTypes, OneAtATime, Untouched, PlaceInv, Copying, Remains, Got,
     serviceVars, serverVars

LEMMA ClientHInv == ASSUME HInv, NEW c \in Clients, Client(c) PROVE HInv'
<1>1. UNCHANGED serviceVars
  BY DEF Client, Connect, Send, Leave, serviceVars
<1>2. backlog' = backlog \/ backlog' = Append(backlog, c)
  BY DEF Client, Connect, Send, Leave
<1>3. backlog \in Seq(Clients)
  BY DEF HInv, ItemTypes
<1>4. Append(backlog, c) \in Seq(Clients)
  BY <1>3, AppendProperties
<1> QED
  BY <1>1, <1>2, <1>3, <1>4, SameService

LEMMA AcceptHInv == ASSUME HInv, Accept PROVE HInv'
<1>1. client' \in Clients /\ backlog' \in Seq(Clients)
  BY DEF Accept, HInv, ItemTypes
<1>2. ItemTypes'
  BY <1>1 DEF Accept, HInv, ItemTypes
<1>3. \A c \in Clients : Untouched(c)'
  BY DEF Accept, HInv, OneAtATime, Untouched
<1> QED
  BY <1>1, <1>2, <1>3 DEF Accept, HInv, OneAtATime, PlaceInv

LEMMA CloseHInv == ASSUME HInv, Close PROVE HInv'
<1>1. ItemTypes'
  BY DEF Close, HInv, ItemTypes
<1>2. \A c \in Clients : Untouched(c)'
  BY DEF Close, HInv, ItemTypes, OneAtATime, Untouched
<1> QED
  BY <1>1, <1>2 DEF Close, HInv, OneAtATime, PlaceInv

LEMMA RequestHInv ==
  ASSUME HInv, (\E n \in 1..MaxBytes : ReadRequest(n)) \/ ReadEnds PROVE HInv'
<1>1. pc = "request" /\ pc' \in {"request", "header", "close"}
      /\ UNCHANGED <<received, client, served, output, can_send, backlog>>
  BY DEF ReadRequest, ReadEnds
<1>2. ItemTypes'
  BY <1>1 DEF HInv, ItemTypes
<1>3. Untouched(client)'
  BY <1>1 DEF HInv, PlaceInv, Untouched
<1>4. OneAtATime'
  BY <1>1 DEF HInv, OneAtATime, Untouched
<1> QED
  BY <1>1, <1>2, <1>3, <1>4 DEF HInv, PlaceInv, Untouched

(* What is sent to the client goes behind what it has.                      *)
LEMMA DeliveredAppends ==
  ASSUME HInv, pc # "accept", NEW item \in Items, Delivered(item)
  PROVE  /\ received' \in [Clients -> Seq(Items)]
         /\ received'[client] = Append(received[client], item)
         /\ \A c \in Clients \ {client} : received'[c] = received[c]
  BY DEF HInv, ItemTypes, Delivered

LEMMA WriteHeaderHInv == ASSUME HInv, WriteHeader PROVE HInv'
<1>1. client \in Clients /\ Header \in Items /\ pc = "header"
      /\ UNCHANGED <<client, served, output, can_send, backlog>>
  BY DEF HInv, ItemTypes, WriteHeader, Items
<1>2. Untouched(client)
  BY <1>1 DEF HInv, PlaceInv
<1>3. CASE Delivered(Header) /\ pc' = "exec"
  <2>1. /\ received' \in [Clients -> Seq(Items)]
        /\ received'[client] = <<Header>>
        /\ \A c \in Clients \ {client} : received'[c] = received[c]
    BY <1>1, <1>2, <1>3, DeliveredAppends DEF Untouched
  <2> QED
    BY <1>1, <1>2, <1>3, <2>1 DEF HInv, ItemTypes, OneAtATime, Untouched, PlaceInv
<1>4. CASE SendFails /\ pc' = "close"
  BY <1>1, <1>2, <1>4 DEF SendFails, HInv, ItemTypes, OneAtATime, Untouched, PlaceInv
<1> QED
  BY <1>3, <1>4 DEF WriteHeader

LEMMA ExecHInv == ASSUME HInv, Exec PROVE HInv'
<1>1. PICK lines \in Inputs : \E n \in 0..Len(Html(lines)) : output' = SubSeq(Html(lines), 1, n)
  BY DEF Exec
<1>2. PICK n \in 0..Len(Html(lines)) : output' = SubSeq(Html(lines), 1, n)
  BY <1>1
<1>3. n \in Nat
  OBVIOUS
<1>4. output' \in Seq(Items)
  <2>1. output' = [i \in 1..n |-> Html(lines)[i]]
    BY <1>2, <1>3
  <2>2. \A i \in 1..n : Html(lines)[i] \in Items
    BY <1>3 DEF Items
  <2> QED
    BY <1>3, <2>1, <2>2
<1>5. /\ pc = "exec" /\ pc' = "copy" /\ client \in Clients
      /\ UNCHANGED <<received, client, can_send, backlog>>
      /\ DOMAIN served' = DOMAIN served \cup {client}
      /\ served'[client] = output'
      /\ \A c \in DOMAIN served \ {client} : served'[c] = served[c]
  BY DEF Exec, HInv, ItemTypes
<1>6. ItemTypes'
  BY <1>4, <1>5 DEF HInv, ItemTypes
<1>7. OneAtATime'
  BY <1>5 DEF HInv, OneAtATime, Untouched
<1>8. Copying'
  <2>1. received'[client] = <<Header>>
    BY <1>5 DEF HInv, PlaceInv
  <2>2. Got(client, 0)'
    BY <1>5, <2>1 DEF Got
  <2>3. Len(output') \in Nat /\ Len(served'[client']) - Len(output') = 0
    BY <1>4, <1>5
  <2>4. Remains(0)'
    BY <1>5, <2>3 DEF Remains
  <2> QED
    BY <1>5, <2>2, <2>3, <2>4 DEF Copying
<1> QED
  BY <1>5, <1>6, <1>7, <1>8 DEF HInv, PlaceInv

LEMMA ExecFailsHInv == ASSUME HInv, ExecFails PROVE HInv'
<1>1. client \in Clients /\ Failed \in Items /\ pc = "exec" /\ pc' = "close"
      /\ UNCHANGED <<client, served, output, can_send, backlog>>
  BY DEF HInv, ItemTypes, ExecFails, Items
<1>2. received[client] = <<Header>> /\ client \notin DOMAIN served
  BY <1>1 DEF HInv, PlaceInv
<1>3. CASE Delivered(Failed)
  <2>1. /\ received' \in [Clients -> Seq(Items)]
        /\ received'[client] = <<Header, Failed>>
        /\ \A c \in Clients \ {client} : received'[c] = received[c]
    BY <1>1, <1>2, <1>3, DeliveredAppends
  <2> QED
    BY <1>1, <1>2, <2>1 DEF HInv, ItemTypes, OneAtATime, Untouched, PlaceInv
<1>4. CASE SendFails
  BY <1>1, <1>2, <1>4 DEF SendFails, HInv, ItemTypes, OneAtATime, Untouched, PlaceInv
<1> QED
  BY <1>3, <1>4 DEF ExecFails

LEMMA CopyHInv == ASSUME HInv, Copy PROVE HInv'
<1>1. /\ client \in Clients /\ pc = "copy" /\ output # <<>> /\ output' = Tail(output)
      /\ UNCHANGED <<client, served, pc, backlog>>
  BY DEF HInv, ItemTypes, Copy
<1>a. Len(served[client]) \in Nat /\ Len(output) \in Nat /\ Len(output) <= Len(served[client])
  BY <1>1 DEF HInv, PlaceInv, Copying, ItemTypes
<1>b. PICK len \in Nat, done \in Nat : len = Len(served[client]) /\ done = len - Len(output)
  <2>1. Len(served[client]) - Len(output) \in Nat
    BY <1>a
  <2> QED
    BY <1>a, <2>1
<1>2. /\ client \in DOMAIN served /\ served[client] \in Seq(Items) /\ len \in Nat
      /\ output \in Seq(Items) /\ Len(output) \in Nat \ {0} /\ Len(output) <= len
      /\ Remains(done)
  BY <1>1, <1>b DEF HInv, PlaceInv, Copying, ItemTypes
<1>3. PICK n \in 0..done : Got(client, n) /\ (can_send => n = done)
  BY <1>1, <1>b DEF HInv, PlaceInv, Copying
<1>4. /\ output' \in Seq(Items) /\ Len(output') = Len(output) - 1
      /\ \A i \in 1..Len(output') : output'[i] = output[i + 1]
      /\ Head(output) = output[1] /\ Head(output) \in Items
  BY <1>1, <1>2
<1>5. Remains(done + 1)'
  <2>1. Len(output') + (done + 1) = Len(served[client])
    BY <1>2, <1>4, <1>b
  <2>2. \A i \in 1..Len(output') : output[i + 1] = served[client][done + (i + 1)]
    BY <1>2, <1>4 DEF Remains
  <2>3. \A i \in 1..Len(output') : output'[i] = served[client][(done + 1) + i]
    BY <1>2, <1>4, <2>2
  <2> QED
    BY <1>1, <2>1, <2>3 DEF Remains
<1>6. Head(output) = served[client][done + 1]
  BY <1>2, <1>4 DEF Remains
<1>7. \/ can_send /\ Delivered(Head(output)) /\ can_send' = can_send
      \/ UNCHANGED received /\ can_send' = FALSE
  BY DEF Copy, SendFails, HInv, ItemTypes
<1>8. CASE can_send /\ Delivered(Head(output)) /\ can_send' = can_send
  <2>1. /\ received' \in [Clients -> Seq(Items)]
        /\ received'[client] = Append(received[client], Head(output))
        /\ \A c \in Clients \ {client} : received'[c] = received[c]
    BY <1>1, <1>4, <1>8, DeliveredAppends
  <2>2. received[client] \in Seq(Items) /\ n = done /\ Got(client, n)
    BY <1>1, <1>3, <1>8 DEF HInv, ItemTypes
  <2>3. Got(client, n + 1)'
    <3>1. Len(received'[client]) = (n + 1) + 1 /\ received'[client][1] = Header
      <4>1. Len(received[client]) = n + 1 /\ received[client][1] = Header
        BY <2>2 DEF Got
      <4> QED
        BY <2>1, <2>2, <4>1, <1>4
    <3>2. \A i \in 1..n : received'[client][i + 1] = served[client][i]
      BY <2>1, <2>2 DEF Got
    <3>3. received'[client][(n + 1) + 1] = served[client][n + 1]
      BY <1>6, <2>1, <2>2 DEF Got
    <3> QED
      <4>1. \A i \in 1..n + 1 : received'[client][i + 1] = served[client][i]
        BY <2>2, <3>2, <3>3
      <4> QED
        BY <1>1, <3>1, <4>1 DEF Got
  <2>4. Copying'
    <3>1. Len(served'[client']) - Len(output') = done + 1
      BY <1>1, <1>2, <1>4, <1>b
    <3>2. client' \in DOMAIN served' /\ Len(output') <= Len(served'[client'])
      BY <1>1, <1>2, <1>4, <1>b
    <3>3. n + 1 \in 0..done + 1 /\ n + 1 = done + 1
      BY <2>2
    <3>4. \E m \in 0..done + 1 : Got(client, m)' /\ (can_send' => m = done + 1)
      BY <2>3, <3>3
    <3>5. Remains(Len(served[client]) - Len(output))'
      BY <1>5, <3>1
    <3> QED
      BY <3>1, <3>2, <3>4, <3>5 DEF Copying
  <2> QED
    BY <1>1, <1>4, <1>8, <2>1, <2>4 DEF HInv, ItemTypes, OneAtATime, Untouched, PlaceInv
<1>9. CASE UNCHANGED received /\ can_send' = FALSE
  <2>1. Got(client, n)'
    BY <1>1, <1>3, <1>9 DEF Got
  <2>2. Copying'
    <3>1. Len(served'[client']) - Len(output') = done + 1
      BY <1>1, <1>2, <1>4, <1>b
    <3> QED
      BY <1>1, <1>2, <1>3, <1>4, <1>5, <1>9, <1>b, <2>1, <3>1 DEF Copying
  <2> QED
    BY <1>1, <1>4, <1>9, <2>2 DEF HInv, ItemTypes, OneAtATime, Untouched, PlaceInv
<1> QED
  BY <1>7, <1>8, <1>9

LEMMA CopyStopsHInv == ASSUME HInv, CopyEnds \/ CopyFails PROVE HInv'
<1>1. pc = "copy" /\ pc' = "close"
      /\ UNCHANGED <<received, client, served, output, can_send, backlog>>
  BY DEF CopyEnds, CopyFails
<1>2. client \in DOMAIN served /\ \E n \in 0..Len(served[client]) : Got(client, n)
  <2>1. Copying /\ Len(output) \in Nat /\ Len(served[client]) \in Nat
    BY <1>1 DEF HInv, PlaceInv, Copying, ItemTypes
  <2> QED
    BY <2>1 DEF Copying
<1>3. ItemTypes' /\ OneAtATime'
  BY <1>1 DEF HInv, ItemTypes, OneAtATime, Untouched
<1> QED
  BY <1>1, <1>2, <1>3 DEF HInv, PlaceInv, Got

-----------------------------------------------------------------------------
(* Every client gets the header and then what one execution of the command  *)
(* made for it printed, from the beginning and without a gap, whatever it   *)
(* and the other clients do ("executes a given command once for each        *)
(* client", httpd-exec.c).                                                  *)
THEOREM EachGetsItsOwn == Spec => []ClientsGetTheirOwn
<1>1. HInv /\ [Next]_vars => HInv'
  <2> SUFFICES ASSUME HInv, [Next]_vars PROVE HInv'
    OBVIOUS
  <2>1. CASE Next
    <3>1. CASE \E c \in Clients : Client(c)
      BY <3>1, ClientHInv
    <3>2. CASE Server
      BY <3>2, AcceptHInv, CloseHInv, RequestHInv, WriteHeaderHInv, ExecHInv, ExecFailsHInv,
         CopyHInv, CopyStopsHInv DEF Server
    <3>3. CASE Finished
      BY <3>3, SameService DEF Finished, vars, serviceVars, HInv, ItemTypes
    <3> QED
      BY <2>1, <3>1, <3>2, <3>3 DEF Next
  <2>2. CASE UNCHANGED vars
    BY <2>2, SameService DEF vars, serviceVars, HInv, ItemTypes
  <2> QED
    BY <2>1, <2>2
<1> QED
  BY <1>1, InitHInv, HInvImplies, PTL DEF Spec
-----------------------------------------------------------------------------
LEMMA ServedClosed == BlocksAreClosed = \A c \in DOMAIN served : Closed(served[c])
  BY DEF BlocksAreClosed, Closed

LEMMA ExecCloses == ASSUME BlocksAreClosed, Exec PROVE BlocksAreClosed'
<1>1. PICK lines \in Inputs : \E n \in 0..Len(Html(lines)) : output' = SubSeq(Html(lines), 1, n)
  BY DEF Exec
<1>2. PICK n \in 0..Len(Html(lines)) : output' = SubSeq(Html(lines), 1, n)
  BY <1>1
<1>3. lines \in Seq(Lines)
  BY HttpExecAssumption DEF Lines
<1>4. Closed(output')
  BY <1>2, <1>3, PrintedIsClosed
<1>5. \A c \in DOMAIN served' :
        (served'[c] = output') \/ (c \in DOMAIN served /\ served'[c] = served[c])
  <2>1. served' = [c \in DOMAIN served \cup {client} |-> IF c = client THEN output' ELSE served[c]]
    BY DEF Exec
  <2> QED
    BY <2>1
<1>6. \A c \in DOMAIN served : Closed(served[c])
  BY ServedClosed
<1>7. \A c \in DOMAIN served' : Closed(served'[c])
  BY <1>4, <1>5, <1>6
<1> QED
  BY <1>7 DEF BlocksAreClosed, Closed

LEMMA OthersClose ==
  ASSUME BlocksAreClosed, Close \/ UNCHANGED served
  PROVE  BlocksAreClosed'
<1>1. \A c \in DOMAIN served' : c \in DOMAIN served /\ served'[c] = served[c]
  BY DEF Close
<1>2. \A c \in DOMAIN served : Closed(served[c])
  BY ServedClosed
<1>3. \A c \in DOMAIN served' : Closed(served'[c])
  BY <1>1, <1>2
<1> QED
  BY <1>3 DEF BlocksAreClosed, Closed

(* Whatever text the command prints and wherever its output is cut off, no  *)
(* tag of the converted text is where it may not be, and if its end is      *)
(* there every paragraph, table and row has been closed (html_append_text,  *)
(* html_finish).                                                            *)
THEOREM BlocksStayClosed == Spec => []BlocksAreClosed
<1>1. Init => BlocksAreClosed
  BY DEF Init, BlocksAreClosed
<1>2. BlocksAreClosed /\ [Next]_vars => BlocksAreClosed'
  <2> SUFFICES ASSUME BlocksAreClosed, [Next]_vars PROVE BlocksAreClosed'
    OBVIOUS
  <2>1. Exec \/ Close \/ UNCHANGED served
    BY DEF Next, Client, Connect, Send, Leave, Server, Accept, ReadRequest, ReadEnds,
       WriteHeader, ExecFails, Copy, CopyEnds, CopyFails, Finished, vars, serverVars
  <2> QED
    BY <2>1, ExecCloses, OthersClose
<1> QED
  BY <1>1, <1>2, PTL DEF Spec
=============================================================================
