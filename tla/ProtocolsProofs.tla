---- MODULE ProtocolsProofs ----
\* The properties of MCProtocols' components (ConnectionProofs) hold of the
\* behaviours its runs check.
EXTENDS MCProtocols, ConnectionProofs

----
\* What is said step by step of a sequence.

LEMMA UpFromZero ==
  ASSUME NEW n \in Nat, NEW S, 0 \in S, \A i \in 1 .. n : i - 1 \in S => i \in S
  PROVE  \A i \in 0 .. n : i \in S
<1> DEFINE Bad == {i \in 0 .. n : i \notin S}
<1>1. CASE Bad = {} BY <1>1
<1>2. CASE Bad # {}
  <2>0. Bad \in SUBSET Nat OBVIOUS
  <2>1. PICK b \in Bad : \A y \in Bad : b <= y
    <3> HIDE DEF Bad
    <3> QED BY <1>2, <2>0, Smallest
  <2>2. b \in 1 .. n /\ b - 1 \notin Bad BY <2>1
  <2> QED BY <2>1, <2>2
<1> QED BY <1>1, <1>2

\* A value, and how the next one comes from it, give a sequence of values.
Course(n, S, c, step, f) == f \in [0 .. n -> S] /\ f[0] = c /\ \A i \in 1 .. n : f[i] = step[i][f[i - 1]]

LEMMA StepByStep ==
  ASSUME NEW n \in Nat, NEW S, NEW c \in S, NEW step, \A i \in 1 .. n : \A x \in S : step[i][x] \in S
  PROVE  \E f : Course(n, S, c, step, f)
<1> DEFINE Good == {k \in 0 .. n : \E f : Course(k, S, c, step, f)}
<1>1. 0 \in Good
  <2>1. Course(0, S, c, step, [i \in 0 .. 0 |-> c]) BY DEF Course
  <2> QED BY <2>1
<1>2. ASSUME NEW k \in 1 .. n, k - 1 \in Good PROVE k \in Good
  <2>1. PICK f : Course(k - 1, S, c, step, f) BY <1>2
  <2> DEFINE g == [i \in 0 .. k |-> IF i = k THEN step[k][f[k - 1]] ELSE f[i]]
  <2>2. g \in [0 .. k -> S] BY <2>1 DEF Course
  <2>3. g[0] = c BY <2>1 DEF Course
  <2>4. ASSUME NEW i \in 1 .. k PROVE g[i] = step[i][g[i - 1]] BY <2>1 DEF Course
  <2>5. Course(k, S, c, step, g)
    <3> HIDE DEF g
    <3> QED BY <2>2, <2>3, <2>4 DEF Course
  <2> QED BY <2>5
<1> HIDE DEF Good
<1>3. n \in Good
  <2>1. \A k \in 1 .. n : k - 1 \in Good => k \in Good BY <1>2
  <2>2. \A k \in 0 .. n : k \in Good BY <1>1, <2>1, UpFromZero, Zenon
  <2>3. n \in 0 .. n OBVIOUS
  <2> QED BY <2>2, <2>3
<1> QED BY <1>3 DEF Good

----
\* Uploads: the parser's steps keep its files accounted for.

MpSyms == UNION {{b[i] : i \in DOMAIN b} : b \in MpBodies}
MpParts == {NoPart} \cup {MpHeaders[c] : c \in MpSyms}
MpReports == [part : MpParts, value : Seq(MpSyms), file : Nat]
MpParsers ==
  [state : {"FINDING_BOUNDARY", "READING_HEADERS", "READING_BODY"}, buffer : Seq(MpSyms), part : MpParts,
   value : Seq(MpSyms), fd : Nat, tmp : Nat, total : Nat, parts : Nat, failed : BOOLEAN, finished : BOOLEAN,
   disk : SUBSET Nat, out : Seq(MpReports)]

\* No two of the reported parts share a file.
OwnFiles(out) == \A i, j \in DOMAIN out : out[i].file = out[j].file /\ i # j => out[i].file = NoFile

\* The files of a parser: a new one is numbered after all there were.
FilesTrue(p) ==
  /\ p.disk = (FilesOf(p.out) \cup {p.fd}) \ {NoFile}
  /\ p.tmp = p.fd
  /\ p.fd # NoFile => p.state = "READING_BODY" /\ ~p.failed /\ p.fd \notin FilesOf(p.out)
  /\ p.fd <= p.parts /\ \A f \in FilesOf(p.out) : f <= p.parts
  /\ OwnFiles(p.out)

\* A parser that has read as much as p, with its files accounted for.
MpGood(total) == {p \in MpParsers : FilesTrue(p) /\ p.total = total}

LEMMA FindIs ==
  ASSUME NEW S, NEW s \in Seq(S), NEW T, NEW pattern \in Seq(T), Len(pattern) > 0
  PROVE  /\ find(s, pattern) \in 0 .. Len(s)
         /\ find(s, pattern) > 0 => /\ find(s, pattern) + Len(pattern) <= Len(s) + 1
                                    /\ SubSeq(s, find(s, pattern), find(s, pattern) + Len(pattern) - 1) = pattern
<1> DEFINE at == {i \in 1 .. Len(s) + 1 - Len(pattern) : SubSeq(s, i, i + Len(pattern) - 1) = pattern}
<1>1. CASE at = {} BY <1>1 DEF find
<1>2. CASE at # {}
  <2>1. at \in SUBSET Nat OBVIOUS
  <2>2. \E i \in at : \A j \in at : i <= j
    <3> HIDE DEF at
    <3> QED BY <1>2, <2>1, Smallest
  <2>3. find(s, pattern) = CHOOSE i \in at : \A j \in at : i <= j BY <1>2 DEF find
  <2>4. find(s, pattern) \in at
    <3> HIDE DEF at
    <3> QED BY <2>2, <2>3
  <2>5. Len(s) \in Nat /\ Len(pattern) \in Nat OBVIOUS
  <2> QED BY <2>4, <2>5
<1> QED BY <1>1, <1>2

LEMMA EraseIs ==
  ASSUME NEW S, NEW s \in Seq(S), NEW n \in 0 .. Len(s)
  PROVE  erase(s, n) \in Seq(S) /\ Len(erase(s, n)) = Len(s) - n
<1>1. n + 1 \in 1 .. Len(s) + 1 /\ Len(s) \in n + 1 - 1 .. Len(s) OBVIOUS
<1>2. SubSeq(s, n + 1, Len(s)) \in Seq(S) /\ Len(SubSeq(s, n + 1, Len(s))) = Len(s) - (n + 1) + 1
  BY <1>1, SubSeqProperties
<1> QED BY <1>2 DEF erase

LEMMA BeginIs ==
  ASSUME NEW S, NEW s \in Seq(S), NEW n \in 0 .. Len(s)
  PROVE  SubSeq(s, 1, n) \in Seq(S) BY SubSeqProperties

MpMarks == {"-", "b", "\r", "\n"}

LEMMA MarksAre ==
  /\ dash_boundary \in Seq(MpMarks) /\ Len(dash_boundary) = 3
  /\ CRLF \in Seq(MpMarks) /\ Len(CRLF) = 2
  /\ boundary_sig \in Seq(MpMarks) /\ Len(boundary_sig) = 5
  /\ header_end \in Seq(MpMarks) /\ Len(header_end) = 4
<1>1. dash_boundary \in Seq(MpMarks) /\ Len(dash_boundary) = 3 BY DEF dash_boundary, MpMarks
<1>2. CRLF \in Seq(MpMarks) /\ Len(CRLF) = 2 BY DEF CRLF, MpMarks
<1>3. \A r, s \in Seq(MpMarks) : r \o s \in Seq(MpMarks) /\ Len(r \o s) = Len(r) + Len(s) BY ConcatProperties
<1>4. (CRLF \o dash_boundary) \in Seq(MpMarks) /\ Len(CRLF \o dash_boundary) = Len(CRLF) + Len(dash_boundary)
  BY <1>1, <1>2, <1>3, Zenon
<1>5. (CRLF \o CRLF) \in Seq(MpMarks) /\ Len(CRLF \o CRLF) = Len(CRLF) + Len(CRLF) BY <1>2, <1>3, Zenon
<1> QED BY <1>1, <1>2, <1>4, <1>5 DEF boundary_sig, header_end

\* A delimiter is found within what is searched.
LEMMA FoundWithin ==
  ASSUME NEW s \in Seq(MpSyms), NEW pattern \in {dash_boundary, boundary_sig, header_end}
  PROVE  /\ find(s, pattern) \in 0 .. Len(s)
         /\ find(s, pattern) > 0 => find(s, pattern) + Len(pattern) <= Len(s) + 1
<1>1. pattern \in Seq(MpMarks) /\ Len(pattern) \in {3, 5, 4} BY MarksAre, Zenon
<1>2. Len(pattern) > 0
  <2>1. \A n \in {3, 5, 4} : n > 0 OBVIOUS
  <2> QED BY <1>1, <2>1, Zenon
<1> QED BY <1>1, <1>2, FindIs

\* The current part is given up: what is left are the files that were reported.
LEMMA Discards ==
  ASSUME NEW t \in Nat, NEW p \in MpGood(t)
  PROVE  /\ discard_current_part(p) \in MpGood(t) /\ discard_current_part(p).fd = NoFile
         /\ discard_current_part(p).out = p.out /\ discard_current_part(p).state = p.state
         /\ discard_current_part(p).buffer = p.buffer /\ discard_current_part(p).failed = p.failed
         /\ discard_current_part(p).finished = p.finished /\ discard_current_part(p).parts = p.parts
<1> DEFINE d == discard_current_part(p)
<1>1. p \in MpParsers /\ FilesTrue(p) /\ p.total = t BY DEF MpGood
<1>2. << >> \in Seq(MpSyms) /\ NoPart \in MpParts /\ NoFile \in Nat BY DEF MpParts, NoFile
<1>3. d \in MpParsers BY <1>1, <1>2 DEF discard_current_part, MpParsers
<1>4. /\ d.fd = NoFile /\ d.tmp = NoFile /\ d.disk = p.disk \ {p.tmp} /\ d.out = p.out /\ d.parts = p.parts
      /\ d.total = p.total /\ d.state = p.state /\ d.buffer = p.buffer /\ d.failed = p.failed /\ d.finished = p.finished
  BY <1>1 DEF discard_current_part, MpParsers
<1>5. d.disk = FilesOf(d.out) \ {NoFile} BY <1>1, <1>4 DEF FilesTrue
<1>6. p.parts \in Nat BY <1>1 DEF MpParsers
<1> HIDE DEF d
<1>7. FilesTrue(d) BY <1>1, <1>4, <1>5, <1>6 DEF FilesTrue, NoFile
<1> QED BY <1>3, <1>4, <1>7, <1>1 DEF d, MpGood

LEMMA Fails ==
  ASSUME NEW t \in Nat, NEW p \in MpGood(t)
  PROVE  fail(p) \in MpGood(t) /\ fail(p).failed /\ fail(p).out = p.out
<1> DEFINE g == [p EXCEPT !.failed = TRUE]
           d == discard_current_part(g)
           f == fail(p)
<1>1. p \in MpParsers /\ FilesTrue(p) /\ p.total = t BY DEF MpGood
<1>2. << >> \in Seq(MpSyms) /\ NoPart \in MpParts /\ NoFile \in Nat BY DEF MpParts, NoFile
<1>3. /\ g \in MpParsers /\ g.failed /\ g.tmp = p.tmp /\ g.disk = p.disk /\ g.out = p.out /\ g.parts = p.parts
      /\ g.total = t BY <1>1 DEF MpParsers
<1>4. f = [d EXCEPT !.buffer = << >>] BY DEF fail
<1> HIDE DEF g, f
<1>5. /\ d \in MpParsers /\ d.fd = NoFile /\ d.tmp = NoFile /\ d.disk = p.disk \ {p.tmp} /\ d.out = p.out
      /\ d.parts = p.parts /\ d.total = t /\ d.failed BY <1>3, <1>2 DEF discard_current_part, MpParsers
<1> HIDE DEF d
<1>6. /\ f \in MpParsers /\ f.fd = NoFile /\ f.tmp = NoFile /\ f.disk = p.disk \ {p.tmp} /\ f.out = p.out
      /\ f.parts = p.parts /\ f.total = t /\ f.failed BY <1>4, <1>5, <1>2 DEF MpParsers
<1>7. f.disk = FilesOf(f.out) \ {NoFile} /\ p.parts \in Nat BY <1>1, <1>6 DEF FilesTrue, MpParsers
<1>8. FilesTrue(f) BY <1>1, <1>6, <1>7 DEF FilesTrue, NoFile
<1> QED BY <1>6, <1>8 DEF f, MpGood

LEMMA Appends ==
  ASSUME NEW t \in Nat, NEW p \in MpGood(t), NEW data \in Seq(MpSyms), NEW disk_ok
  PROVE  LET a == append_body(p, data, disk_ok)
         IN /\ a \in MpGood(t)
            /\ ~a.failed => a.fd = p.fd /\ a.state = p.state /\ a.buffer = p.buffer
<1> DEFINE a == [p EXCEPT !.value = p.value \o data]
<1>1. p \in MpParsers /\ FilesTrue(p) /\ p.total = t BY DEF MpGood
<1>2. p.value \o data \in Seq(MpSyms) BY <1>1 DEF MpParsers
<1>3. /\ a \in MpParsers /\ a.fd = p.fd /\ a.tmp = p.tmp /\ a.disk = p.disk /\ a.out = p.out /\ a.parts = p.parts
      /\ a.total = t /\ a.state = p.state /\ a.buffer = p.buffer /\ a.failed = p.failed BY <1>1, <1>2 DEF MpParsers
<1> HIDE DEF a
<1>4. FilesTrue(a) BY <1>1, <1>3 DEF FilesTrue
<1>5. append_body(p, data, disk_ok) \in {a, fail(p)} BY DEF append_body, a
<1> QED BY <1>3, <1>4, <1>5, Fails DEF MpGood

\* A reported part takes its file with it, another's file is removed.
LEMMA Closes ==
  ASSUME NEW t \in Nat, NEW p \in MpGood(t)
  PROVE  LET c == close_current_part(p)
         IN c \in MpGood(t) /\ c.fd = NoFile /\ c.buffer = p.buffer
<1> DEFINE x == [part |-> p.part, value |-> p.value, file |-> p.fd]
           reported == p.part.name # ""
           g == [p EXCEPT !.tmp = IF reported THEN NoFile ELSE @, !.out = IF reported THEN Append(@, x) ELSE @]
           c == close_current_part(p)
<1>1. p \in MpParsers /\ FilesTrue(p) /\ p.total = t BY DEF MpGood
<1>2. << >> \in Seq(MpSyms) /\ NoPart \in MpParts /\ NoFile \in Nat BY DEF MpParts, NoFile
<1>3. x \in MpReports /\ p.out \in Seq(MpReports) /\ p.parts \in Nat /\ p.fd \in Nat BY <1>1 DEF MpParsers, MpReports
<1>4. c = discard_current_part(g) BY DEF close_current_part
<1>5. Append(p.out, x) \in Seq(MpReports) BY <1>3
<1>6. /\ g \in MpParsers /\ g.tmp = (IF reported THEN NoFile ELSE p.tmp) /\ g.disk = p.disk /\ g.parts = p.parts
      /\ g.out = (IF reported THEN Append(p.out, x) ELSE p.out) /\ g.total = t /\ g.buffer = p.buffer
  <2> HIDE DEF x
  <2> QED BY <1>1, <1>2, <1>5 DEF MpParsers
<1> HIDE DEF g, c
<1>7. /\ c \in MpParsers /\ c.fd = NoFile /\ c.tmp = NoFile /\ c.disk = p.disk \ {g.tmp} /\ c.parts = p.parts
      /\ c.out = g.out /\ c.total = t /\ c.buffer = p.buffer BY <1>2, <1>4, <1>6 DEF discard_current_part, MpParsers
<1>8. CASE ~reported
  <2>0. c.out = p.out /\ g.tmp = p.tmp BY <1>6, <1>7, <1>8
  <2>1. c.disk = FilesOf(c.out) \ {NoFile} BY <1>1, <1>7, <2>0 DEF FilesTrue
  <2> HIDE DEF reported, x
  <2>2. FilesTrue(c) BY <1>1, <1>3, <1>7, <2>0, <2>1 DEF FilesTrue, NoFile
  <2> QED BY <1>7, <2>2 DEF MpGood, c
<1>9. CASE reported
  <2> DEFINE n == Len(p.out)
  <2>1. c.out = Append(p.out, x) /\ g.tmp = NoFile BY <1>6, <1>7, <1>9
  <2>2. n \in Nat /\ DOMAIN p.out = 1 .. n /\ DOMAIN c.out = 1 .. n + 1 BY <1>3, <2>1
  <2>3. c.out[n + 1] = x /\ \A i \in 1 .. n : c.out[i] = p.out[i] BY <1>3, <2>1
  <2>4. x.file = p.fd OBVIOUS
  <2> HIDE DEF x, n
  <2>5. FilesOf(c.out) = FilesOf(p.out) \cup {p.fd}
    <3>1. \A i \in 1 .. n : c.out[i].file = p.out[i].file BY <2>3
    <3>2. c.out[n + 1].file = p.fd BY <2>3, <2>4
    <3>3. 1 .. n + 1 = (1 .. n) \cup {n + 1} BY <2>2
    <3>4. FilesOf(c.out) = {c.out[i].file : i \in (1 .. n) \cup {n + 1}} BY <3>3, <2>2, Zenon DEF FilesOf
    <3>5. FilesOf(p.out) = {p.out[i].file : i \in 1 .. n} BY <2>2, Zenon DEF FilesOf
    <3>6. \A f : f \in FilesOf(c.out) <=> f = p.fd \/ \E i \in 1 .. n : f = p.out[i].file BY <3>1, <3>2, <3>4
    <3> QED BY <3>5, <3>6
  <2>6. c.disk = FilesOf(c.out) \ {NoFile} BY <1>1, <1>7, <2>1, <2>5 DEF FilesTrue
  <2>7. OwnFiles(c.out)
    <3>1. ASSUME NEW i \in 1 .. n + 1, NEW j \in 1 .. n + 1, i # j, c.out[i].file = c.out[j].file
          PROVE  c.out[i].file = NoFile
      <4>1. CASE i \in 1 .. n /\ j \in 1 .. n BY <3>1, <4>1, <2>2, <2>3, <1>1 DEF FilesTrue, OwnFiles
      <4>2. CASE i = n + 1
        <5>1. j \in 1 .. n BY <3>1, <4>2, <2>2
        <5>2. p.fd \in FilesOf(p.out) BY <3>1, <4>2, <5>1, <2>2, <2>3, <2>4 DEF FilesOf
        <5> QED BY <5>2, <4>2, <2>3, <2>4, <1>1 DEF FilesTrue
      <4>3. CASE j = n + 1
        <5>1. i \in 1 .. n BY <3>1, <4>3, <2>2
        <5>2. p.fd \in FilesOf(p.out) BY <3>1, <4>3, <5>1, <2>2, <2>3, <2>4 DEF FilesOf
        <5> QED BY <3>1, <5>2, <4>3, <2>3, <2>4, <1>1 DEF FilesTrue
      <4> QED BY <4>1, <4>2, <4>3, <2>2
    <3> QED BY <3>1, <2>2 DEF OwnFiles
  <2>8. FilesTrue(c) BY <1>1, <1>3, <1>7, <2>5, <2>6, <2>7 DEF FilesTrue, NoFile
  <2> QED BY <1>7, <2>8 DEF MpGood, c
<1> QED BY <1>8, <1>9

\* A file that did not exist before.
LEMMA Opens ==
  ASSUME NEW t \in Nat, NEW p \in MpGood(t), p.fd = NoFile, p.parts > 0, p.state = "READING_BODY",
         \A f \in FilesOf(p.out) : f < p.parts, ~p.failed, NEW disk_ok
  PROVE  open_temp_file(p, disk_ok) \in MpGood(t)
<1> DEFINE f == p.parts
           o == [p EXCEPT !.fd = f, !.tmp = f, !.disk = @ \cup {f}]
<1>1. p \in MpParsers /\ FilesTrue(p) /\ p.total = t /\ f \in Nat BY DEF MpGood, MpParsers
<1>2. /\ o \in MpParsers /\ o.fd = f /\ o.tmp = f /\ o.disk = p.disk \cup {f} /\ o.out = p.out /\ o.parts = f
      /\ o.total = t /\ o.state = p.state /\ o.failed = p.failed BY <1>1 DEF MpParsers
<1> HIDE DEF o
<1>3. f \notin FilesOf(p.out) /\ f # NoFile BY <1>1 DEF NoFile
<1>4. o.disk = (FilesOf(o.out) \cup {o.fd}) \ {NoFile} BY <1>1, <1>2, <1>3 DEF FilesTrue
<1>5. FilesTrue(o) BY <1>1, <1>2, <1>3, <1>4 DEF FilesTrue
<1>6. open_temp_file(p, disk_ok) \in {o, fail(p)} BY DEF open_temp_file, o
<1> QED BY <1>2, <1>5, <1>6, Fails DEF MpGood

\* Bytes leave the buffer, or the parser goes on to what comes next.
LEMMA Moves ==
  ASSUME NEW t \in Nat, NEW p \in MpGood(t), NEW b \in Seq(MpSyms), NEW finished \in BOOLEAN,
         NEW s \in {"FINDING_BOUNDARY", "READING_HEADERS", "READING_BODY"}, s = p.state \/ p.fd = NoFile
  PROVE  /\ [p EXCEPT !.buffer = b] \in MpGood(t)
         /\ [p EXCEPT !.buffer = b, !.finished = finished] \in MpGood(t)
         /\ [p EXCEPT !.buffer = b, !.state = s] \in MpGood(t)
<1> DEFINE x == [p EXCEPT !.buffer = b]
           y == [p EXCEPT !.buffer = b, !.finished = finished]
           z == [p EXCEPT !.buffer = b, !.state = s]
<1>1. p \in MpParsers /\ FilesTrue(p) /\ p.total = t BY DEF MpGood
<1>2. /\ x \in MpParsers /\ x.fd = p.fd /\ x.tmp = p.tmp /\ x.disk = p.disk /\ x.out = p.out /\ x.parts = p.parts
      /\ x.total = t /\ x.state = p.state /\ x.failed = p.failed BY <1>1 DEF MpParsers
<1>3. /\ y \in MpParsers /\ y.fd = p.fd /\ y.tmp = p.tmp /\ y.disk = p.disk /\ y.out = p.out /\ y.parts = p.parts
      /\ y.total = t /\ y.state = p.state /\ y.failed = p.failed BY <1>1 DEF MpParsers
<1>4. /\ z \in MpParsers /\ z.fd = p.fd /\ z.tmp = p.tmp /\ z.disk = p.disk /\ z.out = p.out /\ z.parts = p.parts
      /\ z.total = t /\ z.state = s /\ z.failed = p.failed BY <1>1 DEF MpParsers
<1> HIDE DEF x, y, z
<1>5. FilesTrue(x) /\ FilesTrue(y) /\ FilesTrue(z) BY <1>1, <1>2, <1>3, <1>4 DEF FilesTrue
<1> QED BY <1>2, <1>3, <1>4, <1>5 DEF MpGood, x, y, z

LEMMA Buffers ==
  ASSUME NEW t \in Nat, NEW p \in MpGood(t), NEW b \in Seq(MpSyms)
  PROVE  [p EXCEPT !.buffer = b] \in MpGood(t)
<1>1. p.state \in {"FINDING_BOUNDARY", "READING_HEADERS", "READING_BODY"} /\ p.finished \in BOOLEAN
  BY DEF MpGood, MpParsers
<1> QED BY <1>1, Moves

\* What a round of the loop gives.
MpRounds(t) == {r \in [wait : BOOLEAN, p : MpParsers] : r.p \in MpGood(t)}

LEMMA BoundaryRound ==
  ASSUME NEW t \in Nat, NEW p \in MpGood(t), p.state = "FINDING_BOUNDARY"
  PROVE  FindBoundary(p) \in MpRounds(t)
<1> DEFINE pos == find(p.buffer, dash_boundary)
           rest == erase(p.buffer, pos - 1 + Len(dash_boundary))
<1>1. p.buffer \in Seq(MpSyms) /\ Len(dash_boundary) = 3 /\ Len(p.buffer) \in Nat /\ p \in MpParsers
  BY MarksAre DEF MpGood, MpParsers
<1>2. \A n \in 0 .. Len(p.buffer) : erase(p.buffer, n) \in Seq(MpSyms) BY <1>1, EraseIs
<1>3. p.fd = NoFile BY DEF MpGood, FilesTrue
<1>4. << >> \in Seq(MpSyms) OBVIOUS
<1>5. \A b \in Seq(MpSyms) : /\ [p EXCEPT !.buffer = b] \in MpGood(t)
                             /\ [p EXCEPT !.buffer = b, !.finished = TRUE] \in MpGood(t)
                             /\ [p EXCEPT !.buffer = b, !.state = "READING_HEADERS"] \in MpGood(t) BY <1>3, Moves
<1>6. \A q \in MpGood(t) : \A w \in BOOLEAN : [wait |-> w, p |-> q] \in MpRounds(t) BY DEF MpRounds, MpGood
<1>7. CASE pos = 0
  <2> DEFINE b == IF Len(p.buffer) > Len(dash_boundary) THEN erase(p.buffer, Len(p.buffer) - Len(dash_boundary)) ELSE p.buffer
  <2>1. b \in Seq(MpSyms) BY <1>1, <1>2
  <2>2. FindBoundary(p) = [wait |-> TRUE, p |-> [p EXCEPT !.buffer = b]] BY <1>7 DEF FindBoundary
  <2> HIDE DEF b
  <2> QED BY <2>1, <2>2, <1>5, <1>6
<1>8. CASE pos # 0
  <2>1. pos - 1 + 3 \in 0 .. Len(p.buffer)
    <3>1. pos \in 0 .. Len(p.buffer) /\ (pos > 0 => pos + Len(dash_boundary) <= Len(p.buffer) + 1)
      BY <1>1, FoundWithin
    <3> QED BY <1>1, <1>8, <3>1
  <2>2. rest \in Seq(MpSyms) /\ Len(rest) \in Nat BY <2>1, <1>1, <1>2
  <2>3. Len(rest) >= 2 => erase(rest, 2) \in Seq(MpSyms)
    <3> HIDE DEF rest
    <3> QED BY <2>2, EraseIs
  <2>4. \/ FindBoundary(p) = [wait |-> TRUE, p |-> [p EXCEPT !.buffer = rest]]
        \/ FindBoundary(p) = [wait |-> TRUE, p |-> [p EXCEPT !.buffer = << >>, !.finished = TRUE]]
        \/ /\ Len(rest) >= 2
           /\ \/ FindBoundary(p) = [wait |-> FALSE, p |-> [p EXCEPT !.buffer = erase(rest, 2), !.state = "READING_HEADERS"]]
              \/ FindBoundary(p) = [wait |-> FALSE, p |-> [p EXCEPT !.buffer = erase(rest, 2)]]
    <3>1. CASE Len(rest) < 2
      <4>1. ~(Len(rest) >= 2) BY <2>2, <3>1
      <4> QED BY <1>8, <3>1, <4>1, Zenon DEF FindBoundary
    <3>2. CASE ~(Len(rest) < 2)
      <4>1. Len(rest) >= 2 BY <2>2, <3>2
      <4>2. CASE SubSeq(rest, 1, 2) = <<"-", "-">>
        <5>1. Len(rest) >= 2 /\ SubSeq(rest, 1, 2) = <<"-", "-">> BY <4>1, <4>2
        <5>2. ~(Len(rest) >= 2 /\ SubSeq(rest, 1, 2) = CRLF)
          <6>1. CRLF # <<"-", "-">> BY DEF CRLF
          <6> QED BY <4>2, <6>1, Zenon
        <5>3. FindBoundary(p) = [wait |-> TRUE, p |-> [p EXCEPT !.buffer = << >>, !.finished = TRUE]]
          BY <1>8, <3>2, <5>1, <5>2, Zenon DEF FindBoundary
        <5> QED BY <5>3
      <4>3. CASE SubSeq(rest, 1, 2) # <<"-", "-">> /\ SubSeq(rest, 1, 2) = CRLF
        <5>1. ~(Len(rest) >= 2 /\ SubSeq(rest, 1, 2) = <<"-", "-">>) /\ (Len(rest) >= 2 /\ SubSeq(rest, 1, 2) = CRLF)
          BY <4>1, <4>3
        <5>2. FindBoundary(p) = [wait |-> FALSE, p |-> [p EXCEPT !.buffer = erase(rest, 2), !.state = "READING_HEADERS"]]
          BY <1>8, <3>2, <5>1, Zenon DEF FindBoundary
        <5> QED BY <4>1, <5>2
      <4>4. CASE SubSeq(rest, 1, 2) # <<"-", "-">> /\ SubSeq(rest, 1, 2) # CRLF
        <5>1. FindBoundary(p) = [wait |-> FALSE, p |-> [p EXCEPT !.buffer = erase(rest, 2)]]
          BY <1>8, <3>2, <4>4, Zenon DEF FindBoundary
        <5> QED BY <4>1, <5>1
      <4> QED BY <4>2, <4>3, <4>4
    <3> QED BY <3>1, <3>2
  <2> HIDE DEF rest
  <2> QED BY <2>2, <2>3, <2>4, <1>4, <1>5, <1>6
<1> QED BY <1>7, <1>8

LEMMA HeadersRound ==
  ASSUME NEW t \in Nat, NEW p \in MpGood(t), p.state = "READING_HEADERS", p.buffer # << >>, ~p.failed, NEW disk_ok
  PROVE  ReadHeaders(p, disk_ok) \in MpRounds(t)
<1> DEFINE pos == find(p.buffer, header_end)
           new == MpHeaders[p.buffer[1]]
           b == erase(p.buffer, pos + 3)
           q == [p EXCEPT !.parts = @ + 1, !.part = new, !.buffer = b, !.value = << >>, !.state = "READING_BODY"]
           e == [p EXCEPT !.parts = @ + 1]
<1>1. p \in MpParsers /\ FilesTrue(p) /\ p.total = t /\ p.buffer \in Seq(MpSyms) /\ Len(p.buffer) \in Nat /\ p.parts \in Nat
  BY DEF MpGood, MpParsers
<1>2. p.fd = NoFile BY <1>1 DEF FilesTrue
<1>3. new \in MpParts
  <2>1. p.buffer[1] \in MpSyms BY <1>1
  <2> QED BY <2>1 DEF MpParts
<1>4. \A x \in MpGood(t) : \A w \in BOOLEAN : [wait |-> w, p |-> x] \in MpRounds(t) BY DEF MpRounds, MpGood
<1>5. CASE pos = 0
  <2>1. ReadHeaders(p, disk_ok) = [wait |-> TRUE, p |-> IF Len(p.buffer) > MpMaxHeaders THEN fail(p) ELSE p]
    <3>1. ~(pos > 0 /\ p.parts + 1 > MpMaxParts) BY <1>5
    <3> QED BY <1>5, <3>1, Zenon DEF ReadHeaders
  <2>2. fail(p) \in MpGood(t) BY Fails
  <2> HIDE DEF pos, q, e
  <2> QED BY <2>1, <2>2, <1>4
<1>6. CASE pos # 0
  <2>1. b \in Seq(MpSyms)
    <3>1. pos + 3 \in 0 .. Len(p.buffer)
      <4>1. pos \in 0 .. Len(p.buffer) /\ (pos > 0 => pos + Len(header_end) <= Len(p.buffer) + 1) /\ Len(header_end) = 4
        BY <1>1, MarksAre, FoundWithin
      <4> QED BY <1>1, <1>6, <4>1
    <3> QED BY <3>1, <1>1, EraseIs
  <2>2. << >> \in Seq(MpSyms) /\ p.parts + 1 \in Nat BY <1>1
  <2>6. \/ ReadHeaders(p, disk_ok) = [wait |-> TRUE, p |-> fail(e)]
        \/ ReadHeaders(p, disk_ok) = [wait |-> FALSE, p |-> open_temp_file(q, disk_ok)]
        \/ ReadHeaders(p, disk_ok) = [wait |-> FALSE, p |-> q] BY <1>6, Zenon DEF ReadHeaders
  <2> HIDE DEF new, b
  <2>3. /\ e \in MpParsers /\ e.fd = p.fd /\ e.tmp = p.tmp /\ e.disk = p.disk /\ e.out = p.out
        /\ e.parts = p.parts + 1 /\ e.total = t /\ e.state = p.state /\ e.failed = p.failed
    BY <1>1, <2>2 DEF MpParsers
  <2>4. /\ q \in MpParsers /\ q.fd = p.fd /\ q.tmp = p.tmp /\ q.disk = p.disk /\ q.out = p.out
        /\ q.parts = p.parts + 1 /\ q.total = t /\ q.state = "READING_BODY" /\ q.failed = p.failed
    BY <1>1, <1>3, <2>1, <2>2 DEF MpParsers
  <2>5. \A f \in FilesOf(p.out) : f \in Nat /\ f < p.parts + 1
    <3>0. p.out \in Seq(MpReports) BY <1>1 DEF MpParsers
    <3>1. \A i \in DOMAIN p.out : p.out[i].file \in Nat
      <4>1. \A i \in DOMAIN p.out : p.out[i] \in MpReports BY <3>0
      <4> QED BY <4>1 DEF MpReports
    <3>2. \A f \in FilesOf(p.out) : f \in Nat BY <3>1 DEF FilesOf
    <3> QED BY <3>2, <1>1 DEF FilesTrue
  <2> HIDE DEF e, q
  <2>7. FilesTrue(e) /\ FilesTrue(q) BY <1>1, <1>2, <2>3, <2>4, <2>5 DEF FilesTrue, NoFile
  <2>8. e \in MpGood(t) /\ q \in MpGood(t) BY <2>3, <2>4, <2>7 DEF MpGood
  <2>9. open_temp_file(q, disk_ok) \in MpGood(t) BY <2>4, <2>5, <2>8, <1>1, <1>2, Opens
  <2>10. fail(e) \in MpGood(t) BY <2>8, Fails
  <2> QED BY <2>6, <2>8, <2>9, <2>10, <1>4
<1> QED BY <1>5, <1>6

LEMMA BodyRound ==
  ASSUME NEW t \in Nat, NEW p \in MpGood(t), NEW disk_ok
  PROVE  ReadBody(p, disk_ok) \in MpRounds(t)
<1> DEFINE pos == find(p.buffer, boundary_sig)
           safe == Len(p.buffer) - Len(boundary_sig)
           whole == append_body(p, SubSeq(p.buffer, 1, pos - 1), disk_ok)
           some == append_body(p, SubSeq(p.buffer, 1, safe), disk_ok)
           closed == close_current_part(whole)
<1>1. p.buffer \in Seq(MpSyms) /\ Len(boundary_sig) = 5 /\ Len(p.buffer) \in Nat BY MarksAre DEF MpGood, MpParsers
<1>2. pos \in 0 .. Len(p.buffer) /\ (pos > 0 => pos + 5 <= Len(p.buffer) + 1) BY <1>1, MarksAre, FoundWithin
<1>3. \A n \in 0 .. Len(p.buffer) : erase(p.buffer, n) \in Seq(MpSyms) /\ SubSeq(p.buffer, 1, n) \in Seq(MpSyms)
  BY <1>1, EraseIs, BeginIs
<1>4. \A x \in MpGood(t) : \A w \in BOOLEAN : [wait |-> w, p |-> x] \in MpRounds(t) BY DEF MpRounds, MpGood
<1>5. \A d \in Seq(MpSyms) :
        LET a == append_body(p, d, disk_ok)
        IN a \in MpGood(t) /\ (~a.failed => a.fd = p.fd /\ a.state = p.state /\ a.buffer = p.buffer) BY Appends
<1>6. CASE pos > 0
  <2>1. pos - 1 \in 0 .. Len(p.buffer) /\ pos + 1 \in 0 .. Len(p.buffer) BY <1>1, <1>2, <1>6
  <2>2. whole \in MpGood(t) /\ (~whole.failed => whole.buffer = p.buffer) BY <2>1, <1>3, <1>5
  <2>3. ReadBody(p, disk_ok) =
          [wait |-> FALSE, p |-> IF whole.failed THEN whole
                        ELSE [closed EXCEPT !.buffer = erase(@, pos + 1), !.state = "FINDING_BOUNDARY"]]
    <3>1. ~(pos = 0 /\ safe > 0) BY <1>6
    <3> QED BY <1>6, <3>1, Zenon DEF ReadBody
  <2> HIDE DEF whole, pos
  <2>4. CASE whole.failed BY <2>2, <2>3, <2>4, <1>4
  <2>5. CASE ~whole.failed
    <3>1. closed \in MpGood(t) /\ closed.fd = NoFile /\ closed.buffer = p.buffer BY <2>2, <2>5, Closes
    <3> HIDE DEF closed
    <3>2. [closed EXCEPT !.buffer = erase(p.buffer, pos + 1), !.state = "FINDING_BOUNDARY"] \in MpGood(t)
      BY <3>1, <2>1, <1>3, Moves
    <3>3. [closed EXCEPT !.buffer = erase(@, pos + 1), !.state = "FINDING_BOUNDARY"]
            = [closed EXCEPT !.buffer = erase(p.buffer, pos + 1), !.state = "FINDING_BOUNDARY"] BY <3>1
    <3> QED BY <2>3, <2>5, <3>2, <3>3, <1>4
  <2> QED BY <2>4, <2>5
<1>7. CASE pos = 0 /\ safe > 0
  <2>1. safe \in 0 .. Len(p.buffer) BY <1>1, <1>7
  <2>2. some \in MpGood(t) /\ (~some.failed => some.buffer = p.buffer) BY <2>1, <1>3, <1>5
  <2>3. ReadBody(p, disk_ok) = [wait |-> TRUE, p |-> IF some.failed THEN some ELSE [some EXCEPT !.buffer = erase(@, safe)]]
    <3>1. ~(pos > 0) BY <1>7
    <3> QED BY <1>7, <3>1, Zenon DEF ReadBody
  <2> HIDE DEF some, safe
  <2>4. CASE some.failed BY <2>2, <2>3, <2>4, <1>4
  <2>5. CASE ~some.failed
    <3>1. [some EXCEPT !.buffer = erase(p.buffer, safe)] \in MpGood(t) BY <2>1, <2>2, <1>3, Buffers
    <3>2. [some EXCEPT !.buffer = erase(@, safe)] = [some EXCEPT !.buffer = erase(p.buffer, safe)] BY <2>2, <2>5
    <3> QED BY <2>3, <2>5, <3>1, <3>2, <1>4
  <2> QED BY <2>4, <2>5
<1>8. CASE pos = 0 /\ ~(safe > 0)
  <2>1. ReadBody(p, disk_ok) = [wait |-> TRUE, p |-> p]
    <3>1. ~(pos > 0) BY <1>8
    <3> QED BY <1>8, <3>1, Zenon DEF ReadBody
  <2> QED BY <2>1, <1>4
<1> QED BY <1>2, <1>6, <1>7, <1>8

LEMMA RoundIs ==
  ASSUME NEW t \in Nat, NEW r \in MpRounds(t), NEW disk_ok
  PROVE  Round(r, disk_ok) \in MpRounds(t)
<1>1. r.p \in MpGood(t) /\ r.p.state \in {"FINDING_BOUNDARY", "READING_HEADERS", "READING_BODY"}
  BY DEF MpRounds, MpGood, MpParsers
<1> DEFINE stop == r.wait \/ r.p.buffer = << >> \/ r.p.failed
<1>2. CASE stop
  <2>1. Round(r, disk_ok) = r BY <1>2 DEF Round
  <2> QED BY <2>1
<1>3. CASE ~stop /\ r.p.state = "FINDING_BOUNDARY"
  <2>1. Round(r, disk_ok) = FindBoundary(r.p) BY <1>3 DEF Round
  <2> QED BY <1>1, <1>3, <2>1, BoundaryRound
<1>4. CASE ~stop /\ r.p.state = "READING_HEADERS"
  <2>1. Round(r, disk_ok) = ReadHeaders(r.p, disk_ok) BY <1>4 DEF Round
  <2> QED BY <1>1, <1>4, <2>1, HeadersRound
<1>5. CASE ~stop /\ r.p.state = "READING_BODY"
  <2>1. Round(r, disk_ok) = ReadBody(r.p, disk_ok) BY <1>5 DEF Round
  <2> QED BY <1>1, <2>1, BodyRound
<1> QED BY <1>1, <1>2, <1>3, <1>4, <1>5

\* All rounds of the loop.
LEMMA Processes ==
  ASSUME NEW t \in Nat, NEW p \in MpGood(t), NEW disk_ok
  PROVE  process_buffer(p, disk_ok) \in MpGood(t)
<1> DEFINE n == Len(p.buffer)
           S == MpRounds(t)
           c == [wait |-> FALSE, p |-> p]
           step == [i \in 1 .. n |-> [r \in S |-> Round(r, disk_ok)]]
           Body(f) == [i \in 0 .. n |-> IF i = 0 THEN c ELSE Round(f[i - 1], disk_ok)]
           after == CHOOSE f : f = Body(f)
<1>1. n \in Nat /\ c \in S
  <2>1. p \in MpParsers BY DEF MpGood
  <2> QED BY <2>1 DEF MpRounds, MpParsers
<1>2. process_buffer(p, disk_ok) = after[n].p BY DEF process_buffer
<1>3. \A r \in S : Round(r, disk_ok) \in S BY RoundIs
<1>4. \A i \in 1 .. n : \A r \in S : step[i][r] = Round(r, disk_ok) OBVIOUS
<1>5. PICK f : Course(n, S, c, step, f)
  <2> HIDE DEF step, n, c, S
  <2>1. \A i \in 1 .. n : \A r \in S : step[i][r] \in S BY <1>3, <1>4
  <2> QED BY <2>1, <1>1, StepByStep
<1>6. f \in [0 .. n -> S] /\ f[0] = c /\ \A i \in 1 .. n : f[i] = Round(f[i - 1], disk_ok)
  <2>1. f \in [0 .. n -> S] /\ f[0] = c /\ \A i \in 1 .. n : f[i] = step[i][f[i - 1]] BY <1>5 DEF Course
  <2>2. \A i \in 1 .. n : f[i - 1] \in S
    <3> HIDE DEF step, c, S
    <3> QED BY <2>1, <1>1
  <2> HIDE DEF step, c, S, n
  <2> QED BY <2>1, <2>2, <1>4
<1>7. f = Body(f)
  <2> HIDE DEF S, c
  <2> QED BY <1>6
<1>8. after = Body(after)
  <2> HIDE DEF Body
  <2> QED BY <1>7
<1>9. after[0] = c /\ \A i \in 1 .. n : after[i] = Round(after[i - 1], disk_ok)
  <2>1. 0 \in 0 .. n /\ (0 = 0) /\ \A i \in 1 .. n : i \in 0 .. n /\ i # 0 BY <1>1
  <2> HIDE DEF after, c, n
  <2> QED BY <1>8, <2>1
<1> HIDE DEF after, S, n, c
<1> DEFINE Good == {i \in 0 .. n : after[i] \in S}
<1>10. n \in Good
  <2>1. 0 \in Good BY <1>1, <1>9
  <2>2. \A i \in 1 .. n : i - 1 \in Good => i \in Good BY <1>1, <1>3, <1>9
  <2> HIDE DEF Good
  <2>3. \A i \in 0 .. n : i \in Good BY <1>1, <2>1, <2>2, UpFromZero
  <2> QED BY <2>3, <1>1
<1> QED BY <1>2, <1>10 DEF S, MpRounds

LEMMA Feeds ==
  ASSUME NEW t \in Nat, NEW p \in MpGood(t), NEW chunk \in Seq(MpSyms), NEW disk_ok
  PROVE  \E s \in {t, t + Len(chunk)} : feed(p, chunk, disk_ok) \in MpGood(s)
<1> DEFINE s == t + Len(chunk)
           q == [p EXCEPT !.total = @ + Len(chunk), !.buffer = @ \o chunk]
           o == [p EXCEPT !.total = q.total]
<1>1. p \in MpParsers /\ FilesTrue(p) /\ p.total = t /\ Len(chunk) \in Nat /\ s \in Nat BY DEF MpGood
<1>2. p.buffer \o chunk \in Seq(MpSyms) BY <1>1 DEF MpParsers
<1>3. q.total = s BY <1>1 DEF MpParsers
<1>4. /\ q \in MpParsers /\ q.fd = p.fd /\ q.tmp = p.tmp /\ q.disk = p.disk /\ q.out = p.out /\ q.parts = p.parts
      /\ q.state = p.state /\ q.failed = p.failed BY <1>1, <1>2 DEF MpParsers
<1>5. feed(p, chunk, disk_ok) \in {p, fail(o), process_buffer(q, disk_ok)} BY Zenon DEF feed
<1> HIDE DEF q
<1>6. /\ o \in MpParsers /\ o.fd = p.fd /\ o.tmp = p.tmp /\ o.disk = p.disk /\ o.out = p.out /\ o.parts = p.parts
      /\ o.state = p.state /\ o.failed = p.failed /\ o.total = s BY <1>1, <1>3 DEF MpParsers
<1> HIDE DEF o
<1>7. FilesTrue(q) /\ FilesTrue(o) BY <1>1, <1>4, <1>6 DEF FilesTrue
<1>8. q \in MpGood(s) /\ o \in MpGood(s) BY <1>3, <1>4, <1>6, <1>7 DEF MpGood
<1>9. fail(o) \in MpGood(s) /\ process_buffer(q, disk_ok) \in MpGood(s) BY <1>1, <1>8, Fails, Processes
<1> QED BY <1>5, <1>9

----
\* Uploads: the inductive invariant.

MpInv ==
  /\ mpBody \in Seq(MpSyms) /\ mpFed \in 0 .. Len(mpBody)
  /\ mpEnd \in {"open", "complete", "failed", "gone"}
  /\ \E t \in 0 .. mpFed : mpParser \in MpGood(t)
  /\ mpEnd = "open" => mpDisk = mpParser.disk /\ mpUpload = mpParser.out
  /\ mpEnd # "open" =>
       mpParser.fd = NoFile /\ mpDisk = FilesOf(mpUpload) \ {NoFile} /\ OwnFiles(mpUpload)
  /\ mpEnd = "failed" => mpUpload = << >>

LEMMA MpStarts == MpInit => MpInv
<1> SUFFICES ASSUME MpInit PROVE MpInv OBVIOUS
<1>1. mpBody \in Seq(MpSyms)
  <2>1. {mpBody[i] : i \in DOMAIN mpBody} \subseteq MpSyms /\ mpBody \in Seq({mpBody[i] : i \in DOMAIN mpBody})
    BY MpAssumption DEF MpInit, MpSyms
  <2> DEFINE S == {mpBody[i] : i \in DOMAIN mpBody}
  <2> HIDE DEF S
  <2>2. S \subseteq MpSyms /\ mpBody \in Seq(S) BY <2>1 DEF S
  <2> QED BY <2>2
<1>2. mpParser \in MpParsers /\ mpParser.out = << >> /\ mpParser.disk = {} /\ mpParser.fd = 0 /\ mpParser.tmp = 0
      /\ mpParser.parts = 0 /\ mpParser.total = 0 BY DEF MpInit, MpParsers, MpParts, NoFile
<1>3. FilesOf(mpParser.out) = {} /\ OwnFiles(mpParser.out) BY <1>2 DEF FilesOf, OwnFiles
<1>4. FilesTrue(mpParser) BY <1>2, <1>3 DEF FilesTrue, NoFile
<1>5. mpParser \in MpGood(0) /\ 0 \in 0 .. mpFed BY <1>2, <1>4 DEF MpGood, MpInit
<1> QED BY <1>1, <1>2, <1>5 DEF MpInit, MpInv

LEMMA MpFeeds ==
  ASSUME MpInv, NEW n \in 1 .. Len(mpBody) - mpFed, NEW disk_ok, Feed(n, disk_ok)
  PROVE  MpInv'
<1> DEFINE chunk == SubSeq(mpBody, mpFed + 1, mpFed + n)
<1>1. PICK t \in 0 .. mpFed : mpParser \in MpGood(t) BY DEF MpInv
<1>2. mpBody \in Seq(MpSyms) /\ mpFed \in 0 .. Len(mpBody) /\ Len(mpBody) \in Nat /\ t \in Nat BY <1>1 DEF MpInv
<1>3. chunk \in Seq(MpSyms) /\ Len(chunk) = n
  <2>1. mpFed + 1 \in 1 .. Len(mpBody) + 1 /\ mpFed + n \in mpFed + 1 - 1 .. Len(mpBody) BY <1>2
  <2>2. Len(chunk) = mpFed + n - (mpFed + 1) + 1 /\ chunk \in Seq(MpSyms) BY <1>2, <2>1, SubSeqProperties
  <2> QED BY <2>2, <1>2
<1>4. mpParser' = feed(mpParser, chunk, disk_ok) /\ mpFed' = mpFed + n /\ mpBody' = mpBody /\ mpEnd' = mpEnd /\ mpEnd = "open"
      /\ mpDisk' = mpParser'.disk /\ mpUpload' = mpParser'.out BY DEF Feed
<1> HIDE DEF chunk
<1>5. PICK s \in {t, t + n} : mpParser' \in MpGood(s) BY <1>1, <1>2, <1>3, <1>4, Feeds
<1>6. s \in 0 .. mpFed' /\ mpFed' \in 0 .. Len(mpBody') BY <1>1, <1>2, <1>4, <1>5
<1> QED BY <1>2, <1>4, <1>5, <1>6 DEF MpInv

LEMMA MpEnds == ASSUME MpInv, End PROVE MpInv'
<1> DEFINE q == process_buffer(mpParser, TRUE)
           p == IF mpParser.failed THEN mpParser ELSE discard_current_part(q)
           ok == ~p.failed /\ p.finished
<1>1. PICK t \in 0 .. mpFed : mpParser \in MpGood(t) BY DEF MpInv
<1>2. t \in Nat /\ mpEnd = "open" BY <1>1 DEF MpInv, End
<1>3. /\ mpEnd' = (IF ok THEN "complete" ELSE "failed") /\ mpUpload' = (IF ok THEN p.out ELSE << >>)
      /\ mpDisk' = (IF ok THEN p.disk ELSE p.disk \ FilesOf(p.out)) /\ mpParser' = p /\ mpBody' = mpBody /\ mpFed' = mpFed
  BY DEF End
<1>4. p \in MpGood(t) /\ p.fd = NoFile
  <2>1. q \in MpGood(t) BY <1>1, <1>2, Processes
  <2>2. discard_current_part(q) \in MpGood(t) /\ discard_current_part(q).fd = NoFile BY <1>2, <2>1, Discards
  <2>3. mpParser.failed => mpParser.fd = NoFile BY <1>1 DEF MpGood, FilesTrue
  <2> HIDE DEF q
  <2> QED BY <1>1, <2>2, <2>3
<1> HIDE DEF p
<1>5. p.disk = FilesOf(p.out) \ {NoFile} /\ OwnFiles(p.out) BY <1>4 DEF MpGood, FilesTrue
<1>6. mpDisk' = FilesOf(mpUpload') \ {NoFile} /\ OwnFiles(mpUpload')
  <2>1. CASE ok BY <1>3, <1>5, <2>1
  <2>2. CASE ~ok
    <3>1. FilesOf(<< >>) = {} /\ OwnFiles(<< >>) BY DEF FilesOf, OwnFiles
    <3> QED BY <1>3, <1>5, <2>2, <3>1
  <2> QED BY <2>1, <2>2
<1>7. mpEnd' \in {"complete", "failed"} /\ (mpEnd' = "failed" => mpUpload' = << >>) BY <1>3
<1> QED BY <1>1, <1>3, <1>4, <1>6, <1>7 DEF MpInv

LEMMA MpLeaves == ASSUME MpInv, Gone PROVE MpInv'
<1>1. PICK t \in 0 .. mpFed : mpParser \in MpGood(t) BY DEF MpInv
<1>2. t \in Nat /\ mpEnd = "open" /\ mpUpload = mpParser.out BY <1>1 DEF MpInv, Gone
<1>3. /\ mpParser' = discard_current_part(mpParser) /\ mpDisk' = mpParser'.disk /\ mpEnd' = "gone"
      /\ mpBody' = mpBody /\ mpFed' = mpFed /\ mpUpload' = mpUpload BY DEF Gone
<1>4. mpParser' \in MpGood(t) /\ mpParser'.fd = NoFile /\ mpParser'.out = mpUpload' BY <1>1, <1>2, <1>3, Discards
<1>5. mpParser'.disk = FilesOf(mpUpload') \ {NoFile} /\ OwnFiles(mpUpload') BY <1>4 DEF MpGood, FilesTrue
<1> QED BY <1>1, <1>3, <1>4, <1>5 DEF MpInv

LEMMA MpSteps == MpInv /\ [MpNext]_mpVars => MpInv'
<1> SUFFICES ASSUME MpInv, [MpNext]_mpVars PROVE MpInv' OBVIOUS
<1>1. CASE MpNext BY <1>1, MpFeeds, MpEnds, MpLeaves DEF MpNext
<1>2. CASE UNCHANGED mpVars BY <1>2 DEF mpVars, MpInv
<1> QED BY <1>1, <1>2

LEMMA MpHolds == MpInv => MpTypeOK /\ FilesAccounted
<1> SUFFICES ASSUME MpInv PROVE MpTypeOK /\ FilesAccounted OBVIOUS
<1>1. PICK t \in 0 .. mpFed : mpParser \in MpGood(t) BY DEF MpInv
<1>2. mpParser.total \in 0 .. mpFed /\ FilesTrue(mpParser) BY <1>1 DEF MpGood
<1>3. MpTypeOK BY <1>2 DEF MpTypeOK, MpInv
<1>4. CASE mpEnd = "open"
  <2>1. mpDisk = mpParser.disk /\ mpUpload = mpParser.out BY <1>4 DEF MpInv
  <2>2. mpDisk = (FilesOf(mpUpload) \cup {mpParser.fd}) \ {NoFile} /\ OwnFiles(mpUpload) BY <1>2, <2>1 DEF FilesTrue
  <2> QED BY <1>3, <1>4, <2>2 DEF FilesAccounted, OwnFiles
<1>5. CASE mpEnd # "open"
  <2>1. mpEnd = "failed" => FilesOf(mpUpload) = {} BY DEF MpInv, FilesOf
  <2>2. mpParser.fd = NoFile /\ mpDisk = FilesOf(mpUpload) \ {NoFile} /\ OwnFiles(mpUpload) BY <1>5 DEF MpInv
  <2>3. mpDisk = (FilesOf(mpUpload) \cup {mpParser.fd}) \ {NoFile} BY <2>2
  <2>4. mpEnd = "failed" => mpDisk = {} BY <2>1, <2>2
  <2> QED BY <1>3, <2>2, <2>3, <2>4 DEF FilesAccounted, OwnFiles
<1> QED BY <1>3, <1>4, <1>5

\* The temporary files on disk are exactly those of the parts that were
\* reported and of the one being written, each of one part; none is left
\* behind by a part that is given up, and a failed upload leaves none
\* (MultipartStreamParser::discard_current_part, close_current_part, fail,
\* receive_multipart).
THEOREM UploadsKeepFiles == MpSpec => [](MpTypeOK /\ FilesAccounted)
<1>1. MpInit => MpInv BY MpStarts
<1>2. MpInv /\ [MpNext]_mpVars => MpInv' BY MpSteps
<1>3. MpInv => MpTypeOK /\ FilesAccounted BY MpHolds
<1> QED BY <1>1, <1>2, <1>3, PTL DEF MpSpec

----
\* Requests: the symbols of a stream.

Kinds == Refused \cup {"line", "field", "end", "body", "last"}
HpSymbols == [of : Nat, is : Kinds, at : Nat]

\* The symbols before the body, and all.
HeadOf(r) == r.line + r.fields + 1
CountOf(r) == IF r.kind \in Refused THEN 1 ELSE HeadOf(r) + r.body + (IF r.kind = "chunked" THEN 1 ELSE 0)

\* What the k-th symbol of the i-th request is.
SymbolAt(r, i, k) ==
  IF r.kind \in Refused THEN [of |-> i, is |-> r.kind, at |-> k]
  ELSE IF k <= r.line THEN [of |-> i, is |-> "line", at |-> k]
  ELSE IF k <= r.line + r.fields THEN [of |-> i, is |-> "field", at |-> k - r.line]
  ELSE IF k = HeadOf(r) THEN [of |-> i, is |-> "end", at |-> 1]
  ELSE IF k <= HeadOf(r) + r.body THEN [of |-> i, is |-> "body", at |-> k - HeadOf(r)]
  ELSE [of |-> i, is |-> "last", at |-> 1]

LEMMA JoinIs ==
  ASSUME NEW S, NEW s \in Seq(S), NEW t \in Seq(S)
  PROVE  /\ s \o t \in Seq(S) /\ Len(s \o t) = Len(s) + Len(t)
         /\ \A j \in 1 .. Len(s) : (s \o t)[j] = s[j]
         /\ \A j \in 1 .. Len(t) : (s \o t)[Len(s) + j] = t[j]
<1>1. s \o t \in Seq(S) /\ Len(s \o t) = Len(s) + Len(t) BY ConcatProperties
<1>2. \A j \in 1 .. Len(s) + Len(t) : (s \o t)[j] = IF j <= Len(s) THEN s[j] ELSE t[j - Len(s)] BY ConcatProperties
<1>3. Len(s) \in Nat /\ Len(t) \in Nat OBVIOUS
<1> QED BY <1>1, <1>2, <1>3

LEMMA SymbolsOfAre ==
  ASSUME NEW r \in HpRequests, NEW i \in Nat
  PROVE  /\ CountOf(r) \in Nat \ {0} /\ SymbolsOf(r, i) \in Seq(HpSymbols) /\ Len(SymbolsOf(r, i)) = CountOf(r)
         /\ \A k \in 1 .. CountOf(r) : SymbolsOf(r, i)[k] = SymbolAt(r, i, k)
<1> DEFINE sym(what, n) == [k \in 1 .. n |-> [of |-> i, is |-> what, at |-> k]]
           l == sym("line", r.line)
           f == sym("field", r.fields)
           e == sym("end", 1)
           b == sym("body", r.body)
           z == IF r.kind = "chunked" THEN 1 ELSE 0
           w == sym("last", z)
<1>1. r.line \in Nat /\ r.fields \in Nat /\ r.body \in Nat BY DEF HpRequests
<1>2. \A what \in Kinds : \A n \in Nat :
        /\ sym(what, n) \in Seq(HpSymbols) /\ Len(sym(what, n)) = n
        /\ \A k \in 1 .. n : sym(what, n)[k] = [of |-> i, is |-> what, at |-> k]
  <2> SUFFICES ASSUME NEW what \in Kinds, NEW n \in Nat
               PROVE  /\ sym(what, n) \in Seq(HpSymbols) /\ Len(sym(what, n)) = n
                      /\ \A k \in 1 .. n : sym(what, n)[k] = [of |-> i, is |-> what, at |-> k] BY Zenon
  <2>1. \A k \in 1 .. n : [of |-> i, is |-> what, at |-> k] \in HpSymbols BY DEF HpSymbols
  <2> QED BY <2>1
<1>3. CASE r.kind \in Refused
  <2>1. SymbolsOf(r, i) = sym(r.kind, 1) /\ CountOf(r) = 1 BY <1>3 DEF SymbolsOf, CountOf
  <2>2. r.kind \in Kinds /\ 1 \in Nat BY <1>3 DEF Kinds
  <2> HIDE DEF sym
  <2>3. /\ sym(r.kind, 1) \in Seq(HpSymbols) /\ Len(sym(r.kind, 1)) = 1
        /\ \A k \in 1 .. 1 : sym(r.kind, 1)[k] = [of |-> i, is |-> r.kind, at |-> k] BY <1>2, <2>2, Zenon
  <2> QED BY <1>3, <2>1, <2>3 DEF SymbolAt
<1>4. CASE r.kind \notin Refused
  <2>1. SymbolsOf(r, i) = l \o f \o e \o b \o w BY <1>4 DEF SymbolsOf
  <2>2. z \in {0, 1} OBVIOUS
  <2> DEFINE a2 == l \o f
             a3 == a2 \o e
             a4 == a3 \o b
             a5 == a4 \o w
  <2>3. /\ l \in Seq(HpSymbols) /\ Len(l) = r.line /\ f \in Seq(HpSymbols) /\ Len(f) = r.fields
        /\ e \in Seq(HpSymbols) /\ Len(e) = 1 /\ b \in Seq(HpSymbols) /\ Len(b) = r.body
        /\ w \in Seq(HpSymbols) /\ Len(w) = z
    <3> HIDE DEF sym, z
    <3>1. "line" \in Kinds /\ "field" \in Kinds /\ "end" \in Kinds /\ "body" \in Kinds /\ "last" \in Kinds /\ 1 \in Nat /\ z \in Nat
      BY <2>2 DEF Kinds
    <3> QED BY <1>1, <1>2, <3>1, Zenon DEF Kinds
  <2>4. /\ \A k \in 1 .. r.line : l[k] = [of |-> i, is |-> "line", at |-> k]
        /\ \A k \in 1 .. r.fields : f[k] = [of |-> i, is |-> "field", at |-> k]
        /\ e[1] = [of |-> i, is |-> "end", at |-> 1]
        /\ \A k \in 1 .. r.body : b[k] = [of |-> i, is |-> "body", at |-> k]
        /\ \A k \in 1 .. z : w[k] = [of |-> i, is |-> "last", at |-> k]
    <3> HIDE DEF sym, z
    <3>1. "line" \in Kinds /\ "field" \in Kinds /\ "end" \in Kinds /\ "body" \in Kinds /\ "last" \in Kinds /\ 1 \in Nat /\ z \in Nat
      BY <2>2 DEF Kinds
    <3>2. 1 \in 1 .. 1 OBVIOUS
    <3> QED BY <1>1, <1>2, <3>1, <3>2, Zenon DEF Kinds
  <2> HIDE DEF l, f, e, b, w, sym, z
  <2>5. /\ a2 \in Seq(HpSymbols) /\ Len(a2) = r.line + r.fields
        /\ \A j \in 1 .. r.line : a2[j] = l[j]
        /\ \A j \in 1 .. r.fields : a2[r.line + j] = f[j]
    <3>0. l \in Seq(HpSymbols) /\ f \in Seq(HpSymbols) BY <2>3, Zenon
    <3>1. /\ l \o f \in Seq(HpSymbols) /\ Len(l \o f) = Len(l) + Len(f)
          /\ \A j \in 1 .. Len(l) : (l \o f)[j] = l[j]
          /\ \A j \in 1 .. Len(f) : (l \o f)[Len(l) + j] = f[j] BY <3>0, JoinIs
    <3>2. /\ a2 \in Seq(HpSymbols) /\ Len(a2) = Len(l) + Len(f)
          /\ \A j \in 1 .. Len(l) : a2[j] = l[j]
          /\ \A j \in 1 .. Len(f) : a2[Len(l) + j] = f[j] BY <3>1, Zenon DEF a2
    <3> HIDE DEF a2
    <3> QED BY <1>1, <2>3, <3>2
  <2> HIDE DEF a2
  <2>6. /\ a3 \in Seq(HpSymbols) /\ Len(a3) = HeadOf(r)
        /\ \A j \in 1 .. r.line + r.fields : a3[j] = a2[j]
        /\ \A j \in 1 .. 1 : a3[r.line + r.fields + j] = e[j]
    <3>0. a2 \in Seq(HpSymbols) /\ e \in Seq(HpSymbols) BY <2>3, <2>5, Zenon
    <3>1. /\ a2 \o e \in Seq(HpSymbols) /\ Len(a2 \o e) = Len(a2) + Len(e)
          /\ \A j \in 1 .. Len(a2) : (a2 \o e)[j] = a2[j]
          /\ \A j \in 1 .. Len(e) : (a2 \o e)[Len(a2) + j] = e[j] BY <3>0, JoinIs
    <3>2. /\ a3 \in Seq(HpSymbols) /\ Len(a3) = Len(a2) + Len(e)
          /\ \A j \in 1 .. Len(a2) : a3[j] = a2[j]
          /\ \A j \in 1 .. Len(e) : a3[Len(a2) + j] = e[j] BY <3>1, Zenon DEF a3
    <3> HIDE DEF a3
    <3> QED BY <1>1, <2>3, <2>5, <3>2 DEF HeadOf
  <2> HIDE DEF a3
  <2>7. /\ a4 \in Seq(HpSymbols) /\ Len(a4) = HeadOf(r) + r.body
        /\ \A j \in 1 .. HeadOf(r) : a4[j] = a3[j]
        /\ \A j \in 1 .. r.body : a4[HeadOf(r) + j] = b[j]
    <3>0. a3 \in Seq(HpSymbols) /\ b \in Seq(HpSymbols) BY <2>3, <2>6, Zenon
    <3>1. /\ a3 \o b \in Seq(HpSymbols) /\ Len(a3 \o b) = Len(a3) + Len(b)
          /\ \A j \in 1 .. Len(a3) : (a3 \o b)[j] = a3[j]
          /\ \A j \in 1 .. Len(b) : (a3 \o b)[Len(a3) + j] = b[j] BY <3>0, JoinIs
    <3>2. /\ a4 \in Seq(HpSymbols) /\ Len(a4) = Len(a3) + Len(b)
          /\ \A j \in 1 .. Len(a3) : a4[j] = a3[j]
          /\ \A j \in 1 .. Len(b) : a4[Len(a3) + j] = b[j] BY <3>1, Zenon DEF a4
    <3> HIDE DEF a4
    <3> QED BY <1>1, <2>3, <2>6, <3>2 DEF HeadOf
  <2> HIDE DEF a4
  <2>8. /\ a5 \in Seq(HpSymbols) /\ Len(a5) = HeadOf(r) + r.body + z
        /\ \A j \in 1 .. HeadOf(r) + r.body : a5[j] = a4[j]
        /\ \A j \in 1 .. z : a5[HeadOf(r) + r.body + j] = w[j]
    <3>0. a4 \in Seq(HpSymbols) /\ w \in Seq(HpSymbols) BY <2>3, <2>7, Zenon
    <3>1. /\ a4 \o w \in Seq(HpSymbols) /\ Len(a4 \o w) = Len(a4) + Len(w)
          /\ \A j \in 1 .. Len(a4) : (a4 \o w)[j] = a4[j]
          /\ \A j \in 1 .. Len(w) : (a4 \o w)[Len(a4) + j] = w[j] BY <3>0, JoinIs
    <3>2. /\ a5 \in Seq(HpSymbols) /\ Len(a5) = Len(a4) + Len(w)
          /\ \A j \in 1 .. Len(a4) : a5[j] = a4[j]
          /\ \A j \in 1 .. Len(w) : a5[Len(a4) + j] = w[j] BY <3>1, Zenon DEF a5
    <3> HIDE DEF a5
    <3> QED BY <1>1, <2>3, <2>7, <3>2 DEF HeadOf
  <2> HIDE DEF a5
  <2>9. SymbolsOf(r, i) = a5 /\ CountOf(r) = HeadOf(r) + r.body + z /\ HeadOf(r) = r.line + r.fields + 1
    BY <2>1, <1>4 DEF a2, a3, a4, a5, CountOf, z, HeadOf
  <2>10. HeadOf(r) \in Nat /\ CountOf(r) \in Nat \ {0} BY <1>1, <2>2, <2>9
  <2>11. ASSUME NEW k \in 1 .. CountOf(r) PROVE a5[k] = SymbolAt(r, i, k)
    <3>1. CASE k <= r.line
      <4>1. k \in 1 .. r.line /\ k \in 1 .. r.line + r.fields /\ k \in 1 .. HeadOf(r) /\ k \in 1 .. HeadOf(r) + r.body
        BY <1>1, <2>9, <3>1
      <4>2. a5[k] = l[k] BY <2>5, <2>6, <2>7, <2>8, <4>1
      <4> QED BY <1>4, <2>4, <3>1, <4>1, <4>2 DEF SymbolAt
    <3>2. CASE k > r.line /\ k <= r.line + r.fields
      <4>1. k - r.line \in 1 .. r.fields /\ k \in 1 .. r.line + r.fields /\ k \in 1 .. HeadOf(r) /\ k \in 1 .. HeadOf(r) + r.body
            /\ k = r.line + (k - r.line) /\ ~(k <= r.line) BY <1>1, <2>9, <3>2
      <4>2. a5[k] = a2[k] /\ a2[k] = f[k - r.line] BY <2>5, <2>6, <2>7, <2>8, <4>1
      <4> QED BY <1>4, <2>4, <3>2, <4>1, <4>2 DEF SymbolAt
    <3>3. CASE k = HeadOf(r)
      <4>1. k \in 1 .. HeadOf(r) /\ k \in 1 .. HeadOf(r) + r.body /\ k = r.line + r.fields + 1 /\ 1 \in 1 .. 1
            /\ ~(k <= r.line) /\ ~(k <= r.line + r.fields) BY <1>1, <2>9, <2>10, <3>3
      <4>2. a5[k] = e[1] BY <2>6, <2>7, <2>8, <4>1
      <4> QED BY <1>4, <2>4, <3>3, <4>1, <4>2 DEF SymbolAt
    <3>4. CASE k > HeadOf(r) /\ k <= HeadOf(r) + r.body
      <4>1. k - HeadOf(r) \in 1 .. r.body /\ k \in 1 .. HeadOf(r) + r.body /\ k = HeadOf(r) + (k - HeadOf(r))
            /\ ~(k <= r.line) /\ ~(k <= r.line + r.fields) /\ k # HeadOf(r) BY <1>1, <2>9, <2>10, <3>4
      <4>2. a5[k] = b[k - HeadOf(r)] BY <2>7, <2>8, <4>1
      <4> QED BY <1>4, <2>4, <3>4, <4>1, <4>2 DEF SymbolAt
    <3>5. CASE k > HeadOf(r) + r.body
      <4>1. z = 1 /\ 1 \in 1 .. z /\ k = HeadOf(r) + r.body + 1
            /\ ~(k <= r.line) /\ ~(k <= r.line + r.fields) /\ k # HeadOf(r) /\ ~(k <= HeadOf(r) + r.body)
        BY <1>1, <2>2, <2>9, <2>10, <3>5
      <4>2. a5[k] = w[1] BY <2>8, <4>1
      <4> QED BY <1>4, <2>4, <4>1, <4>2 DEF SymbolAt
    <3> QED BY <1>1, <2>9, <2>10, <3>1, <3>2, <3>3, <3>4, <3>5
  <2> QED BY <2>8, <2>9, <2>10, <2>11
<1> QED BY <1>3, <1>4

----
\* Requests: where the symbols of each are in the stream.

\* What two steps of an equation for a function give (proved from StepByStep).
LEMMA SymbolsJoin ==
  ASSUME NEW sent \in Seq(HpRequests)
  PROVE  \E j : /\ j \in [0 .. Len(sent) -> Seq(HpSymbols)] /\ j[0] = << >>
                /\ \A i \in 1 .. Len(sent) : j[i] = j[i - 1] \o SymbolsOf(sent[i], i)
                /\ Symbols(sent) = j[Len(sent)]
<1> DEFINE n == Len(sent)
           step == [i \in 1 .. n |-> [p \in Seq(HpSymbols) |-> p \o SymbolsOf(sent[i], i)]]
           Body(f) == [i \in 0 .. n |-> IF i = 0 THEN << >> ELSE f[i - 1] \o SymbolsOf(sent[i], i)]
           j == CHOOSE f : f = Body(f)
<1>1. Symbols(sent) = j[n] BY DEF Symbols
<1>2. n \in Nat /\ << >> \in Seq(HpSymbols) OBVIOUS
<1>3. ASSUME NEW i \in 1 .. n, NEW p \in Seq(HpSymbols) PROVE p \o SymbolsOf(sent[i], i) \in Seq(HpSymbols)
  <2>1. sent[i] \in HpRequests /\ i \in Nat OBVIOUS
  <2>2. SymbolsOf(sent[i], i) \in Seq(HpSymbols) BY <2>1, SymbolsOfAre, Zenon
  <2> QED BY <2>2, JoinIs, Zenon
<1>4. \A i \in 1 .. n : \A p \in Seq(HpSymbols) : step[i][p] = p \o SymbolsOf(sent[i], i) OBVIOUS
<1>5. PICK f : Course(n, Seq(HpSymbols), << >>, step, f)
  <2>1. \A i \in 1 .. n : \A p \in Seq(HpSymbols) : step[i][p] \in Seq(HpSymbols)
    <3> HIDE DEF step
    <3> QED BY <1>3, <1>4
  <2> HIDE DEF step, n
  <2> QED BY <1>2, <2>1, StepByStep
<1>6. f \in [0 .. n -> Seq(HpSymbols)] /\ f[0] = << >> BY <1>5 DEF Course
<1>7. ASSUME NEW i \in 1 .. n PROVE f[i] = f[i - 1] \o SymbolsOf(sent[i], i)
  <2> HIDE DEF step
  <2>1. f[i - 1] \in Seq(HpSymbols) BY <1>6
  <2> QED BY <1>5, <1>4, <2>1 DEF Course
<1>8. f = Body(f) BY <1>6, <1>7
<1>9. j = Body(j)
  <2> HIDE DEF Body
  <2> QED BY <1>8
<1> HIDE DEF j
<1>10. j[0] = << >> /\ \A i \in 1 .. n : j[i] = j[i - 1] \o SymbolsOf(sent[i], i) BY <1>9, <1>2
<1>11. \A i \in 0 .. n : j[i] \in Seq(HpSymbols)
  <2> DEFINE Good == {i \in 0 .. n : j[i] \in Seq(HpSymbols)}
  <2> HIDE DEF n
  <2>4. j[0] \in Seq(HpSymbols) BY <1>10, <1>2, Zenon
  <2>1. 0 \in Good BY <1>2, <2>4
  <2>2. \A i \in 1 .. n : i - 1 \in Good => i \in Good
    <3> SUFFICES ASSUME NEW i \in 1 .. n, i - 1 \in Good PROVE i \in Good OBVIOUS
    <3>1. j[i - 1] \in Seq(HpSymbols) /\ i \in 0 .. n BY <1>2
    <3> HIDE DEF Good
    <3>2. j[i] \in Seq(HpSymbols) BY <1>10, <1>3, <3>1
    <3> QED BY <3>1, <3>2 DEF Good
  <2> HIDE DEF Good
  <2>3. \A i \in 0 .. n : i \in Good BY <2>1, <2>2, <1>2, UpFromZero
  <2> QED BY <2>3 DEF Good
<1>12. j \in [0 .. n -> Seq(HpSymbols)] BY <1>9, <1>11
<1> QED BY <1>1, <1>10, <1>12

\* The stream, and after how many of its symbols each request begins.
Laid(sent, all, off) ==
  /\ sent \in Seq(HpRequests) /\ all \in Seq(HpSymbols)
  /\ off \in [0 .. Len(sent) -> Nat] /\ off[0] = 0 /\ off[Len(sent)] = Len(all)
  /\ \A i \in 1 .. Len(sent) : off[i] = off[i - 1] + CountOf(sent[i])
  /\ \A i \in 1 .. Len(sent) : \A k \in 1 .. CountOf(sent[i]) : all[off[i - 1] + k] = SymbolAt(sent[i], i, k)

LEMMA StreamIsLaid ==
  ASSUME NEW sent \in Seq(HpRequests)
  PROVE  \E off : Laid(sent, Symbols(sent), off)
<1> DEFINE n == Len(sent)
<1>1. PICK j : /\ j \in [0 .. n -> Seq(HpSymbols)] /\ j[0] = << >>
               /\ \A i \in 1 .. n : j[i] = j[i - 1] \o SymbolsOf(sent[i], i)
               /\ Symbols(sent) = j[n] BY SymbolsJoin, Zenon
<1> DEFINE off == [i \in 0 .. n |-> Len(j[i])]
<1>2. n \in Nat OBVIOUS
<1>3. off \in [0 .. n -> Nat] /\ off[0] = 0 /\ off[n] = Len(Symbols(sent)) /\ Symbols(sent) \in Seq(HpSymbols)
  <2> HIDE DEF n
  <2>1. \A i \in 0 .. n : Len(j[i]) \in Nat /\ off[i] = Len(j[i]) BY <1>1
  <2>2. n \in 0 .. n /\ 0 \in 0 .. n BY <1>2
  <2> QED BY <1>1, <2>1, <2>2
<1>4. ASSUME NEW i \in 1 .. n
      PROVE  /\ CountOf(sent[i]) \in Nat /\ off[i] = off[i - 1] + CountOf(sent[i])
             /\ \A k \in 1 .. off[i - 1] : j[i][k] = j[i - 1][k]
             /\ \A k \in 1 .. CountOf(sent[i]) : j[i][off[i - 1] + k] = SymbolAt(sent[i], i, k)
  <2>1. sent[i] \in HpRequests /\ i \in Nat /\ i - 1 \in 0 .. n /\ i \in 0 .. n OBVIOUS
  <2> DEFINE t == SymbolsOf(sent[i], i)
             p == j[i - 1]
  <2>2. /\ CountOf(sent[i]) \in Nat /\ t \in Seq(HpSymbols) /\ Len(t) = CountOf(sent[i])
        /\ \A k \in 1 .. CountOf(sent[i]) : t[k] = SymbolAt(sent[i], i, k) BY <2>1, SymbolsOfAre
  <2>3. p \in Seq(HpSymbols)
    <3> HIDE DEF n
    <3> QED BY <1>1, <2>1
  <2>4. j[i] = p \o t BY <1>1
  <2>5. off[i] = Len(j[i]) /\ off[i - 1] = Len(p) BY <2>1
  <2> HIDE DEF t, p, off, n
  <2>6. /\ Len(p \o t) = Len(p) + Len(t)
        /\ \A k \in 1 .. Len(p) : (p \o t)[k] = p[k]
        /\ \A k \in 1 .. Len(t) : (p \o t)[Len(p) + k] = t[k]
    <3>1. t \in Seq(HpSymbols) BY <2>2
    <3> QED BY <2>3, <3>1, JoinIs
  <2>7. p = j[i - 1] BY DEF p
  <2> QED BY <2>2, <2>4, <2>5, <2>6, <2>7
<1> HIDE DEF off, n
<1> DEFINE Good == {m \in 0 .. n : \A i \in 1 .. m : \A k \in 1 .. CountOf(sent[i]) :
                                     off[i - 1] + k \in 1 .. off[m] /\ j[m][off[i - 1] + k] = SymbolAt(sent[i], i, k)}
<1>5. 0 \in Good BY <1>2
<1>6. ASSUME NEW m \in 1 .. n, m - 1 \in Good PROVE m \in Good
  <2>1. ASSUME NEW i \in 1 .. m, NEW k \in 1 .. CountOf(sent[i])
        PROVE  off[i - 1] + k \in 1 .. off[m] /\ j[m][off[i - 1] + k] = SymbolAt(sent[i], i, k)
    <3>0. i \in 1 .. n /\ m - 1 \in 0 .. n /\ i - 1 \in 0 .. n BY <1>2
    <3>1. off[m] = off[m - 1] + CountOf(sent[m]) /\ CountOf(sent[m]) \in Nat /\ off[m - 1] \in Nat /\ off[i - 1] \in Nat
          /\ CountOf(sent[i]) \in Nat
      <4> HIDE DEF Good
      <4> QED BY <1>3, <1>4, <3>0
    <3>2. CASE i = m
      <4>1. j[m][off[m - 1] + k] = SymbolAt(sent[m], m, k) BY <1>4, <3>2
      <4> QED BY <3>1, <3>2, <4>1
    <3>3. CASE i # m
      <4>1. i \in 1 .. m - 1 BY <1>2, <3>3
      <4>2. off[i - 1] + k \in 1 .. off[m - 1] /\ j[m - 1][off[i - 1] + k] = SymbolAt(sent[i], i, k) BY <1>6, <4>1
      <4>3. j[m][off[i - 1] + k] = j[m - 1][off[i - 1] + k] BY <1>4, <4>2
      <4> QED BY <3>1, <4>2, <4>3
    <3> QED BY <3>2, <3>3
  <2>2. m \in 0 .. n BY <1>2
  <2> QED BY <2>1, <2>2
<1>7. n \in Good
  <2> HIDE DEF Good
  <2>1. \A m \in 1 .. n : m - 1 \in Good => m \in Good BY <1>6
  <2>2. \A m \in 0 .. n : m \in Good BY <1>2, <1>5, <2>1, UpFromZero
  <2>3. n \in 0 .. n BY <1>2
  <2> QED BY <2>2, <2>3
<1>8. Laid(sent, Symbols(sent), off)
  <2>1. \A i \in 1 .. n : \A k \in 1 .. CountOf(sent[i]) : Symbols(sent)[off[i - 1] + k] = SymbolAt(sent[i], i, k)
    BY <1>1, <1>7
  <2> HIDE DEF Good
  <2> QED BY <1>3, <1>4, <2>1 DEF Laid, n
<1> QED BY <1>8

LEMMA LaidInOrder ==
  ASSUME NEW sent, NEW all, NEW off, Laid(sent, all, off)
  PROVE  \A i, m \in 0 .. Len(sent) : i <= m => off[i] <= off[m] /\ (i < m => off[i] < off[m])
<1> DEFINE n == Len(sent)
           Good == {m \in 0 .. n : \A i \in 0 .. m : off[i] <= off[m] /\ (i < m => off[i] < off[m])}
<1>1. n \in Nat /\ off \in [0 .. n -> Nat] BY DEF Laid
<1>2. \A m \in 1 .. n : off[m - 1] < off[m]
  <2> TAKE m \in 1 .. n
  <2>1. sent[m] \in HpRequests BY DEF Laid
  <2>2. CountOf(sent[m]) \in Nat \ {0} BY <2>1, <1>1, SymbolsOfAre, 0 \in Nat, Zenon
  <2> QED BY <1>1, <2>2 DEF Laid
<1> HIDE DEF n
<1>3. 0 \in Good BY <1>1
<1>4. \A m \in 1 .. n : m - 1 \in Good => m \in Good BY <1>1, <1>2
<1>5. \A m \in 0 .. n : m \in Good
  <2> HIDE DEF Good
  <2> QED BY <1>1, <1>3, <1>4, UpFromZero
<1> QED BY <1>1, <1>5 DEF n

----
\* Requests: one symbol.

HpBodies == Seq(Nat \X Nat)
HpMessage == [line : Nat, headers : Nat, header_bytes : Nat, body_bytes : Nat, headers_done : BOOLEAN, message_done : BOOLEAN,
              has_body : BOOLEAN, upgrade : BOOLEAN, handler : Nat, body : HpBodies]
HpEvents == {"NeedMore", "HeadersComplete", "MessageComplete", "Error"}
HpParsers == [m : HpMessage, failed : BOOLEAN, error_status : Nat, owes_upgrade : BOOLEAN, message : Nat, event : HpEvents, used : Nat]

\* How much of a stretch of n symbols behind the first b the first k contain.
Within(k, b, n) == IF k <= b THEN 0 ELSE IF k <= b + n THEN k - b ELSE n

BodyUpTo(i, n) == [q \in 1 .. n |-> <<i, q>>]

\* What a Message holds after the first k symbols of request i, which is r.
Has(m, r, i, k) ==
  /\ k > 0 => r.kind \notin Refused
  /\ m.line = Within(k, 0, r.line) /\ m.line <= HpMaxLine
  /\ m.headers = Within(k, r.line, r.fields) /\ m.headers <= HpMaxHeaders
  /\ m.body_bytes = Within(k, HeadOf(r), r.body) /\ m.body_bytes <= HpMaxBody
  /\ m.body = BodyUpTo(i, m.body_bytes)
  /\ m.headers_done = (k >= HeadOf(r))
  /\ k >= HeadOf(r) => r.kind # "badEscape" /\ (r.kind = "plain" => r.body <= HpMaxBody)
                       /\ m.has_body = (r.body > 0 \/ r.kind = "chunked")

At(m, r, i, k) == Has(m, r, i, k) /\ m.message_done = (k = CountOf(r))

\* y is x after one more symbol, the k-th of request i.
Onward(x, y) ==
  /\ y \in HpParsers /\ y.used = x.used + 1 /\ y.message = x.message
  /\ y.m.handler = x.m.handler /\ y.m.header_bytes = x.m.header_bytes
OneMore(x, y, r, i, k) ==
  /\ Onward(x, y)
  /\ \/ y.event = "NeedMore" /\ ~y.failed /\ At(y.m, r, i, k) /\ k < CountOf(r) /\ k # HeadOf(r)
     \/ y.event = "HeadersComplete" /\ ~y.failed /\ At(y.m, r, i, k) /\ k < CountOf(r) /\ k = HeadOf(r)
     \/ y.event = "MessageComplete" /\ ~y.failed /\ At(y.m, r, i, k) /\ k = CountOf(r)
     \/ y.event = "Error" /\ y.failed /\ ~Fits(r) /\ y.error_status \in Causes(r)

LEMMA CountsAre ==
  ASSUME NEW r \in HpRequests
  PROVE  /\ r.line \in Nat /\ r.fields \in Nat /\ r.body \in Nat /\ HeadOf(r) \in Nat /\ CountOf(r) \in Nat \ {0}
         /\ HeadOf(r) = r.line + r.fields + 1
         /\ r.kind \in Refused => CountOf(r) = 1
         /\ r.kind = "chunked" => CountOf(r) = HeadOf(r) + r.body + 1
         /\ r.kind \notin Refused /\ r.kind # "chunked" => CountOf(r) = HeadOf(r) + r.body
         /\ r.kind = "upgrade" => r.body = 0
         /\ (r.kind \in {"plain", "chunked", "upgrade", "badEscape"}) = (r.kind \notin Refused)
BY DEF HpRequests, HeadOf, CountOf, Refused

LEMMA CausesAre ==
  ASSUME NEW r \in HpRequests
  PROVE  /\ Causes(r) \subseteq Nat
         /\ r.kind \in Refused => (IF r.kind = "noMethod" THEN 501 ELSE 400) \in Causes(r) /\ ~Fits(r)
         /\ r.kind = "badEscape" => 400 \in Causes(r) /\ ~Fits(r)
         /\ r.kind \notin Refused /\ r.body > HpMaxBody => 413 \in Causes(r) /\ ~Fits(r)
         /\ r.kind \notin Refused /\ (r.line > HpMaxLine \/ r.fields > HpMaxHeaders \/ HeadOf(r) > HpMaxHeaderBytes)
              => 431 \in Causes(r) /\ ~Fits(r) BY CountsAre, HpAssumption DEF Causes, Refused, HeadOf, Fits

LEMMA FailsWith ==
  ASSUME NEW x \in HpParsers, ~x.failed, NEW status \in Nat
  PROVE  /\ fail_with(x, status) \in HpParsers
         /\ fail_with(x, status).used = x.used /\ fail_with(x, status).message = x.message /\ fail_with(x, status).m = x.m
         /\ fail_with(x, status).event = "Error" /\ fail_with(x, status).failed /\ fail_with(x, status).error_status = status
<1> DEFINE y == [x EXCEPT !.failed = TRUE, !.error_status = status, !.event = "Error"]
<1>1. fail_with(x, status) = y
  <2>1. fail_with(x, status) = [x EXCEPT !.failed = TRUE, !.error_status = IF x.failed THEN @ ELSE status, !.event = "Error"]
    BY Zenon DEF fail_with
  <2> QED BY <2>1, Zenon
<1>2. y \in HpParsers
  <2>1. status \in Nat /\ "Error" \in HpEvents BY DEF HpEvents
  <2> HIDE DEF y
  <2> QED BY <2>1 DEF HpParsers, y
<1>3. y.used = x.used /\ y.message = x.message /\ y.m = x.m /\ y.event = "Error" /\ y.error_status = status
  BY DEF HpParsers
<1>4. y.failed BY DEF HpParsers
<1> HIDE DEF y
<1> QED BY <1>1, <1>2, <1>3, <1>4, Zenon

\* A parser that fails in the middle of a request.
LEMMA FailsHere ==
  ASSUME NEW x, NEW g, Onward(x, g), ~g.failed, NEW r \in HpRequests, NEW status \in Causes(r), ~Fits(r), NEW i, NEW k
  PROVE  OneMore(x, fail_with(g, status), r, i, k)
<1> DEFINE y == fail_with(g, status)
<1>1. g \in HpParsers /\ status \in Nat BY CausesAre DEF Onward
<1>2. /\ y \in HpParsers /\ y.used = g.used /\ y.message = g.message /\ y.m = g.m /\ y.event = "Error" /\ y.failed
      /\ y.error_status = status BY <1>1, FailsWith
<1> HIDE DEF y
<1>3. OneMore(x, y, r, i, k) BY <1>2 DEF OneMore, Onward
<1> QED BY <1>3 DEF y

LEMMA UsesOne ==
  ASSUME NEW x \in HpParsers
  PROVE  /\ x.m \in HpMessage /\ x.used \in Nat
         /\ [x EXCEPT !.used = @ + 1] \in HpParsers
         /\ [x EXCEPT !.used = @ + 1].used = x.used + 1
         /\ [x EXCEPT !.used = @ + 1].m = x.m /\ [x EXCEPT !.used = @ + 1].message = x.message
         /\ [x EXCEPT !.used = @ + 1].event = x.event /\ [x EXCEPT !.used = @ + 1].failed = x.failed BY DEF HpParsers

LEMMA PutsMessage ==
  ASSUME NEW g \in HpParsers, NEW n \in HpMessage
  PROVE  /\ [g EXCEPT !.m = n] \in HpParsers
         /\ [g EXCEPT !.m = n].used = g.used /\ [g EXCEPT !.m = n].m = n /\ [g EXCEPT !.m = n].message = g.message
         /\ [g EXCEPT !.m = n].event = g.event /\ [g EXCEPT !.m = n].failed = g.failed BY DEF HpParsers

LEMMA ReadsLine ==
  ASSUME NEW r \in HpRequests, NEW i \in Nat, hpSent[i] = r, NEW k \in Nat, k < r.line, r.kind \notin Refused,
         NEW x \in HpParsers, x.event = "NeedMore", ~x.failed, At(x.m, r, i, k)
  PROVE  OneMore(x, Step(x, SymbolAt(r, i, k + 1)), r, i, k + 1)
<1> DEFINE c == SymbolAt(r, i, k + 1)
           g == [x EXCEPT !.used = @ + 1]
           m == x.m
           n == [m EXCEPT !.line = @ + 1]
           y == [g EXCEPT !.m = n]
<1>1. c = [of |-> i, is |-> "line", at |-> k + 1] BY CountsAre DEF SymbolAt
<1>2. Step(x, c) = on_url(g) BY <1>1 DEF Step
<1>3. /\ g \in HpParsers /\ g.used = x.used + 1 /\ g.m = m /\ g.message = x.message /\ g.event = "NeedMore" /\ ~g.failed
      /\ m \in HpMessage BY UsesOne
<1> HIDE DEF g, m
<1>4. /\ n \in HpMessage /\ m.line \in Nat /\ n.line = m.line + 1 /\ n.headers = m.headers /\ n.body_bytes = m.body_bytes
      /\ n.body = m.body /\ n.headers_done = m.headers_done /\ n.message_done = m.message_done
      /\ n.handler = m.handler /\ n.header_bytes = m.header_bytes BY <1>3 DEF HpMessage
<1>5. [g EXCEPT !.m.line = @ + 1] = y BY <1>3, Zenon
<1> HIDE DEF n
<1>6. y \in HpParsers /\ y.used = x.used + 1 /\ y.message = x.message /\ y.event = "NeedMore" /\ ~y.failed /\ y.m = n
  BY <1>3, <1>4, PutsMessage
<1> HIDE DEF y
<1>7. on_url(g) = IF y.m.line > HpMaxLine THEN fail_with(y, 431) ELSE y BY <1>5, Zenon DEF on_url
<1>8. m.line = k /\ HpMaxLine \in Nat BY CountsAre, HpAssumption DEF At, Has, Within, m
<1>9. CASE k + 1 > HpMaxLine
  <2>1. 431 \in Causes(r) /\ ~Fits(r) BY <1>8, <1>9, CountsAre, CausesAre
  <2>2. Step(x, c) = fail_with(y, 431) BY <1>2, <1>4, <1>6, <1>7, <1>8, <1>9
  <2>3. Onward(x, y) BY <1>4, <1>6 DEF m, Onward
  <2>4. \A status \in Causes(r) : OneMore(x, fail_with(y, status), r, i, k + 1) BY <1>6, <2>1, <2>3, FailsHere
  <2> QED BY <2>1, <2>2, <2>4 DEF c
<1>10. CASE ~(k + 1 > HpMaxLine)
  <2>1. Step(x, c) = y BY <1>2, <1>4, <1>6, <1>7, <1>8, <1>10
  <2>2. At(n, r, i, k + 1) BY <1>4, <1>8, <1>10, CountsAre DEF At, Has, Within, m
  <2>3. k + 1 < CountOf(r) /\ k + 1 # HeadOf(r) BY CountsAre
  <2>4. OneMore(x, y, r, i, k + 1) BY <1>4, <1>6, <2>2, <2>3 DEF OneMore, Onward, m
  <2> QED BY <2>1, <2>4 DEF c
<1> QED BY <1>9, <1>10

LEMMA ReadsField ==
  ASSUME NEW r \in HpRequests, NEW i \in Nat, hpSent[i] = r, NEW k \in Nat, r.line <= k, k < r.line + r.fields, r.kind \notin Refused,
         NEW x \in HpParsers, x.event = "NeedMore", ~x.failed, At(x.m, r, i, k)
  PROVE  OneMore(x, Step(x, SymbolAt(r, i, k + 1)), r, i, k + 1)
<1> DEFINE c == SymbolAt(r, i, k + 1)
           g == [x EXCEPT !.used = @ + 1]
           m == x.m
           n == [m EXCEPT !.headers = @ + 1]
           y == [g EXCEPT !.m = n]
<1>1. c = [of |-> i, is |-> "field", at |-> k + 1 - r.line] BY CountsAre DEF SymbolAt
<1>2. Step(x, c) = on_header_field_complete(g) BY <1>1 DEF Step
<1>3. /\ g \in HpParsers /\ g.used = x.used + 1 /\ g.m = m /\ g.message = x.message /\ g.event = "NeedMore" /\ ~g.failed
      /\ m \in HpMessage BY UsesOne
<1> HIDE DEF g, m
<1>4. /\ n \in HpMessage /\ m.headers \in Nat /\ n.headers = m.headers + 1 /\ n.line = m.line /\ n.body_bytes = m.body_bytes
      /\ n.body = m.body /\ n.headers_done = m.headers_done /\ n.message_done = m.message_done
      /\ n.handler = m.handler /\ n.header_bytes = m.header_bytes BY <1>3 DEF HpMessage
<1>5. [g EXCEPT !.m.headers = @ + 1] = y BY <1>3, Zenon
<1> HIDE DEF n
<1>6. y \in HpParsers /\ y.used = x.used + 1 /\ y.message = x.message /\ y.event = "NeedMore" /\ ~y.failed /\ y.m = n
  BY <1>3, <1>4, PutsMessage
<1> HIDE DEF y
<1>7. on_header_field_complete(g) = IF m.headers + 1 > HpMaxHeaders THEN fail_with(g, 431) ELSE y
  BY <1>3, <1>5, Zenon DEF on_header_field_complete
<1>8. m.headers = k - r.line /\ HpMaxHeaders \in Nat BY CountsAre, HpAssumption DEF At, Has, Within, m
<1>9. CASE k - r.line + 1 > HpMaxHeaders
  <2>1. 431 \in Causes(r) /\ ~Fits(r) BY <1>8, <1>9, CountsAre, CausesAre
  <2>2. Step(x, c) = fail_with(g, 431) BY <1>2, <1>7, <1>8, <1>9
  <2>3. Onward(x, g) BY <1>3 DEF m, Onward
  <2>4. \A status \in Causes(r) : OneMore(x, fail_with(g, status), r, i, k + 1) BY <1>3, <2>1, <2>3, FailsHere
  <2> QED BY <2>1, <2>2, <2>4 DEF c
<1>10. CASE ~(k - r.line + 1 > HpMaxHeaders)
  <2>1. Step(x, c) = y BY <1>2, <1>7, <1>8, <1>10
  <2>2. At(n, r, i, k + 1) BY <1>4, <1>8, <1>10, CountsAre DEF At, Has, Within, m
  <2>3. k + 1 < CountOf(r) /\ k + 1 # HeadOf(r) BY CountsAre
  <2>4. OneMore(x, y, r, i, k + 1) BY <1>4, <1>6, <2>2, <2>3 DEF OneMore, Onward, m
  <2> QED BY <2>1, <2>4 DEF c
<1> QED BY <1>9, <1>10

LEMMA PutsEvent ==
  ASSUME NEW g \in HpParsers, NEW e \in HpEvents
  PROVE  /\ [g EXCEPT !.event = e] \in HpParsers
         /\ [g EXCEPT !.event = e].used = g.used /\ [g EXCEPT !.event = e].m = g.m
         /\ [g EXCEPT !.event = e].message = g.message /\ [g EXCEPT !.event = e].failed = g.failed
         /\ [g EXCEPT !.event = e].event = e BY DEF HpParsers

\* A parser that has read the whole request.
LEMMA Completes ==
  ASSUME NEW x, NEW g, Onward(x, g), ~g.failed, NEW r, NEW i, NEW k, Has(g.m, r, i, k), k = CountOf(r)
  PROVE  OneMore(x, on_message_complete(g), r, i, k)
<1> DEFINE m == g.m
           n == [m EXCEPT !.message_done = TRUE]
           h == [g EXCEPT !.m = n]
           y == [h EXCEPT !.event = "MessageComplete"]
<1>1. g \in HpParsers /\ m \in HpMessage BY UsesOne DEF Onward
<1>2. on_message_complete(g) = y BY Zenon DEF on_message_complete
<1> HIDE DEF m
<1>3. /\ n \in HpMessage /\ n.message_done /\ n.headers = m.headers /\ n.line = m.line /\ n.body_bytes = m.body_bytes
      /\ n.body = m.body /\ n.headers_done = m.headers_done /\ n.has_body = m.has_body
      /\ n.handler = m.handler /\ n.header_bytes = m.header_bytes BY <1>1 DEF HpMessage
<1> HIDE DEF n
<1>4. h \in HpParsers /\ h.used = g.used /\ h.m = n /\ h.message = g.message /\ ~h.failed BY <1>1, <1>3, PutsMessage
<1> HIDE DEF h
<1>5. "MessageComplete" \in HpEvents BY DEF HpEvents
<1>6. y \in HpParsers /\ y.used = h.used /\ y.m = h.m /\ y.message = h.message /\ ~y.failed /\ y.event = "MessageComplete"
  BY <1>4, <1>5, PutsEvent
<1> HIDE DEF y
<1>7. Onward(x, y) BY <1>3, <1>4, <1>6 DEF Onward, m
<1>8. Has(n, r, i, k) BY <1>3 DEF Has, m
<1>9. At(y.m, r, i, k) BY <1>3, <1>4, <1>6, <1>8 DEF At
<1> QED BY <1>2, <1>6, <1>7, <1>9, Zenon DEF OneMore

LEMMA ReadsEnd ==
  ASSUME NEW r \in HpRequests, NEW i \in Nat, hpSent[i] = r, NEW k \in Nat, k + 1 = HeadOf(r), r.kind \notin Refused,
         NEW x \in HpParsers, x.event = "NeedMore", ~x.failed, At(x.m, r, i, k)
  PROVE  OneMore(x, Step(x, SymbolAt(r, i, k + 1)), r, i, k + 1)
<1> DEFINE c == SymbolAt(r, i, k + 1)
           g == [x EXCEPT !.used = @ + 1]
           m == x.m
           has == r.body > 0 \/ r.kind = "chunked"
           rising == r.kind = "upgrade"
           n1 == [m EXCEPT !.headers_done = TRUE]
           n2 == [n1 EXCEPT !.has_body = has]
           n == [n2 EXCEPT !.upgrade = rising]
           h == [g EXCEPT !.m = n]
           z == [h EXCEPT !.owes_upgrade = rising]
           y == [g EXCEPT !.m.headers_done = TRUE, !.m.has_body = has, !.m.upgrade = rising, !.owes_upgrade = rising]
<1>1. c = [of |-> i, is |-> "end", at |-> 1] BY CountsAre DEF SymbolAt
<1>2. Step(x, c) = on_headers_complete(g, r) BY <1>1 DEF Step
<1>3. /\ g \in HpParsers /\ g.used = x.used + 1 /\ g.m = m /\ g.message = x.message /\ g.event = "NeedMore" /\ ~g.failed
      /\ m \in HpMessage BY UsesOne
<1>4. has \in BOOLEAN /\ rising \in BOOLEAN OBVIOUS
<1> HIDE DEF g, m, has, rising
<1>5. n1 \in HpMessage /\ n1.headers_done = TRUE /\ n1.line = m.line /\ n1.headers = m.headers /\ n1.body_bytes = m.body_bytes
      /\ n1.body = m.body /\ n1.message_done = m.message_done /\ n1.handler = m.handler /\ n1.header_bytes = m.header_bytes
  BY <1>3 DEF HpMessage
<1>6. [g EXCEPT !.m.headers_done = TRUE] = [g EXCEPT !.m = n1] BY <1>3, Zenon
<1> HIDE DEF n1
<1>7. n2 \in HpMessage /\ n2.headers_done = n1.headers_done /\ n2.has_body = has /\ n2.line = n1.line /\ n2.headers = n1.headers
      /\ n2.body_bytes = n1.body_bytes /\ n2.body = n1.body /\ n2.message_done = n1.message_done /\ n2.handler = n1.handler
      /\ n2.header_bytes = n1.header_bytes BY <1>4, <1>5 DEF HpMessage
<1> HIDE DEF n2
<1>8. n \in HpMessage /\ n.headers_done = n2.headers_done /\ n.has_body = n2.has_body /\ n.line = n2.line /\ n.headers = n2.headers
      /\ n.body_bytes = n2.body_bytes /\ n.body = n2.body /\ n.message_done = n2.message_done /\ n.handler = n2.handler
      /\ n.header_bytes = n2.header_bytes BY <1>4, <1>7 DEF HpMessage
<1> HIDE DEF n
<1>9. h \in HpParsers /\ h.used = g.used /\ h.m = n /\ h.message = g.message /\ h.event = g.event /\ h.failed = g.failed
  BY <1>3, <1>8, PutsMessage
<1> HIDE DEF h
<1>11. y = z
  <2>1. g \in HpParsers BY <1>3
  <2>2. [[g EXCEPT !.m = n1] EXCEPT !.m.has_body = has] = [g EXCEPT !.m = n2] BY <1>3, <1>5 DEF HpParsers, n2
  <2>3. [[g EXCEPT !.m = n2] EXCEPT !.m.upgrade = rising] = h BY <1>3, <1>5 DEF HpParsers, n, h
  <2> QED BY <1>6, <2>2, <2>3, Zenon
<1>10. y \in HpParsers /\ y.used = h.used /\ y.m = h.m /\ y.message = h.message /\ y.event = h.event /\ y.failed = h.failed
  <2>1. z \in HpParsers /\ z.used = h.used /\ z.m = h.m /\ z.message = h.message /\ z.event = h.event /\ z.failed = h.failed
    BY <1>4, <1>9 DEF HpParsers
  <2> QED BY <1>11, <2>1, Zenon
<1>12. on_headers_complete(g, r) =
         CASE r.kind = "badEscape" -> fail_with(y, 400)
           [] r.kind = "plain" /\ r.body > HpMaxBody -> fail_with(y, 413)
           [] r.kind \notin {"badEscape"} /\ ~(r.kind = "plain" /\ r.body > HpMaxBody) ->
                IF y.m.has_body THEN [y EXCEPT !.event = "HeadersComplete"] ELSE on_message_complete(y)
  BY Zenon DEF on_headers_complete, has, rising
<1> HIDE DEF y
<1>13. Onward(x, y) /\ ~y.failed BY <1>3, <1>5, <1>7, <1>8, <1>9, <1>10 DEF Onward, m
<1>14. \A status \in Causes(r) : ~Fits(r) => OneMore(x, fail_with(y, status), r, i, k + 1) BY <1>13, FailsHere
<1>15. CASE r.kind = "badEscape"
  <2>1. on_headers_complete(g, r) = fail_with(y, 400) BY <1>12, <1>15
  <2>2. 400 \in Causes(r) /\ ~Fits(r) BY <1>15, CausesAre
  <2> QED BY <1>2, <1>14, <2>1, <2>2 DEF c
<1>16. CASE r.kind = "plain" /\ r.body > HpMaxBody
  <2>1. on_headers_complete(g, r) = fail_with(y, 413) BY <1>12, <1>16
  <2>2. 413 \in Causes(r) /\ ~Fits(r) BY <1>16, CountsAre, CausesAre
  <2> QED BY <1>2, <1>14, <2>1, <2>2 DEF c
<1>17. CASE r.kind # "badEscape" /\ ~(r.kind = "plain" /\ r.body > HpMaxBody)
  <2>1. on_headers_complete(g, r) = IF has THEN [y EXCEPT !.event = "HeadersComplete"] ELSE on_message_complete(y)
    BY <1>7, <1>8, <1>9, <1>10, <1>12, <1>17
  <2>2. Has(n, r, i, k + 1)
    <3>1. Has(m, r, i, k) BY DEF At, m
    <3>2. r.kind = "plain" => r.body <= HpMaxBody BY <1>17, CountsAre, HpAssumption
    <3>3. /\ n.line = Within(k + 1, 0, r.line) /\ n.line <= HpMaxLine
          /\ n.headers = Within(k + 1, r.line, r.fields) /\ n.headers <= HpMaxHeaders
          /\ n.body_bytes = Within(k + 1, HeadOf(r), r.body) /\ n.body_bytes <= HpMaxBody
          /\ n.body = BodyUpTo(i, n.body_bytes) BY <1>5, <1>7, <1>8, <3>1, CountsAre DEF Has, Within
    <3>4. n.headers_done = (k + 1 >= HeadOf(r))
      <4>1. k + 1 >= HeadOf(r) BY CountsAre
      <4> QED BY <1>5, <1>7, <1>8, <4>1
    <3>5. n.has_body = (r.body > 0 \/ r.kind = "chunked") BY <1>7, <1>8, Zenon DEF has
    <3> QED BY <1>17, <3>2, <3>3, <3>4, <3>5, Zenon DEF Has
  <2>3. CASE has
    <3> DEFINE e == [y EXCEPT !.event = "HeadersComplete"]
    <3>1. "HeadersComplete" \in HpEvents /\ y \in HpParsers BY <1>10 DEF HpEvents
    <3>2. e \in HpParsers /\ e.used = y.used /\ e.m = y.m /\ e.message = y.message /\ e.failed = y.failed /\ e.event = "HeadersComplete"
      BY <3>1, PutsEvent
    <3> HIDE DEF e
    <3>3. Onward(x, e) BY <1>13, <3>2 DEF Onward
    <3>4. k + 1 < CountOf(r) BY <2>3, CountsAre DEF has
    <3>5. k < CountOf(r) /\ k # CountOf(r) /\ k + 1 # CountOf(r) BY <3>4, CountsAre
    <3>6. n.message_done = FALSE BY <1>3, <1>5, <1>7, <1>8, <3>5 DEF At, m, HpMessage
    <3>7. At(n, r, i, k + 1) BY <2>2, <3>5, <3>6 DEF At
    <3>8. OneMore(x, e, r, i, k + 1) BY <1>9, <1>10, <1>13, <3>2, <3>3, <3>4, <3>7 DEF OneMore
    <3> QED BY <1>2, <2>1, <2>3, <3>8 DEF c, e
  <2>4. CASE ~has
    <3>1. k + 1 = CountOf(r) BY <1>17, <2>4, CountsAre DEF has
    <3>2. y.m = n BY <1>9, <1>10
    <3>3. OneMore(x, on_message_complete(y), r, i, k + 1) BY <1>13, <2>2, <3>1, <3>2, Completes
    <3> QED BY <1>2, <2>1, <2>4, <3>3 DEF c
  <2> QED BY <2>3, <2>4
<1> QED BY <1>15, <1>16, <1>17

LEMMA BodyGrows ==
  ASSUME NEW i \in Nat, NEW n \in Nat
  PROVE  BodyUpTo(i, n) \in HpBodies /\ Append(BodyUpTo(i, n), <<i, n + 1>>) = BodyUpTo(i, n + 1)
<1>1. \A q \in 1 .. n : <<i, q>> \in Nat \X Nat OBVIOUS
<1>2. BodyUpTo(i, n) \in HpBodies /\ Len(BodyUpTo(i, n)) = n BY <1>1 DEF BodyUpTo, HpBodies
<1>3. Append(BodyUpTo(i, n), <<i, n + 1>>) = [q \in 1 .. n + 1 |-> IF q <= n THEN BodyUpTo(i, n)[q] ELSE <<i, n + 1>>]
  BY <1>2 DEF HpBodies
<1>4. ASSUME NEW q \in 1 .. n + 1
      PROVE (IF q <= n THEN BodyUpTo(i, n)[q] ELSE <<i, n + 1>>) = <<i, q>> BY DEF BodyUpTo
<1>5. Append(BodyUpTo(i, n), <<i, n + 1>>) = [q \in 1 .. n + 1 |-> <<i, q>>] BY <1>3, <1>4
<1> QED BY <1>2, <1>5 DEF BodyUpTo

LEMMA ReadsBody ==
  ASSUME NEW r \in HpRequests, NEW i \in Nat, hpSent[i] = r, NEW k \in Nat, HeadOf(r) <= k, k < HeadOf(r) + r.body,
         r.kind \notin Refused, NEW x \in HpParsers, x.event = "NeedMore", ~x.failed, At(x.m, r, i, k)
  PROVE  OneMore(x, Step(x, SymbolAt(r, i, k + 1)), r, i, k + 1)
<1> DEFINE c == SymbolAt(r, i, k + 1)
           at == k + 1 - HeadOf(r)
           g == [x EXCEPT !.used = @ + 1]
           m == x.m
           n1 == [m EXCEPT !.body_bytes = @ + 1]
           n == [n1 EXCEPT !.body = Append(g.m.body, <<c.of, c.at>>)]
           h == [g EXCEPT !.m = n]
           y == [g EXCEPT !.m.body_bytes = @ + 1, !.m.body = Append(@, <<c.of, c.at>>)]
<1>1. c = [of |-> i, is |-> "body", at |-> at] BY CountsAre DEF SymbolAt
<1>2. Step(x, c) = on_body_bytes(g, c, r) BY <1>1 DEF Step
<1>3. /\ g \in HpParsers /\ g.used = x.used + 1 /\ g.m = m /\ g.message = x.message /\ g.event = "NeedMore" /\ ~g.failed
      /\ m \in HpMessage BY UsesOne
<1>4. c.of = i /\ c.at = at /\ at \in Nat BY <1>1, CountsAre
<1> HIDE DEF g, m, c
<1>5. n1 \in HpMessage /\ m.body_bytes \in Nat /\ n1.body_bytes = m.body_bytes + 1 /\ n1.line = m.line /\ n1.headers = m.headers
      /\ n1.headers_done = m.headers_done /\ n1.has_body = m.has_body
      /\ n1.body = m.body /\ n1.message_done = m.message_done /\ n1.handler = m.handler /\ n1.header_bytes = m.header_bytes
  BY <1>3 DEF HpMessage
<1> HIDE DEF n1
<1>6. m.body_bytes = k - HeadOf(r) /\ at = m.body_bytes + 1 /\ m.body = BodyUpTo(i, m.body_bytes) /\ HpMaxBody \in Nat
  BY CountsAre, HpAssumption DEF At, Has, Within, m
<1>7. Append(g.m.body, <<c.of, c.at>>) = BodyUpTo(i, at) /\ BodyUpTo(i, at) \in HpBodies
  <2> HIDE DEF at
  <2>1. Append(BodyUpTo(i, m.body_bytes), <<i, m.body_bytes + 1>>) = BodyUpTo(i, m.body_bytes + 1) BY <1>5, BodyGrows
  <2>2. BodyUpTo(i, at) \in HpBodies BY <1>4, BodyGrows
  <2>3. g.m.body = BodyUpTo(i, m.body_bytes) /\ c.of = i /\ c.at = m.body_bytes + 1 BY <1>3, <1>4, <1>6
  <2> QED BY <1>6, <2>1, <2>2, <2>3
<1>8. n \in HpMessage /\ n.body_bytes = n1.body_bytes /\ n.line = n1.line /\ n.headers = n1.headers
      /\ n.headers_done = n1.headers_done /\ n.has_body = n1.has_body
      /\ n.body = BodyUpTo(i, at) /\ n.message_done = n1.message_done /\ n.handler = n1.handler /\ n.header_bytes = n1.header_bytes
  <2> HIDE DEF at
  <2> QED BY <1>5, <1>7 DEF HpMessage
<1>9. y = h
  <2>1. [g EXCEPT !.m.body_bytes = @ + 1] = [g EXCEPT !.m = n1] BY <1>3, Zenon DEF n1
  <2>2. [[g EXCEPT !.m = n1] EXCEPT !.m.body = Append(g.m.body, <<c.of, c.at>>)] = h BY <1>3, <1>5 DEF HpParsers
  <2> QED BY <2>1, <2>2, Zenon
<1>10. on_body_bytes(g, c, r) = CASE y.m.body_bytes > HpMaxBody -> fail_with(y, 413)
                                  [] y.m.body_bytes <= HpMaxBody /\ c.at = r.body /\ r.kind = "plain" -> on_message_complete(y)
                                  [] OTHER -> y BY Zenon DEF on_body_bytes
<1> HIDE DEF n
<1>11. y \in HpParsers /\ y.used = g.used /\ y.m = n /\ y.message = g.message /\ y.event = g.event /\ ~y.failed
  <2> HIDE DEF y
  <2> QED BY <1>3, <1>8, <1>9, PutsMessage
<1> HIDE DEF y, at
<1>12. Onward(x, y) BY <1>3, <1>5, <1>8, <1>11 DEF Onward, m
<1>13. CASE at > HpMaxBody
  <2>1. 413 \in Causes(r) /\ ~Fits(r) BY <1>6, <1>13, CountsAre, CausesAre DEF at
  <2>2. Step(x, c) = fail_with(y, 413) BY <1>2, <1>5, <1>6, <1>8, <1>10, <1>11, <1>13
  <2>3. \A status \in Causes(r) : OneMore(x, fail_with(y, status), r, i, k + 1) BY <1>11, <1>12, <2>1, FailsHere
  <2> QED BY <2>1, <2>2, <2>3 DEF c
<1>14. CASE ~(at > HpMaxBody)
  <2>1. Has(n, r, i, k + 1)
    <3>1. Has(m, r, i, k) BY DEF At, m
    <3>2. /\ n.line = Within(k + 1, 0, r.line) /\ n.line <= HpMaxLine
          /\ n.headers = Within(k + 1, r.line, r.fields) /\ n.headers <= HpMaxHeaders
          /\ n.body_bytes = Within(k + 1, HeadOf(r), r.body) /\ n.body_bytes <= HpMaxBody
          /\ n.body = BodyUpTo(i, n.body_bytes) BY <1>4, <1>5, <1>6, <1>8, <1>14, <3>1, CountsAre DEF Has, Within
    <3>3. (k >= HeadOf(r)) = TRUE /\ (k + 1 >= HeadOf(r)) = TRUE BY CountsAre
    <3>4. n.headers_done = (k + 1 >= HeadOf(r)) BY <1>5, <1>8, <3>1, <3>3, Zenon DEF Has
    <3>5. r.kind # "badEscape" /\ (r.kind = "plain" => r.body <= HpMaxBody) /\ n.has_body = (r.body > 0 \/ r.kind = "chunked")
      BY <1>5, <1>8, <3>1, <3>3, Zenon DEF Has
    <3> QED BY <3>2, <3>4, <3>5, Zenon DEF Has
  <2>2. CASE at = r.body /\ r.kind = "plain"
    <3>1. Step(x, c) = on_message_complete(y) BY <1>2, <1>4, <1>5, <1>6, <1>8, <1>10, <1>11, <1>14, <2>2
    <3>2. k + 1 = CountOf(r) BY <2>2, CountsAre DEF at
    <3>3. OneMore(x, on_message_complete(y), r, i, k + 1) BY <1>11, <1>12, <2>1, <3>2, Completes
    <3> QED BY <3>1, <3>3 DEF c
  <2>3. CASE ~(at = r.body /\ r.kind = "plain")
    <3>1. Step(x, c) = y BY <1>2, <1>4, <1>5, <1>6, <1>8, <1>10, <1>11, <1>14, <2>3
    <3>2. r.kind # "badEscape" /\ r.kind # "upgrade" BY CountsAre DEF At, Has
    <3>3. k + 1 < CountOf(r) /\ k # CountOf(r) /\ k + 1 # CountOf(r) /\ k + 1 # HeadOf(r)
      <4>1. k + 1 <= HeadOf(r) + r.body /\ (at # r.body => k + 1 < HeadOf(r) + r.body) /\ k + 1 # HeadOf(r)
        BY CountsAre DEF at
      <4>2. CASE r.kind = "plain" BY <2>3, <4>1, <4>2, CountsAre
      <4>3. CASE r.kind = "chunked" BY <4>1, <4>3, CountsAre
      <4> QED BY <3>2, <4>2, <4>3, CountsAre
    <3>4. n.message_done = FALSE BY <1>3, <1>5, <1>8, <3>3 DEF At, m, HpMessage
    <3>5. At(n, r, i, k + 1) BY <2>1, <3>3, <3>4 DEF At
    <3>6. OneMore(x, y, r, i, k + 1) BY <1>3, <1>11, <1>12, <3>3, <3>5 DEF OneMore
    <3> QED BY <3>1, <3>6 DEF c
  <2> QED BY <2>2, <2>3
<1> QED BY <1>13, <1>14

LEMMA ReadsLast ==
  ASSUME NEW r \in HpRequests, NEW i \in Nat, hpSent[i] = r, NEW k \in Nat, k = HeadOf(r) + r.body, k < CountOf(r),
         r.kind \notin Refused, NEW x \in HpParsers, x.event = "NeedMore", ~x.failed, At(x.m, r, i, k)
  PROVE  OneMore(x, Step(x, SymbolAt(r, i, k + 1)), r, i, k + 1)
<1> DEFINE c == SymbolAt(r, i, k + 1)
           g == [x EXCEPT !.used = @ + 1]
<1>1. c = [of |-> i, is |-> "last", at |-> 1] BY CountsAre DEF SymbolAt
<1>2. Step(x, c) = on_message_complete(g) BY <1>1 DEF Step
<1>3. g \in HpParsers /\ g.used = x.used + 1 /\ g.m = x.m /\ g.message = x.message /\ ~g.failed BY UsesOne
<1> HIDE DEF g
<1>4. Onward(x, g) BY <1>3 DEF Onward
<1>5. k + 1 = CountOf(r) BY CountsAre
<1>6. Has(x.m, r, i, k + 1)
  <2>1. Has(x.m, r, i, k) BY DEF At
  <2>2. (k >= HeadOf(r)) = TRUE /\ (k + 1 >= HeadOf(r)) = TRUE BY CountsAre
  <2>3. Within(k + 1, 0, r.line) = Within(k, 0, r.line) /\ Within(k + 1, r.line, r.fields) = Within(k, r.line, r.fields)
        /\ Within(k + 1, HeadOf(r), r.body) = Within(k, HeadOf(r), r.body) BY CountsAre DEF Within
  <2> QED BY <2>1, <2>2, <2>3, Zenon DEF Has
<1>7. OneMore(x, on_message_complete(g), r, i, k + 1) BY <1>3, <1>4, <1>5, <1>6, Completes
<1> QED BY <1>2, <1>7 DEF c

LEMMA ReadsRefused ==
  ASSUME NEW r \in HpRequests, NEW i \in Nat, hpSent[i] = r, r.kind \in Refused,
         NEW x \in HpParsers, x.event = "NeedMore", ~x.failed, NEW k
  PROVE  OneMore(x, Step(x, SymbolAt(r, i, k + 1)), r, i, k + 1)
<1> DEFINE c == SymbolAt(r, i, k + 1)
           g == [x EXCEPT !.used = @ + 1]
           status == IF r.kind = "noMethod" THEN 501 ELSE 400
<1>1. c = [of |-> i, is |-> r.kind, at |-> k + 1] BY DEF SymbolAt
<1>2. Step(x, c) = fail_with(g, status) BY <1>1 DEF Step, fail_from_llhttp, Refused
<1>3. g \in HpParsers /\ g.used = x.used + 1 /\ g.m = x.m /\ g.message = x.message /\ ~g.failed BY UsesOne
<1> HIDE DEF g
<1>4. Onward(x, g) /\ ~Fits(r) /\ status \in Causes(r) BY <1>3, CausesAre DEF Onward
<1> HIDE DEF status
<1>5. OneMore(x, fail_with(g, status), r, i, k + 1) BY <1>3, <1>4, FailsHere
<1> QED BY <1>2, <1>5 DEF c

\* One more symbol of the request that is being read.
LEMMA ReadsOne ==
  ASSUME NEW r \in HpRequests, NEW i \in Nat, hpSent[i] = r, NEW k \in Nat, k < CountOf(r),
         NEW x \in HpParsers, x.event = "NeedMore", ~x.failed, At(x.m, r, i, k)
  PROVE  OneMore(x, Step(x, SymbolAt(r, i, k + 1)), r, i, k + 1)
<1>1. CASE r.kind \in Refused BY <1>1, ReadsRefused
<1>2. CASE r.kind \notin Refused
  <2>1. \/ k < r.line
        \/ r.line <= k /\ k < r.line + r.fields
        \/ k + 1 = HeadOf(r)
        \/ HeadOf(r) <= k /\ k < HeadOf(r) + r.body
        \/ k = HeadOf(r) + r.body BY <1>2, CountsAre
  <2> QED BY <1>2, <2>1, ReadsLine, ReadsField, ReadsEnd, ReadsBody, ReadsLast
<1> QED BY <1>1, <1>2

----
\* Requests: a piece of the stream.

\* x is what the parser h, with k symbols of request i read, is after q more
\* symbols of the stream, of which it reads no more than the request has.
Ran(h, x, r, i, k, q) ==
  /\ x \in HpParsers /\ x.message = h.message /\ x.m.handler = h.m.handler /\ x.m.header_bytes = h.m.header_bytes
  /\ x.used \in 0 .. q
  /\ \/ x.event = "NeedMore" /\ ~x.failed /\ x.used = q /\ At(x.m, r, i, k + q) /\ k + q < CountOf(r)
        /\ (k < HeadOf(r) => k + q < HeadOf(r))
     \/ x.event = "HeadersComplete" /\ ~x.failed /\ k < HeadOf(r) /\ k + x.used = HeadOf(r) /\ At(x.m, r, i, HeadOf(r))
        /\ HeadOf(r) < CountOf(r)
     \/ x.event = "MessageComplete" /\ ~x.failed /\ k + x.used = CountOf(r) /\ At(x.m, r, i, CountOf(r))
        /\ (k < HeadOf(r) => CountOf(r) = HeadOf(r))
     \/ x.event = "Error" /\ x.failed /\ ~Fits(r) /\ x.error_status \in Causes(r)

LEMMA RunsOn ==
  ASSUME NEW r \in HpRequests, NEW i \in Nat, hpSent[i] = r, NEW k \in Nat, NEW q \in Nat, NEW h, NEW x, Ran(h, x, r, i, k, q),
         NEW c, k + q < CountOf(r) => c = SymbolAt(r, i, k + q + 1)
  PROVE  Ran(h, Step(x, c), r, i, k, q + 1)
<1>1. CASE x.event # "NeedMore"
  <2>1. Step(x, c) = x BY <1>1 DEF Step
  <2>2. x.used \in 0 .. q + 1 BY DEF Ran
  <2>3. Ran(h, x, r, i, k, q + 1) BY <1>1, <2>2, Zenon DEF Ran
  <2> QED BY <2>1, <2>3
<1>2. CASE x.event = "NeedMore"
  <2> DEFINE j == k + q
             y == Step(x, c)
  <2>1. /\ x \in HpParsers /\ x.message = h.message /\ x.m.handler = h.m.handler /\ x.m.header_bytes = h.m.header_bytes
        /\ ~x.failed /\ x.used = q /\ At(x.m, r, i, j) /\ j < CountOf(r) /\ (k < HeadOf(r) => j < HeadOf(r)) /\ j \in Nat
    BY <1>2 DEF Ran
  <2>2. c = SymbolAt(r, i, j + 1) BY <2>1
  <2> HIDE DEF j
  <2>3. OneMore(x, y, r, i, j + 1) BY <1>2, <2>1, <2>2, ReadsOne
  <2> HIDE DEF y
  <2>4. y \in HpParsers /\ y.message = h.message /\ y.m.handler = h.m.handler /\ y.m.header_bytes = h.m.header_bytes
        /\ y.used = q + 1 /\ y.used \in 0 .. q + 1 BY <2>1, <2>3 DEF OneMore, Onward
  <2>5. j + 1 = k + (q + 1) /\ k + y.used = j + 1 BY <2>4 DEF j
  <2>6. \/ y.event = "NeedMore" /\ ~y.failed /\ At(y.m, r, i, j + 1) /\ j + 1 < CountOf(r) /\ j + 1 # HeadOf(r)
        \/ y.event = "HeadersComplete" /\ ~y.failed /\ At(y.m, r, i, j + 1) /\ j + 1 < CountOf(r) /\ j + 1 = HeadOf(r)
        \/ y.event = "MessageComplete" /\ ~y.failed /\ At(y.m, r, i, j + 1) /\ j + 1 = CountOf(r)
        \/ y.event = "Error" /\ y.failed /\ ~Fits(r) /\ y.error_status \in Causes(r) BY <2>3, Zenon DEF OneMore
  <2>7. CASE y.event = "NeedMore" /\ ~y.failed /\ At(y.m, r, i, j + 1) /\ j + 1 < CountOf(r) /\ j + 1 # HeadOf(r)
    <3>1. k < HeadOf(r) => j + 1 < HeadOf(r) BY <2>1, <2>7, CountsAre
    <3> QED BY <2>4, <2>5, <2>7, <3>1 DEF Ran, y
  <2>8. CASE y.event = "HeadersComplete" /\ ~y.failed /\ At(y.m, r, i, j + 1) /\ j + 1 < CountOf(r) /\ j + 1 = HeadOf(r)
    <3>1. k < HeadOf(r) BY <2>8, CountsAre DEF j
    <3> QED BY <2>4, <2>5, <2>8, <3>1 DEF Ran, y
  <2>9. CASE y.event = "MessageComplete" /\ ~y.failed /\ At(y.m, r, i, j + 1) /\ j + 1 = CountOf(r)
    <3>1. k < HeadOf(r) => CountOf(r) = HeadOf(r)
      <4> SUFFICES ASSUME k < HeadOf(r) PROVE CountOf(r) = HeadOf(r) OBVIOUS
      <4>1. j + 1 <= HeadOf(r) BY <2>1, CountsAre
      <4>2. r.kind \notin Refused BY <2>1, <2>9 DEF At, Has
      <4> QED BY <2>9, <4>1, <4>2, CountsAre
    <3> QED BY <2>4, <2>5, <2>9, <3>1 DEF Ran, y
  <2>10. CASE y.event = "Error" /\ y.failed /\ ~Fits(r) /\ y.error_status \in Causes(r) BY <2>4, <2>10 DEF Ran, y
  <2> QED BY <2>6, <2>7, <2>8, <2>9, <2>10
<1> QED BY <1>1, <1>2

\* What the parser starts a piece with, and what it is after all of it.
Started(h) == [h EXCEPT !.event = "NeedMore", !.used = 0, !.owes_upgrade = FALSE]
RunOver(h, piece) ==
  LET run[q \in 0 .. Len(piece)] == IF q = 0 THEN Started(h) ELSE Step(run[q - 1], piece[q])
  IN run[Len(piece)]

LEMMA RunsOver ==
  ASSUME NEW r \in HpRequests, NEW i \in Nat, hpSent[i] = r, NEW k \in Nat, k < CountOf(r),
         NEW h \in HpParsers, ~h.failed, At(h.m, r, i, k), NEW piece \in Seq(HpSymbols),
         \A q \in 1 .. Len(piece) : k + q <= CountOf(r) => piece[q] = SymbolAt(r, i, k + q)
  PROVE  Ran(h, RunOver(h, piece), r, i, k, Len(piece))
<1> DEFINE n == Len(piece)
           start == Started(h)
           step == [q \in 1 .. n |-> [x \in HpParsers |-> IF Step(x, piece[q]) \in HpParsers THEN Step(x, piece[q]) ELSE x]]
           Body(f) == [q \in 0 .. n |-> IF q = 0 THEN start ELSE Step(f[q - 1], piece[q])]
           j == CHOOSE f : f = Body(f)
<1>1. RunOver(h, piece) = j[n] BY DEF RunOver
<1>2. n \in Nat OBVIOUS
<1>3. Ran(h, start, r, i, k, 0)
  <2>1. start \in HpParsers /\ start.m = h.m /\ start.message = h.message /\ start.event = "NeedMore" /\ start.used = 0 /\ ~start.failed
    BY DEF Started, HpParsers, HpEvents
  <2> HIDE DEF start
  <2>2. k + 0 = k /\ 0 \in 0 .. 0 /\ 0 \in Nat OBVIOUS
  <2> QED BY <2>1, <2>2, Zenon DEF Ran
<1>4. ASSUME NEW q \in 1 .. n, NEW x, Ran(h, x, r, i, k, q - 1) PROVE Ran(h, Step(x, piece[q]), r, i, k, q)
  <2>1. q - 1 \in Nat /\ (q - 1) + 1 = q /\ k + (q - 1) + 1 = k + q OBVIOUS
  <2>2. k + (q - 1) < CountOf(r) => piece[q] = SymbolAt(r, i, k + (q - 1) + 1)
    <3>1. CountOf(r) \in Nat BY CountsAre
    <3> QED BY <2>1, <3>1
  <2>3. Ran(h, Step(x, piece[q]), r, i, k, (q - 1) + 1) BY <1>4, <2>1, <2>2, RunsOn
  <2> QED BY <2>1, <2>3
<1>5. \A q \in 1 .. n : \A x \in HpParsers : step[q][x] = IF Step(x, piece[q]) \in HpParsers THEN Step(x, piece[q]) ELSE x
  OBVIOUS
<1>6. start \in HpParsers BY <1>3 DEF Ran
<1> HIDE DEF start
<1>7. PICK f : Course(n, HpParsers, start, step, f)
  <2>1. \A q \in 1 .. n : \A x \in HpParsers : step[q][x] \in HpParsers
    <3> HIDE DEF step
    <3> QED BY <1>5
  <2> HIDE DEF step, n
  <2> QED BY <1>2, <1>6, <2>1, StepByStep
<1>8. f \in [0 .. n -> HpParsers] /\ f[0] = start /\ \A q \in 1 .. n : f[q] = step[q][f[q - 1]] BY <1>7 DEF Course
<1>9. ASSUME NEW q \in 1 .. n, Ran(h, f[q - 1], r, i, k, q - 1) PROVE f[q] = Step(f[q - 1], piece[q])
  <2> HIDE DEF step
  <2>1. f[q - 1] \in HpParsers BY <1>9 DEF Ran
  <2>2. Step(f[q - 1], piece[q]) \in HpParsers BY <1>4, <1>9 DEF Ran
  <2> QED BY <1>5, <1>8, <2>1, <2>2
<1>10. \A q \in 0 .. n : Ran(h, f[q], r, i, k, q)
  <2> DEFINE Good == {q \in 0 .. n : Ran(h, f[q], r, i, k, q)}
  <2> HIDE DEF n, step
  <2>1. 0 \in Good BY <1>2, <1>3, <1>8
  <2>2. \A q \in 1 .. n : q - 1 \in Good => q \in Good
    <3> SUFFICES ASSUME NEW q \in 1 .. n, q - 1 \in Good PROVE q \in Good OBVIOUS
    <3>1. Ran(h, f[q - 1], r, i, k, q - 1) /\ q \in 0 .. n BY <1>2
    <3> HIDE DEF Good
    <3>2. Ran(h, f[q], r, i, k, q) BY <1>4, <1>9, <3>1
    <3> QED BY <3>1, <3>2 DEF Good
  <2> HIDE DEF Good
  <2>3. \A q \in 0 .. n : q \in Good BY <2>1, <2>2, <1>2, UpFromZero
  <2> QED BY <2>3 DEF Good
<1>11. f = Body(f)
  <2>1. \A q \in 1 .. n : q - 1 \in 0 .. n BY <1>2
  <2>2. \A q \in 1 .. n : f[q] = Step(f[q - 1], piece[q]) BY <1>9, <1>10, <2>1
  <2> HIDE DEF step
  <2> QED BY <1>8, <2>2
<1>12. j = Body(j)
  <2> HIDE DEF Body
  <2> QED BY <1>11
<1> HIDE DEF j
<1>13. j[0] = start /\ \A q \in 1 .. n : j[q] = Step(j[q - 1], piece[q]) BY <1>12, <1>2
<1>14. \A q \in 0 .. n : Ran(h, j[q], r, i, k, q)
  <2> DEFINE Good == {q \in 0 .. n : Ran(h, j[q], r, i, k, q)}
  <2> HIDE DEF n
  <2>1. 0 \in Good BY <1>2, <1>3, <1>13
  <2>2. \A q \in 1 .. n : q - 1 \in Good => q \in Good
    <3> SUFFICES ASSUME NEW q \in 1 .. n, q - 1 \in Good PROVE q \in Good OBVIOUS
    <3>1. Ran(h, j[q - 1], r, i, k, q - 1) /\ q \in 0 .. n BY <1>2
    <3> HIDE DEF Good
    <3>2. Ran(h, j[q], r, i, k, q) BY <1>4, <1>13, <3>1
    <3> QED BY <3>1, <3>2 DEF Good
  <2> HIDE DEF Good
  <2>3. \A q \in 0 .. n : q \in Good BY <2>1, <2>2, <1>2, UpFromZero
  <2> QED BY <2>3 DEF Good
<1> QED BY <1>1, <1>2, <1>14

Counted(m, r, k) == m.header_bytes = (IF k < HeadOf(r) THEN k ELSE HeadOf(r)) /\ m.header_bytes <= HpMaxHeaderBytes

\* g is what feed() makes of the parser h, with k symbols of request i read, and
\* q more symbols of the stream.
Fed(h, g, r, i, k, q) ==
  /\ g \in HpParsers /\ g.message = h.message /\ g.m.handler = h.m.handler /\ g.used \in 0 .. q
  /\ \/ g.event = "NeedMore" /\ ~g.failed /\ g.used = q /\ At(g.m, r, i, k + q) /\ Counted(g.m, r, k + q) /\ k + q < CountOf(r)
     \/ g.event = "HeadersComplete" /\ ~g.failed /\ k < HeadOf(r) /\ k + g.used = HeadOf(r) /\ At(g.m, r, i, HeadOf(r))
        /\ Counted(g.m, r, HeadOf(r)) /\ HeadOf(r) < CountOf(r)
     \/ g.event = "MessageComplete" /\ ~g.failed /\ k + g.used = CountOf(r) /\ At(g.m, r, i, CountOf(r)) /\ Fits(r)
     \/ g.event = "Error" /\ g.failed /\ ~Fits(r) /\ g.error_status \in Causes(r)

LEMMA WholeFits ==
  ASSUME NEW r \in HpRequests, NEW i, NEW m, At(m, r, i, CountOf(r)), HeadOf(r) <= HpMaxHeaderBytes
  PROVE  Fits(r)
<1>1. r.kind \notin Refused /\ r.kind # "badEscape" /\ CountOf(r) >= HeadOf(r) + r.body BY CountsAre DEF At, Has
<1>2. m.line = r.line /\ m.headers = r.fields /\ m.body_bytes = r.body BY <1>1, CountsAre DEF At, Has, Within
<1> QED BY <1>1, <1>2, CountsAre DEF At, Has, Fits

LEMMA FeedsPiece ==
  ASSUME NEW r \in HpRequests, NEW i \in Nat, hpSent[i] = r, NEW k \in Nat, k < CountOf(r),
         NEW h \in HpParsers, ~h.failed, At(h.m, r, i, k), Counted(h.m, r, k), NEW piece \in Seq(HpSymbols),
         \A q \in 1 .. Len(piece) : k + q <= CountOf(r) => piece[q] = SymbolAt(r, i, k + q)
  PROVE  Fed(h, HpFeed(h, piece), r, i, k, Len(piece))
<1> DEFINE n == Len(piece)
           x == RunOver(h, piece)
           total == x.m.header_bytes + x.used
           y == [x EXCEPT !.m.header_bytes = total]
           g == HpFeed(h, piece)
<1>1. g = CASE h.failed -> [h EXCEPT !.event = "Error", !.used = 0]
            [] ~h.failed /\ h.m.message_done -> [h EXCEPT !.event = "MessageComplete", !.used = 0]
            [] ~h.failed /\ ~h.m.message_done /\ ~h.m.headers_done /\ ~x.failed ->
                 IF total > HpMaxHeaderBytes THEN fail_with(y, 431) ELSE y
            [] OTHER -> x BY Zenon DEF HpFeed, RunOver, Started
<1>2. n \in Nat OBVIOUS
<1>3. Ran(h, x, r, i, k, n) BY RunsOver, Zenon
<1> HIDE DEF x, g, n
<1>4. x \in HpParsers /\ x.message = h.message /\ x.m.handler = h.m.handler /\ x.m.header_bytes = h.m.header_bytes /\ x.used \in 0 .. n
  BY <1>3 DEF Ran
<1>5. h.m.message_done = FALSE /\ h.m.headers_done = (k >= HeadOf(r)) /\ h.m \in HpMessage
  <2>1. (k = CountOf(r)) = FALSE BY CountsAre
  <2>2. h.m \in HpMessage BY DEF HpParsers
  <2> QED BY <2>1, <2>2, Zenon DEF At, Has
<1>6. h.m.header_bytes \in Nat /\ HpMaxHeaderBytes \in Nat BY <1>5, HpAssumption DEF HpMessage
<1>7. CASE x.failed
  <2>1. g = x BY <1>1, <1>5, <1>7
  <2>2. x.event = "Error" /\ ~Fits(r) /\ x.error_status \in Causes(r) BY <1>3, <1>7, Zenon DEF Ran
  <2>3. Fed(h, x, r, i, k, n) BY <1>4, <1>7, <2>2, Zenon DEF Fed
  <2> QED BY <2>1, <2>3 DEF g, n
<1>8. CASE ~x.failed /\ k >= HeadOf(r)
  <2>1. g = x BY <1>1, <1>5, <1>8
  <2>2. ~(k < HeadOf(r)) /\ HeadOf(r) <= HpMaxHeaderBytes /\ x.m.header_bytes = HeadOf(r)
    BY <1>4, <1>8, CountsAre DEF Counted
  <2>3. CASE x.event = "NeedMore" /\ x.used = n /\ At(x.m, r, i, k + n) /\ k + n < CountOf(r)
    <3>1. Counted(x.m, r, k + n) BY <1>2, <2>2, CountsAre DEF Counted
    <3>2. Fed(h, x, r, i, k, n) BY <1>4, <1>8, <2>3, <3>1, Zenon DEF Fed
    <3> QED BY <2>1, <3>2 DEF g, n
  <2>4. CASE x.event = "MessageComplete" /\ k + x.used = CountOf(r) /\ At(x.m, r, i, CountOf(r))
    <3>1. Fits(r) BY <2>2, <2>4, WholeFits
    <3>2. Fed(h, x, r, i, k, n) BY <1>4, <1>8, <2>4, <3>1, Zenon DEF Fed
    <3> QED BY <2>1, <3>2 DEF g, n
  <2> QED BY <1>3, <1>8, <2>2, <2>3, <2>4, Zenon DEF Ran
<1>9. CASE ~x.failed /\ ~(k >= HeadOf(r))
  <2>1. g = IF total > HpMaxHeaderBytes THEN fail_with(y, 431) ELSE y BY <1>1, <1>5, <1>9
  <2>2. k < HeadOf(r) /\ total = k + x.used /\ x.m.header_bytes = k /\ x.used \in Nat /\ x.m.header_bytes \in Nat
    BY <1>2, <1>4, <1>9, CountsAre DEF Counted
  <2>3. \/ x.event = "NeedMore" /\ x.used = n /\ At(x.m, r, i, k + n) /\ k + n < CountOf(r) /\ k + n < HeadOf(r)
        \/ x.event = "HeadersComplete" /\ k + x.used = HeadOf(r) /\ At(x.m, r, i, HeadOf(r)) /\ HeadOf(r) < CountOf(r)
        \/ x.event = "MessageComplete" /\ k + x.used = CountOf(r) /\ At(x.m, r, i, CountOf(r)) /\ CountOf(r) = HeadOf(r)
    BY <1>3, <1>9, <2>2, Zenon DEF Ran
  <2>4. total <= HeadOf(r) /\ total \in Nat BY <1>2, <2>2, <2>3, CountsAre
  <2> HIDE DEF total
  <2> DEFINE m == x.m
             mm == [m EXCEPT !.header_bytes = total]
  <2>5. m \in HpMessage BY <1>4 DEF HpParsers
  <2>6. mm \in HpMessage /\ mm.header_bytes = total /\ mm.handler = m.handler /\ mm.line = m.line /\ mm.headers = m.headers
        /\ mm.body_bytes = m.body_bytes /\ mm.body = m.body /\ mm.headers_done = m.headers_done
        /\ mm.message_done = m.message_done /\ mm.has_body = m.has_body
    <3> HIDE DEF m
    <3> QED BY <2>4, <2>5 DEF HpMessage
  <2>7. y = [x EXCEPT !.m = mm] BY Zenon
  <2> HIDE DEF mm, m, y
  <2>8. y \in HpParsers /\ y.used = x.used /\ y.m = mm /\ y.message = x.message /\ y.event = x.event /\ ~y.failed
    BY <1>4, <1>9, <2>6, <2>7, PutsMessage
  <2>9. y.m.handler = h.m.handler /\ \A j : At(x.m, r, i, j) => At(y.m, r, i, j)
    BY <1>4, <2>6, <2>8, Zenon DEF At, Has, m
  <2>10. CASE total > HpMaxHeaderBytes
    <3>6. r.kind \notin Refused
      <4>1. total > 0 BY <1>6, <2>4, <2>10
      <4> QED BY <1>2, <2>2, <2>3, <4>1, CountsAre DEF At, Has
    <3>7. HeadOf(r) > HpMaxHeaderBytes BY <1>6, <2>4, <2>10, CountsAre
    <3>1. 431 \in Causes(r) /\ 431 \in Nat /\ ~Fits(r) BY <3>6, <3>7, CausesAre
    <3> DEFINE z == fail_with(y, 431)
    <3>2. z \in HpParsers /\ z.used = y.used /\ z.message = y.message /\ z.m = y.m /\ z.event = "Error" /\ z.failed
          /\ z.error_status \in Causes(r) BY <2>8, <3>1, FailsWith
    <3>3. g = z BY <2>1, <2>10
    <3> HIDE DEF z
    <3>4. z \in HpParsers /\ z.message = h.message /\ z.m.handler = h.m.handler /\ z.used \in 0 .. n
      BY <1>4, <2>8, <2>9, <3>2
    <3>5. Fed(h, z, r, i, k, n) BY <3>1, <3>2, <3>4, Zenon DEF Fed
    <3> QED BY <3>3, <3>5 DEF g, n
  <2>11. CASE ~(total > HpMaxHeaderBytes)
    <3>1. g = y BY <2>1, <2>11
    <3>6. y \in HpParsers /\ y.message = h.message /\ y.m.handler = h.m.handler /\ y.used \in 0 .. n
      BY <1>4, <2>8, <2>9
    <3>2. total <= HpMaxHeaderBytes BY <1>6, <2>4, <2>11
    <3>3. CASE x.event = "NeedMore" /\ x.used = n /\ At(x.m, r, i, k + n) /\ k + n < CountOf(r) /\ k + n < HeadOf(r)
      <4>1. Counted(y.m, r, k + n) BY <2>2, <2>6, <2>8, <3>2, <3>3 DEF Counted
      <4>2. y.event = "NeedMore" /\ y.used = n /\ At(y.m, r, i, k + n) /\ k + n < CountOf(r) /\ ~y.failed
        BY <2>8, <2>9, <3>3
      <4>3. Fed(h, y, r, i, k, n) BY <3>6, <4>1, <4>2, Zenon DEF Fed
      <4> QED BY <3>1, <4>3 DEF g, n
    <3>4. CASE x.event = "HeadersComplete" /\ k + x.used = HeadOf(r) /\ At(x.m, r, i, HeadOf(r)) /\ HeadOf(r) < CountOf(r)
      <4>1. Counted(y.m, r, HeadOf(r)) BY <2>2, <2>6, <2>8, <3>2, <3>4, CountsAre DEF Counted
      <4>2. /\ y.event = "HeadersComplete" /\ k < HeadOf(r) /\ k + y.used = HeadOf(r) /\ At(y.m, r, i, HeadOf(r))
            /\ HeadOf(r) < CountOf(r) /\ ~y.failed BY <2>2, <2>8, <2>9, <3>4
      <4>3. Fed(h, y, r, i, k, n) BY <3>6, <4>1, <4>2, Zenon DEF Fed
      <4> QED BY <3>1, <4>3 DEF g, n
    <3>5. CASE x.event = "MessageComplete" /\ k + x.used = CountOf(r) /\ At(x.m, r, i, CountOf(r)) /\ CountOf(r) = HeadOf(r)
      <4>1. HeadOf(r) <= HpMaxHeaderBytes BY <2>2, <3>2, <3>5
      <4>2. Fits(r) BY <3>5, <4>1, WholeFits
      <4>3. y.event = "MessageComplete" /\ k + y.used = CountOf(r) /\ At(y.m, r, i, CountOf(r)) /\ ~y.failed
        BY <2>8, <2>9, <3>5
      <4>4. Fed(h, y, r, i, k, n) BY <3>6, <4>2, <4>3, Zenon DEF Fed
      <4> QED BY <3>1, <4>4 DEF g, n
    <3> QED BY <2>3, <3>3, <3>4, <3>5
  <2> QED BY <2>10, <2>11
<1> QED BY <1>7, <1>8, <1>9

----
\* Requests: the parser and its caller.

OffOf(sent) == CHOOSE off : Laid(sent, Symbols(sent), off)

LEMMA OffIs == ASSUME NEW sent \in Seq(HpRequests) PROVE Laid(sent, Symbols(sent), OffOf(sent))
BY StreamIsLaid, Zenon DEF OffOf

LEMMA PieceIs ==
  ASSUME NEW S, NEW s \in Seq(S), NEW a \in Nat, NEW n \in Nat, a + n <= Len(s)
  PROVE  /\ SubSeq(s, a + 1, a + n) \in Seq(S) /\ Len(SubSeq(s, a + 1, a + n)) = n
         /\ \A q \in 1 .. n : SubSeq(s, a + 1, a + n)[q] = s[a + q]
<1>1. a + 1 \in Nat /\ a + n \in Nat /\ Len(s) \in Nat OBVIOUS
<1>2. SubSeq(s, a + 1, a + n) = [q \in 1 .. n |-> s[a + q]]
  <2>1. SubSeq(s, a + 1, a + n) = [q \in 1 .. ((a + n) - (a + 1) + 1) |-> s[q + (a + 1) - 1]] BY <1>1
  <2>2. (a + n) - (a + 1) + 1 = n OBVIOUS
  <2>3. \A q \in 1 .. n : s[q + (a + 1) - 1] = s[a + q] OBVIOUS
  <2>4. [q \in 1 .. n |-> s[q + (a + 1) - 1]] = [q \in 1 .. n |-> s[a + q]] BY <2>3, Zenon
  <2> QED BY <2>1, <2>2, <2>4, Zenon
<1>3. \A q \in 1 .. n : s[a + q] \in S BY <1>1
<1> DEFINE t == [q \in 1 .. n |-> s[a + q]]
<1>4. t \in Seq(S) /\ Len(t) = n /\ \A q \in 1 .. n : t[q] = s[a + q] BY <1>3
<1>5. SubSeq(s, a + 1, a + n) = t BY <1>2, Zenon
<1> HIDE DEF t
<1> QED BY <1>4, <1>5, Zenon

\* The piece that is fed behind the first k symbols of a request.
LEMMA PieceOfRequest ==
  ASSUME NEW sent \in Seq(HpRequests), NEW i \in 1 .. Len(sent), NEW k \in Nat, NEW n \in Nat,
         OffOf(sent)[i - 1] + k + n <= Len(Symbols(sent))
  PROVE  LET piece == SubSeq(Symbols(sent), OffOf(sent)[i - 1] + k + 1, OffOf(sent)[i - 1] + k + n)
         IN /\ piece \in Seq(HpSymbols) /\ Len(piece) = n
            /\ \A q \in 1 .. Len(piece) : k + q <= CountOf(sent[i]) => piece[q] = SymbolAt(sent[i], i, k + q)
<1> DEFINE all == Symbols(sent)
           b == OffOf(sent)[i - 1]
           a == b + k
           piece == SubSeq(all, a + 1, a + n)
<1>1. Laid(sent, all, OffOf(sent)) BY OffIs
<1>2. all \in Seq(HpSymbols) /\ b \in Nat /\ CountOf(sent[i]) \in Nat
      /\ \A m \in 1 .. CountOf(sent[i]) : all[b + m] = SymbolAt(sent[i], i, m)
  <2>1. sent[i] \in HpRequests OBVIOUS
  <2>2. CountOf(sent[i]) \in Nat BY <2>1, CountsAre
  <2> DEFINE off == OffOf(sent)
  <2>3. b = off[i - 1] OBVIOUS
  <2> HIDE DEF all, off, b
  <2>4. i - 1 \in 0 .. Len(sent) OBVIOUS
  <2>5. all \in Seq(HpSymbols) /\ off[i - 1] \in Nat
        /\ \A m \in 1 .. CountOf(sent[i]) : all[off[i - 1] + m] = SymbolAt(sent[i], i, m) BY <1>1, <2>4 DEF Laid, off
  <2> QED BY <2>2, <2>3, <2>5, Zenon
<1>3. a \in Nat /\ a + n <= Len(all) BY <1>2
<1> HIDE DEF all, b
<1>4. piece \in Seq(HpSymbols) /\ Len(piece) = n /\ \A q \in 1 .. n : piece[q] = all[a + q]
  <2> HIDE DEF a
  <2> QED BY <1>2, <1>3, PieceIs
<1> HIDE DEF piece
<1>5. ASSUME NEW q \in 1 .. Len(piece), k + q <= CountOf(sent[i]) PROVE piece[q] = SymbolAt(sent[i], i, k + q)
  <2>1. q \in 1 .. n /\ k + q \in 1 .. CountOf(sent[i]) /\ a + q = b + (k + q) BY <1>2, <1>4, <1>5
  <2> QED BY <1>2, <1>4, <2>1
<1> QED BY <1>4, <1>5 DEF piece, a, all, b

LEMMA StartsAt ==
  ASSUME NEW r \in HpRequests, NEW i \in Nat
  PROVE  NewMessage \in HpMessage /\ At(NewMessage, r, i, 0) /\ Counted(NewMessage, r, 0)
<1>1. << >> \in HpBodies /\ BodyUpTo(i, 0) = << >> BY DEF HpBodies, BodyUpTo
<1>2. NewMessage \in HpMessage BY <1>1 DEF NewMessage, HpMessage
<1>3. Within(0, 0, r.line) = 0 /\ Within(0, r.line, r.fields) = 0 /\ Within(0, HeadOf(r), r.body) = 0
      /\ (0 >= HeadOf(r)) = FALSE /\ (0 = CountOf(r)) = FALSE /\ 0 < HeadOf(r) BY CountsAre DEF Within
<1>4. 0 <= HpMaxLine /\ 0 <= HpMaxHeaders /\ 0 <= HpMaxBody /\ 0 <= HpMaxHeaderBytes BY HpAssumption
<1>5. NewMessage.line = 0 /\ NewMessage.headers = 0 /\ NewMessage.body_bytes = 0 /\ NewMessage.body = << >>
      /\ NewMessage.headers_done = FALSE /\ NewMessage.message_done = FALSE /\ NewMessage.header_bytes = 0
  BY DEF NewMessage
<1>6. Has(NewMessage, r, i, 0)
  <2>1. ~(0 >= HeadOf(r)) /\ ~(0 > 0) BY <1>3
  <2>2. BodyUpTo(i, NewMessage.body_bytes) = << >> BY <1>1, <1>5
  <2> QED BY <2>1, <2>2, <1>3, <1>4, <1>5, Zenon DEF Has
<1>7. At(NewMessage, r, i, 0) BY <1>3, <1>5, <1>6, Zenon DEF At
<1>8. Counted(NewMessage, r, 0) BY <1>3, <1>4, <1>5, Zenon DEF Counted
<1> QED BY <1>2, <1>7, <1>8

LEMMA ParserStarts == Parser \in HpParsers /\ Parser.m = NewMessage /\ ~Parser.failed
<1>1. NewMessage \in HpMessage BY DEF NewMessage, HpMessage, HpBodies
<1>2. "NeedMore" \in HpEvents BY DEF HpEvents
<1> QED BY <1>1, <1>2 DEF Parser, HpParsers

LEMMA BodyWhole ==
  ASSUME NEW i \in Nat, hpSent[i] \in HpRequests, NEW m, At(m, hpSent[i], i, CountOf(hpSent[i]))
  PROVE  m.body = BodyOf(i)
<1> DEFINE r == hpSent[i]
<1>1. r \in HpRequests /\ r.kind \notin Refused BY CountsAre DEF At, Has
<1> HIDE DEF r
<1>2. m.body_bytes = r.body /\ m.body = BodyUpTo(i, m.body_bytes) BY <1>1, CountsAre DEF At, Has, Within, r
<1> QED BY <1>2 DEF BodyUpTo, BodyOf, r

LEMMA ParsesWhole ==
  ASSUME hpSent \in HpStreams
  PROVE  parse_whole = IF Fits(hpSent[1]) THEN BodyOf(1) ELSE <<"nullopt">>
<1> DEFINE all == Symbols(hpSent)
           off == OffOf(hpSent)
           r == hpSent[1]
           n == Len(all)
           one == HpFeed(Parser, all)
           rest == SubSeq(all, one.used + 1, n)
           two == HpFeed(one, rest)
<1>1. hpSent \in Seq(HpRequests) /\ Len(hpSent) \in Nat \ {0}
  <2>1. hpSent \in Seq(HpRequests) /\ hpSent # << >> BY HpAssumption
  <2> QED BY <2>1
<1>2. r \in HpRequests /\ 1 \in 1 .. Len(hpSent) /\ 0 \in 0 .. Len(hpSent) /\ 1 \in 0 .. Len(hpSent) /\ Len(hpSent) \in 0 .. Len(hpSent)
  BY <1>1
<1>3. Laid(hpSent, all, off) BY <1>1, OffIs
<1> HIDE DEF all, off
<1>4. all \in Seq(HpSymbols) /\ n \in Nat /\ off[0] = 0 /\ off[1] = CountOf(r) /\ CountOf(r) \in Nat \ {0} /\ CountOf(r) <= n
      /\ \A q \in 1 .. CountOf(r) : all[q] = SymbolAt(r, 1, q)
  <2>1. all \in Seq(HpSymbols) /\ n \in Nat /\ off[0] = 0 /\ off[Len(hpSent)] = n BY <1>3 DEF Laid
  <2>2. CountOf(r) \in Nat \ {0} BY <1>2, CountsAre
  <2>3. off[1] = off[1 - 1] + CountOf(r) /\ \A q \in 1 .. CountOf(r) : all[off[1 - 1] + q] = SymbolAt(r, 1, q)
    BY <1>2, <1>3 DEF Laid
  <2>4. off[1] <= off[Len(hpSent)] BY <1>1, <1>2, <1>3, LaidInOrder
  <2> HIDE DEF r
  <2> QED BY <2>1, <2>2, <2>3, <2>4
<1>5. parse_whole = CASE one.event = "MessageComplete" -> one.m.body
                      [] one.event = "HeadersComplete" /\ two.event = "MessageComplete" -> two.m.body
                      [] OTHER -> <<"nullopt">> BY Zenon DEF parse_whole, all
<1>6. Fed(Parser, one, r, 1, 0, n)
  <2>1. At(Parser.m, r, 1, 0) /\ Counted(Parser.m, r, 0) BY <1>2, ParserStarts, StartsAt
  <2>2. \A q \in 1 .. Len(all) : 0 + q <= CountOf(r) => all[q] = SymbolAt(r, 1, 0 + q) BY <1>4
  <2>3. 0 < CountOf(r) /\ 0 \in Nat /\ 1 \in Nat BY <1>4
  <2> QED BY <1>2, <1>4, <2>1, <2>2, <2>3, ParserStarts, FeedsPiece
<1> HIDE DEF n, one
<1>7. one \in HpParsers /\ one.used \in 0 .. n /\ one.used \in Nat BY <1>4, <1>6 DEF Fed
<1>8. ~(0 + n < CountOf(r)) /\ HeadOf(r) \in Nat BY <1>2, <1>4, CountsAre
<1>9. \/ one.event = "HeadersComplete" /\ ~one.failed /\ 0 + one.used = HeadOf(r) /\ At(one.m, r, 1, HeadOf(r))
         /\ Counted(one.m, r, HeadOf(r)) /\ HeadOf(r) < CountOf(r)
      \/ one.event = "MessageComplete" /\ At(one.m, r, 1, CountOf(r)) /\ Fits(r)
      \/ one.event = "Error" /\ ~Fits(r) BY <1>6, <1>8, Zenon DEF Fed
<1>10. \A m : At(m, r, 1, CountOf(r)) => m.body = BodyOf(1) BY <1>2, BodyWhole
<1>11. CASE one.event = "MessageComplete" /\ At(one.m, r, 1, CountOf(r)) /\ Fits(r)
  <2>1. parse_whole = one.m.body BY <1>5, <1>11
  <2> QED BY <1>10, <1>11, <2>1, Zenon
<1>12. CASE one.event = "Error" /\ ~Fits(r)
  <2>1. parse_whole = <<"nullopt">> BY <1>5, <1>12
  <2> QED BY <1>12, <2>1, Zenon
<1>13. CASE one.event = "HeadersComplete" /\ ~one.failed /\ 0 + one.used = HeadOf(r) /\ At(one.m, r, 1, HeadOf(r))
            /\ Counted(one.m, r, HeadOf(r)) /\ HeadOf(r) < CountOf(r)
  <2> DEFINE k == HeadOf(r)
             p == n - k
  <2>1. one.used = k /\ k + p = n /\ p \in Nat /\ k < CountOf(r) /\ k \in Nat /\ k + p <= n
    BY <1>2, <1>4, <1>7, <1>8, <1>13
  <2>2. rest = SubSeq(all, k + 1, k + p) BY <2>1
  <2> HIDE DEF k, p
  <2>3. rest \in Seq(HpSymbols) /\ Len(rest) = p /\ \A q \in 1 .. p : rest[q] = all[k + q]
    BY <1>4, <2>1, <2>2, PieceIs DEF n
  <2> HIDE DEF rest
  <2>4. \A q \in 1 .. Len(rest) : k + q <= CountOf(r) => rest[q] = SymbolAt(r, 1, k + q) BY <1>4, <2>1, <2>3
  <2>5. Fed(one, two, r, 1, k, p)
    <3>1. At(one.m, r, 1, k) /\ Counted(one.m, r, k) BY <1>13 DEF k
    <3>2. Fed(one, two, r, 1, k, Len(rest)) BY <1>2, <1>7, <1>13, <2>1, <2>3, <2>4, <3>1, FeedsPiece
    <3> QED BY <2>3, <3>2
  <2> HIDE DEF two
  <2>6. ~(k + p < CountOf(r)) /\ ~(k < HeadOf(r)) BY <1>4, <1>8, <2>1 DEF k
  <2>7. \/ two.event = "MessageComplete" /\ At(two.m, r, 1, CountOf(r)) /\ Fits(r)
        \/ two.event = "Error" /\ ~Fits(r) BY <2>5, <2>6, Zenon DEF Fed
  <2>8. CASE two.event = "MessageComplete" /\ At(two.m, r, 1, CountOf(r)) /\ Fits(r)
    <3>1. parse_whole = two.m.body BY <1>5, <1>13, <2>8
    <3> QED BY <1>10, <2>8, <3>1, Zenon
  <2>9. CASE two.event = "Error" /\ ~Fits(r)
    <3>1. parse_whole = <<"nullopt">> BY <1>5, <1>13, <2>9
    <3> QED BY <2>9, <3>1, Zenon
  <2> QED BY <2>7, <2>8, <2>9
<1> QED BY <1>9, <1>11, <1>12, <1>13

\* Where the parser is in the stream.
Broken == /\ hp.failed /\ hp.event = "Error" /\ hp.error_status \in Causes(hpSent[Len(hpDone) + 1])
          /\ Len(hpDone) < Len(hpSent) /\ ~Fits(hpSent[Len(hpDone) + 1])
Complete == /\ ~hp.failed /\ hp.event = "MessageComplete" /\ Len(hpDone) \in 1 .. Len(hpSent)
            /\ At(hp.m, hpSent[Len(hpDone)], Len(hpDone), CountOf(hpSent[Len(hpDone)])) /\ hpFed = OffOf(hpSent)[Len(hpDone)]
Idle == /\ ~hp.failed /\ hp.event = "NeedMore" /\ Len(hpDone) = Len(hpSent) /\ hp.m = NewMessage
        /\ hpFed = OffOf(hpSent)[Len(hpDone)]
Reading(k) ==
  LET i == Len(hpDone) + 1
      r == hpSent[i]
  IN /\ ~hp.failed /\ hp.event \in {"NeedMore", "HeadersComplete"} /\ i <= Len(hpSent) /\ k < CountOf(r)
     /\ hpFed = OffOf(hpSent)[i - 1] + k /\ At(hp.m, r, i, k) /\ Counted(hp.m, r, k) /\ hp.m.handler \in {0, i}
     /\ hp.event = "HeadersComplete" => k >= HeadOf(r)

HpTyped ==
  /\ hpSent \in HpStreams /\ hp \in HpParsers /\ hpFed \in 0 .. Len(Symbols(hpSent))
  /\ hpStore \in Seq(HpBodies) /\ hp.message \in 1 .. Len(hpStore)
  /\ hpDone \in Seq([body : HpBodies, handler : Nat]) /\ Len(hpDone) <= Len(hpSent)
HpReported == \A i \in 1 .. Len(hpDone) : hpDone[i].body = BodyOf(i) /\ hpDone[i].handler \in {0, i} /\ Fits(hpSent[i])
HpKept == \A x \in hpHeld : /\ x.message \in 1 .. Len(hpStore) /\ hpStore[x.message] = x.body
                            /\ x.message = hp.message => hp.m.message_done
HpBuffered == hp.m.message_done /\ hp.m.handler = 0 => hpStore[hp.message] = hp.m.body
HpPlaced == Broken \/ Complete \/ Idle \/ \E k \in Nat : Reading(k)

HpInv == HpTyped /\ HpReported /\ HpKept /\ HpBuffered /\ HpPlaced

\* What a parser says of a request is TRUE or FALSE.
LEMMA Truths ==
  ASSUME NEW h \in HpParsers
  PROVE  h.m \in HpMessage /\ h.m.message_done \in BOOLEAN /\ h.m.headers_done \in BOOLEAN /\ h.m.handler \in Nat
         /\ h.m.body \in HpBodies /\ h.failed \in BOOLEAN
<1>1. h.m \in HpMessage /\ h.failed \in BOOLEAN BY DEF HpParsers
<1> QED BY <1>1 DEF HpMessage

LEMMA StreamTyped ==
  ASSUME hpSent \in HpStreams
  PROVE  /\ hpSent \in Seq(HpRequests) /\ Len(hpSent) \in Nat \ {0} /\ \A i \in 1 .. Len(hpSent) : hpSent[i] \in HpRequests
         /\ Laid(hpSent, Symbols(hpSent), OffOf(hpSent))
<1>1. hpSent \in Seq(HpRequests) /\ hpSent # << >> BY HpAssumption
<1> QED BY <1>1, OffIs

LEMMA HpStarts == HpInit => HpInv
<1> SUFFICES ASSUME HpInit PROVE HpInv OBVIOUS
<1>1. hpSent \in HpStreams /\ hpFed = 0 /\ hp = Parser /\ hpStore = <<<< >>>> /\ hpHeld = {} /\ hpDone = << >>
  BY DEF HpInit
<1> DEFINE r == hpSent[1]
<1>2. hpSent \in Seq(HpRequests) /\ Len(hpSent) \in Nat \ {0} /\ r \in HpRequests /\ Laid(hpSent, Symbols(hpSent), OffOf(hpSent))
  <2>1. hpSent \in Seq(HpRequests) /\ Len(hpSent) \in Nat \ {0} /\ (\A i \in 1 .. Len(hpSent) : hpSent[i] \in HpRequests)
        /\ Laid(hpSent, Symbols(hpSent), OffOf(hpSent)) BY <1>1, StreamTyped
  <2> QED BY <2>1
<1>3. << >> \in HpBodies /\ hpStore \in Seq(HpBodies) /\ Len(hpStore) = 1 BY <1>1 DEF HpBodies
<1>4. hp \in HpParsers /\ hp.m = NewMessage /\ ~hp.failed /\ hp.message = 1 /\ hp.event = "NeedMore"
  BY <1>1, ParserStarts DEF Parser
<1>5. NewMessage.message_done = FALSE /\ NewMessage.handler = 0 BY DEF NewMessage
<1>6. Len(Symbols(hpSent)) \in Nat /\ OffOf(hpSent)[0] = 0 BY <1>2 DEF Laid
<1>7. HpTyped BY <1>1, <1>2, <1>3, <1>4, <1>6 DEF HpTyped
<1>8. HpReported /\ HpKept /\ HpBuffered BY <1>1, <1>4, <1>5 DEF HpReported, HpKept, HpBuffered
<1>9. Reading(0)
  <2>1. At(NewMessage, r, 1, 0) /\ Counted(NewMessage, r, 0) BY <1>2, StartsAt
  <2>2. 0 < CountOf(r) /\ 1 <= Len(hpSent) BY <1>2, CountsAre
  <2>3. Len(hpDone) + 1 = 1 BY <1>1
  <2> QED BY <1>1, <1>4, <1>5, <1>6, <2>1, <2>2, <2>3 DEF Reading
<1> QED BY <1>7, <1>8, <1>9 DEF HpInv, HpPlaced

\* Feeding is possible only in the middle of the stream.
LEMMA FedInTheMiddle ==
  ASSUME HpInv, ~hp.failed, ~hp.m.message_done, hpFed < Len(Symbols(hpSent))
  PROVE  \E k \in Nat : Reading(k)
<1>1. hpSent \in HpStreams BY DEF HpInv, HpTyped
<1>2. Laid(hpSent, Symbols(hpSent), OffOf(hpSent)) /\ \A i \in 1 .. Len(hpSent) : hpSent[i] \in HpRequests
  BY <1>1, StreamTyped
<1>3. OffOf(hpSent)[Len(hpSent)] = Len(Symbols(hpSent)) /\ hpFed \in Nat BY <1>2 DEF Laid, HpInv, HpTyped
<1>4. ~Broken BY DEF Broken
<1>5. ~Idle BY <1>3 DEF Idle
<1>6. ~Complete BY DEF Complete, At
<1> QED BY <1>4, <1>5, <1>6 DEF HpInv, HpPlaced

LEMMA HpFeedsOn == ASSUME HpInv, NEW n \in 1 .. Len(Symbols(hpSent)) - hpFed, FeedPiece(n) PROVE HpInv'
<1> DEFINE all == Symbols(hpSent)
           off == OffOf(hpSent)
           D == Len(hpDone)
           i == D + 1
           r == hpSent[i]
           g == HpFeed(hp, SubSeq(all, hpFed + 1, hpFed + n))
<1>1. /\ ~hp.failed /\ ~hp.m.message_done /\ hp' = g /\ hpFed' = hpFed + g.used
      /\ hpStore' = IF g.m.handler > 0 THEN hpStore ELSE [hpStore EXCEPT ![g.message] = g.m.body]
      /\ hpDone' = IF g.event = "MessageComplete" THEN Append(hpDone, [body |-> g.m.body, handler |-> g.m.handler]) ELSE hpDone
      /\ hpSent' = hpSent /\ hpHeld' = hpHeld BY DEF FeedPiece
<1>2. /\ hpSent \in HpStreams /\ hp \in HpParsers /\ hpFed \in 0 .. Len(all)
      /\ hpStore \in Seq(HpBodies) /\ hp.message \in 1 .. Len(hpStore)
      /\ hpDone \in Seq([body : HpBodies, handler : Nat]) /\ Len(hpDone) <= Len(hpSent) BY DEF HpInv, HpTyped
<1>3. hpSent \in Seq(HpRequests) /\ Len(hpSent) \in Nat \ {0} /\ (\A x \in 1 .. Len(hpSent) : hpSent[x] \in HpRequests)
      /\ Laid(hpSent, all, off) BY <1>2, StreamTyped
<1>4. n \in Nat /\ hpFed + n <= Len(all) /\ hpFed < Len(all) /\ Len(all) \in Nat /\ hpFed \in Nat /\ D \in Nat
  BY <1>2, <1>3 DEF Laid
<1>5. PICK k \in Nat : Reading(k) BY <1>1, <1>4, FedInTheMiddle
<1>6. i \in 1 .. Len(hpSent) /\ i \in Nat /\ i - 1 = D /\ r \in HpRequests
  <2>1. i <= Len(hpSent) BY <1>5 DEF Reading
  <2> QED BY <1>3, <1>4, <2>1
<1>7. /\ k < CountOf(r) /\ hpFed = off[i - 1] + k /\ At(hp.m, r, i, k) /\ Counted(hp.m, r, k) /\ hp.m.handler \in {0, i}
  BY <1>5 DEF Reading
<1>8. Fed(hp, g, r, i, k, n)
  <2> DEFINE piece == SubSeq(all, off[i - 1] + k + 1, off[i - 1] + k + n)
  <2>1. /\ piece \in Seq(HpSymbols) /\ Len(piece) = n
        /\ \A q \in 1 .. Len(piece) : k + q <= CountOf(r) => piece[q] = SymbolAt(r, i, k + q)
    <3>1. off[i - 1] + k + n <= Len(all) BY <1>4, <1>7
    <3> QED BY <1>3, <1>4, <1>6, <3>1, PieceOfRequest
  <2>2. g = HpFeed(hp, piece) BY <1>7
  <2> HIDE DEF piece, g, all, off, i
  <2>3. Fed(hp, HpFeed(hp, piece), r, i, k, Len(piece)) BY <1>1, <1>2, <1>6, <1>7, <2>1, FeedsPiece
  <2> QED BY <2>1, <2>2, <2>3, Zenon
<1> HIDE DEF g, all, off
<1>9. g \in HpParsers /\ g.message = hp.message /\ g.m.handler = hp.m.handler /\ g.used \in 0 .. n BY <1>8 DEF Fed
<1>10. g.m.body \in HpBodies /\ g.m.handler \in Nat BY <1>9, Truths
<1>11. /\ hpStore' \in Seq(HpBodies) /\ Len(hpStore') = Len(hpStore)
       /\ \A x \in 1 .. Len(hpStore) : x # hp.message => hpStore'[x] = hpStore[x]
       /\ g.m.handler = 0 => hpStore'[hp.message] = g.m.body
  <2>1. CASE g.m.handler > 0 BY <1>1, <1>2, <1>10, <2>1
  <2>2. CASE ~(g.m.handler > 0)
    <3>1. hpStore' = [hpStore EXCEPT ![hp.message] = g.m.body] BY <1>1, <1>9, <2>2
    <3>2. Len(hpStore') = Len(hpStore) /\ hpStore' \in Seq(HpBodies) BY <1>2, <1>10, <3>1
    <3>3. hpStore'[hp.message] = g.m.body /\ \A x \in 1 .. Len(hpStore) : x # hp.message => hpStore'[x] = hpStore[x]
      BY <1>2, <3>1
    <3> QED BY <3>2, <3>3
  <2> QED BY <2>1, <2>2
<1>12. HpKept' /\ HpBuffered'
  <2>1. HpBuffered' BY <1>1, <1>9, <1>11 DEF HpBuffered
  <2>2. ASSUME NEW x \in hpHeld PROVE x.message \in 1 .. Len(hpStore) /\ hpStore[x.message] = x.body /\ x.message # hp.message
    BY <1>1 DEF HpInv, HpKept
  <2>3. HpKept' BY <1>1, <1>9, <1>11, <2>2 DEF HpKept
  <2> QED BY <2>1, <2>3
<1>13. hpFed' \in 0 .. Len(all) BY <1>1, <1>4, <1>9
<1>14. HpTyped' /\ HpReported' /\ HpPlaced'
  <2>1. CASE g.event = "MessageComplete" /\ ~g.failed /\ k + g.used = CountOf(r) /\ At(g.m, r, i, CountOf(r)) /\ Fits(r)
    <3> DEFINE e == [body |-> g.m.body, handler |-> g.m.handler]
    <3>1. hpDone' = Append(hpDone, e) /\ e \in [body : HpBodies, handler : Nat] BY <1>1, <1>10, <2>1
    <3>2. e.body = BodyOf(i) /\ e.handler \in {0, i}
      <4>1. g.m.body = BodyOf(i) BY <1>6, <2>1, BodyWhole
      <4> QED BY <1>7, <1>9, <4>1
    <3> HIDE DEF e
    <3>3. Len(hpDone') = i /\ hpDone' \in Seq([body : HpBodies, handler : Nat]) /\ hpDone'[i] = e
          /\ \A x \in 1 .. D : hpDone'[x] = hpDone[x] BY <1>2, <3>1
    <3>4. HpTyped' BY <1>1, <1>2, <1>6, <1>9, <1>11, <1>13, <3>3 DEF HpTyped, all
    <3>5. ASSUME NEW x \in 1 .. Len(hpDone')
          PROVE hpDone'[x].body = BodyOf(x) /\ hpDone'[x].handler \in {0, x} /\ Fits(hpSent[x])
      <4>1. CASE x = i BY <2>1, <3>2, <3>3, <4>1
      <4>2. CASE x # i
        <5>1. x \in 1 .. D BY <1>4, <3>3, <4>2
        <5> QED BY <3>3, <5>1 DEF HpInv, HpReported
      <4> QED BY <4>1, <4>2
    <3>6. HpReported' BY <1>1, <3>5 DEF HpReported, BodyOf
    <3>7. hpFed' = off[i]
      <4>1. off[i] = off[i - 1] + CountOf(r) /\ off[i - 1] \in Nat /\ CountOf(r) \in Nat
        <5>1. CountOf(r) \in Nat /\ i - 1 \in 0 .. Len(hpSent) BY <1>6, CountsAre
        <5> HIDE DEF i
        <5> QED BY <1>3, <1>6, <5>1 DEF Laid
      <4> QED BY <1>1, <1>7, <1>9, <2>1, <4>1
    <3>8. Complete' BY <1>1, <1>6, <2>1, <3>3, <3>7 DEF Complete, off
    <3> QED BY <3>4, <3>6, <3>8 DEF HpPlaced
  <2>2. CASE g.event # "MessageComplete"
    <3>1. hpDone' = hpDone BY <1>1, <2>2
    <3>2. HpTyped' /\ HpReported' BY <1>1, <1>2, <1>9, <1>11, <1>13, <3>1 DEF HpTyped, HpInv, HpReported, BodyOf, all
    <3>3. CASE g.event = "Error" /\ g.failed /\ ~Fits(r) /\ g.error_status \in Causes(r)
      <4>1. Broken' BY <1>1, <1>4, <1>6, <3>1, <3>3 DEF Broken
      <4> QED BY <3>2, <4>1 DEF HpPlaced
    <3>4. CASE g.event = "NeedMore" /\ ~g.failed /\ g.used = n /\ At(g.m, r, i, k + n) /\ Counted(g.m, r, k + n) /\ k + n < CountOf(r)
      <4>1. k + n \in Nat /\ hpFed' = off[i - 1] + (k + n)
        <5>1. off[i - 1] \in Nat BY <1>3, <1>6 DEF Laid
        <5> QED BY <1>1, <1>4, <1>7, <3>4, <5>1
      <4>2. Reading(k + n)' BY <1>1, <1>6, <1>7, <1>9, <3>1, <3>4, <4>1 DEF Reading, off
      <4> QED BY <3>2, <4>1, <4>2 DEF HpPlaced
    <3>5. CASE g.event = "HeadersComplete" /\ ~g.failed /\ k + g.used = HeadOf(r) /\ At(g.m, r, i, HeadOf(r))
               /\ Counted(g.m, r, HeadOf(r)) /\ HeadOf(r) < CountOf(r)
      <4>1. HeadOf(r) \in Nat /\ hpFed' = off[i - 1] + HeadOf(r) /\ HeadOf(r) >= HeadOf(r)
        <5>1. off[i - 1] \in Nat /\ HeadOf(r) \in Nat BY <1>3, <1>6, CountsAre DEF Laid
        <5>2. g.used \in Nat BY <1>4, <1>9
        <5>3. hpFed' = off[i - 1] + k + g.used /\ k + g.used = HeadOf(r) BY <1>1, <1>7, <3>5
        <5> HIDE DEF i, r
        <5> QED BY <5>1, <5>2, <5>3
      <4>2. PICK w \in Nat : w = HeadOf(r) BY <4>1
      <4>3. Reading(w)' BY <1>1, <1>6, <1>7, <1>9, <3>1, <3>5, <4>1, <4>2 DEF Reading, off
      <4> QED BY <3>2, <4>3 DEF HpPlaced
    <3>6. \/ g.event = "Error" /\ g.failed /\ ~Fits(r) /\ g.error_status \in Causes(r)
          \/ g.event = "NeedMore" /\ ~g.failed /\ g.used = n /\ At(g.m, r, i, k + n) /\ Counted(g.m, r, k + n) /\ k + n < CountOf(r)
          \/ g.event = "HeadersComplete" /\ ~g.failed /\ k + g.used = HeadOf(r) /\ At(g.m, r, i, HeadOf(r))
               /\ Counted(g.m, r, HeadOf(r)) /\ HeadOf(r) < CountOf(r)
      <4> HIDE DEF i, r
      <4> QED BY <1>8, <2>2 DEF Fed
    <3> QED BY <3>3, <3>4, <3>5, <3>6, Zenon
  <2>3. \/ g.event # "MessageComplete"
        \/ g.event = "MessageComplete" /\ ~g.failed /\ k + g.used = CountOf(r) /\ At(g.m, r, i, CountOf(r)) /\ Fits(r)
    <3> HIDE DEF i, r
    <3> QED BY <1>8 DEF Fed
  <2> QED BY <2>1, <2>2, <2>3, Zenon
<1> QED BY <1>12, <1>14 DEF HpInv

LEMMA HpHandlerSet == ASSUME HpInv, set_body_handler PROVE HpInv'
<1> DEFINE i == Len(hpDone) + 1
<1>1. /\ hp.event = "HeadersComplete" /\ hp.m.handler = 0 /\ hp' = [hp EXCEPT !.m.handler = i]
      /\ hpSent' = hpSent /\ hpFed' = hpFed /\ hpStore' = hpStore /\ hpHeld' = hpHeld /\ hpDone' = hpDone
  BY DEF set_body_handler
<1>2. HpTyped /\ HpReported /\ HpKept /\ HpPlaced BY DEF HpInv
<1>3. hp \in HpParsers /\ hp.m \in HpMessage /\ i \in Nat BY <1>2, Truths DEF HpTyped
<1>4. PICK k \in Nat : Reading(k) BY <1>1, <1>2 DEF HpPlaced, Broken, Complete, Idle
<1> DEFINE m == hp.m
           n == [m EXCEPT !.handler = i]
<1>5. hp' = [hp EXCEPT !.m = n] BY <1>1, Zenon
<1> HIDE DEF i, m
<1>6. n \in HpMessage /\ n.handler = i /\ n.header_bytes = m.header_bytes /\ n.line = m.line /\ n.headers = m.headers
      /\ n.body_bytes = m.body_bytes /\ n.body = m.body /\ n.headers_done = m.headers_done
      /\ n.message_done = m.message_done /\ n.has_body = m.has_body BY <1>3 DEF HpMessage, m
<1> HIDE DEF n
<1>7. hp' \in HpParsers /\ hp'.m = n /\ hp'.message = hp.message /\ hp'.event = hp.event /\ hp'.failed = hp.failed
  BY <1>3, <1>5, <1>6, PutsMessage
<1>8. Reading(k)'
  <2>1. At(hp.m, hpSent[i], i, k) => At(hp'.m, hpSent[i], i, k) BY <1>6, <1>7, Zenon DEF At, Has, m
  <2>2. Counted(hp.m, hpSent[i], k) => Counted(hp'.m, hpSent[i], k) BY <1>6, <1>7, Zenon DEF Counted, m
  <2> QED BY <1>1, <1>4, <1>6, <1>7, <2>1, <2>2 DEF Reading, i
<1>9. ~hp.m.message_done
  <2>1. CountOf(hpSent[i]) # k /\ At(hp.m, hpSent[i], i, k)
    <3>1. k < CountOf(hpSent[i]) /\ At(hp.m, hpSent[i], i, k) /\ i <= Len(hpSent) BY <1>4 DEF Reading, i
    <3>2. hpSent[i] \in HpRequests
      <4>1. \A x \in 1 .. Len(hpSent) : hpSent[x] \in HpRequests BY <1>2, StreamTyped DEF HpTyped
      <4>2. i \in 1 .. Len(hpSent)
        <5>1. Len(hpSent) \in Nat /\ Len(hpDone) \in Nat BY <1>2, StreamTyped DEF HpTyped
        <5> QED BY <3>1, <5>1 DEF i
      <4> QED BY <4>1, <4>2
    <3> QED BY <3>1, <3>2, CountsAre
  <2> QED BY <2>1 DEF At
<1>10. HpTyped' /\ HpReported' /\ HpKept' /\ HpBuffered'
  <2>1. hp'.m.message_done = hp.m.message_done BY <1>6, <1>7 DEF m
  <2>2. HpTyped' BY <1>1, <1>2, <1>7 DEF HpTyped
  <2>3. HpReported' BY <1>1, <1>2 DEF HpReported, BodyOf
  <2>4. HpKept' BY <1>1, <1>2, <1>7, <2>1 DEF HpKept
  <2>5. HpBuffered' BY <1>9, <2>1 DEF HpBuffered
  <2> QED BY <2>2, <2>3, <2>4, <2>5
<1> QED BY <1>8, <1>10, Zenon DEF HpInv, HpPlaced

\* A step that leaves the parser, the stream and the reports alone.
LEMMA HpStands ==
  ASSUME HpInv, hpSent' = hpSent, hpFed' = hpFed, hp' = hp, hpStore' = hpStore, hpDone' = hpDone
  PROVE  HpTyped' /\ HpReported' /\ HpBuffered' /\ HpPlaced'
<1>1. HpTyped' /\ HpReported' /\ HpBuffered' BY DEF HpInv, HpTyped, HpReported, HpBuffered, BodyOf
<1>2. (Broken => Broken') /\ (Complete => Complete') /\ (Idle => Idle') /\ \A k : Reading(k) => Reading(k)'
  BY DEF Broken, Complete, Idle, Reading
<1>3. HpPlaced' BY <1>2, Zenon DEF HpInv, HpPlaced
<1> QED BY <1>1, <1>3

LEMMA HpHolding == ASSUME HpInv, Hold PROVE HpInv'
<1>1. /\ hp.event = "MessageComplete" /\ hpHeld' = hpHeld \cup {[message |-> hp.message, body |-> hpStore[hp.message]]}
      /\ hpSent' = hpSent /\ hpFed' = hpFed /\ hp' = hp /\ hpStore' = hpStore /\ hpDone' = hpDone BY DEF Hold
<1>2. Complete BY <1>1 DEF HpInv, HpPlaced, Broken, Idle, Reading
<1>3. hp.m.message_done /\ hp.message \in 1 .. Len(hpStore) BY <1>2 DEF Complete, At, HpInv, HpTyped
<1>4. HpKept' BY <1>1, <1>3 DEF HpKept, HpInv
<1> QED BY <1>1, <1>4, HpStands DEF HpInv

LEMMA HpLetting == ASSUME HpInv, LetGo PROVE HpInv'
<1>1. /\ hpHeld' \subseteq hpHeld
      /\ hpSent' = hpSent /\ hpFed' = hpFed /\ hp' = hp /\ hpStore' = hpStore /\ hpDone' = hpDone BY DEF LetGo
<1>2. HpKept' BY <1>1 DEF HpKept, HpInv
<1> QED BY <1>1, <1>2, HpStands DEF HpInv

LEMMA HpGoesOn == ASSUME HpInv, next PROVE HpInv'
<1> DEFINE held == \E x \in hpHeld : x.message = hp.message
           D == Len(hpDone)
<1>1. /\ hp.m.message_done /\ ~hp.failed
      /\ hp' = [hp EXCEPT !.m = NewMessage, !.event = "NeedMore", !.message = IF held THEN Len(hpStore) + 1 ELSE @]
      /\ hpStore' = IF held THEN Append(hpStore, << >>) ELSE [hpStore EXCEPT ![hp.message] = << >>]
      /\ hpSent' = hpSent /\ hpFed' = hpFed /\ hpHeld' = hpHeld /\ hpDone' = hpDone BY DEF next
<1>2. HpTyped /\ HpReported /\ HpKept /\ HpPlaced BY DEF HpInv
<1>3. hpStore \in Seq(HpBodies) /\ << >> \in HpBodies /\ hp.message \in 1 .. Len(hpStore) /\ hp \in HpParsers
  BY <1>2 DEF HpTyped, HpBodies
<1>4. NewMessage \in HpMessage /\ NewMessage.message_done = FALSE /\ NewMessage.handler = 0
  BY DEF NewMessage, HpMessage, HpBodies
<1>5. hp' \in HpParsers /\ hp'.m = NewMessage /\ hp'.event = "NeedMore" /\ ~hp'.failed
      /\ hp'.message = IF held THEN Len(hpStore) + 1 ELSE hp.message
  <2> DEFINE msg == IF held THEN Len(hpStore) + 1 ELSE hp.message
  <2>1. msg \in Nat BY <1>3 DEF HpParsers
  <2>2. hp' = [hp EXCEPT !.m = NewMessage, !.event = "NeedMore", !.message = msg] BY <1>1, Zenon
  <2> HIDE DEF msg, held
  <2>3. hp' \in HpParsers /\ hp'.m = NewMessage /\ hp'.event = "NeedMore" /\ hp'.failed = hp.failed /\ hp'.message = msg
    BY <1>3, <1>4, <2>1, <2>2 DEF HpParsers, HpEvents
  <2> QED BY <1>1, <2>3 DEF msg
<1>6. Complete
  <2>1. ~Broken /\ ~Idle BY <1>1, <1>4 DEF Broken, Idle
  <2>2. ASSUME NEW k \in Nat, Reading(k) PROVE FALSE
    <3> DEFINE i == Len(hpDone) + 1
    <3>1. k < CountOf(hpSent[i]) /\ At(hp.m, hpSent[i], i, k) /\ i <= Len(hpSent) BY <2>2 DEF Reading
    <3>2. hpSent[i] \in HpRequests
      <4>1. (\A x \in 1 .. Len(hpSent) : hpSent[x] \in HpRequests) /\ Len(hpSent) \in Nat /\ Len(hpDone) \in Nat
        BY <1>2, StreamTyped DEF HpTyped
      <4>2. i \in 1 .. Len(hpSent) BY <3>1, <4>1
      <4> QED BY <4>1, <4>2
    <3>3. (k = CountOf(hpSent[i])) = FALSE BY <3>1, <3>2, CountsAre
    <3> QED BY <1>1, <3>1, <3>3, Zenon DEF At
  <2> QED BY <1>2, <2>1, <2>2, Zenon DEF HpPlaced
<1>7. D \in 1 .. Len(hpSent) /\ hpFed = OffOf(hpSent)[D] /\ Len(hpSent) \in Nat
  BY <1>2, <1>6, StreamTyped DEF Complete, HpTyped
<1>8. HpReported' BY <1>1, <1>2 DEF HpReported, BodyOf
<1>9. hpStore' \in Seq(HpBodies) /\ hp'.message \in 1 .. Len(hpStore') /\ HpKept'
  <2>1. CASE held
    <3>1. hpStore' = Append(hpStore, << >>) /\ hp'.message = Len(hpStore) + 1 BY <1>1, <1>5, <2>1
    <3>2. hpStore' \in Seq(HpBodies) /\ Len(hpStore') = Len(hpStore) + 1 /\ \A x \in 1 .. Len(hpStore) : hpStore'[x] = hpStore[x]
      BY <1>3, <3>1
    <3>3. HpKept' BY <1>1, <1>2, <1>3, <3>1, <3>2 DEF HpKept
    <3> QED BY <1>3, <3>1, <3>2, <3>3
  <2>2. CASE ~held
    <3>1. hpStore' = [hpStore EXCEPT ![hp.message] = << >>] /\ hp'.message = hp.message BY <1>1, <1>5, <2>2
    <3>2. hpStore' \in Seq(HpBodies) /\ Len(hpStore') = Len(hpStore)
          /\ \A x \in 1 .. Len(hpStore) : x # hp.message => hpStore'[x] = hpStore[x] BY <1>3, <3>1
    <3>3. HpKept' BY <1>1, <1>2, <2>2, <3>1, <3>2 DEF HpKept
    <3> QED BY <1>3, <3>1, <3>2, <3>3
  <2> QED BY <2>1, <2>2
<1>10. HpTyped' BY <1>1, <1>2, <1>5, <1>9 DEF HpTyped
<1>11. HpBuffered' BY <1>4, <1>5 DEF HpBuffered
<1>12. HpPlaced'
  <2>1. CASE D = Len(hpSent)
    <3>1. Idle' BY <1>1, <1>5, <1>7, <2>1 DEF Idle
    <3> QED BY <3>1 DEF HpPlaced
  <2>2. CASE D # Len(hpSent)
    <3> DEFINE i == D + 1
               r == hpSent[i]
    <3>1. i \in 1 .. Len(hpSent) /\ i \in Nat /\ i - 1 = D /\ i <= Len(hpSent) BY <1>7, <2>2
    <3>2. r \in HpRequests /\ OffOf(hpSent)[D] \in Nat
      <4>1. (\A x \in 1 .. Len(hpSent) : hpSent[x] \in HpRequests) /\ Laid(hpSent, Symbols(hpSent), OffOf(hpSent))
        BY <1>2, StreamTyped DEF HpTyped
      <4>2. D \in 0 .. Len(hpSent) BY <1>7
      <4>3. OffOf(hpSent)[D] \in Nat
        <5> HIDE DEF D
        <5> QED BY <4>1, <4>2 DEF Laid
      <4> QED BY <3>1, <4>1, <4>3
    <3>3. At(NewMessage, r, i, 0) /\ Counted(NewMessage, r, 0) /\ 0 < CountOf(r) BY <3>1, <3>2, StartsAt, CountsAre
    <3>4. hpFed = OffOf(hpSent)[i - 1] + 0 BY <1>7, <3>1, <3>2
    <3>5. Reading(0)' BY <1>1, <1>4, <1>5, <3>1, <3>3, <3>4 DEF Reading
    <3> QED BY <3>5 DEF HpPlaced
  <2> QED BY <2>1, <2>2
<1> QED BY <1>8, <1>9, <1>10, <1>11, <1>12 DEF HpInv

LEMMA HpSteps == HpInv /\ [HpNext]_hpVars => HpInv'
<1> SUFFICES ASSUME HpInv, [HpNext]_hpVars PROVE HpInv' OBVIOUS
<1>1. CASE HpNext BY <1>1, HpFeedsOn, HpHandlerSet, HpHolding, HpLetting, HpGoesOn DEF HpNext
<1>2. CASE UNCHANGED hpVars
  <2>1. HpKept' BY <1>2 DEF hpVars, HpKept, HpInv
  <2> QED BY <1>2, <2>1, HpStands DEF hpVars, HpInv
<1> QED BY <1>1, <1>2

LEMMA HpHolds == HpInv => HpTypeOK /\ RequestsWhole
<1> SUFFICES ASSUME HpInv PROVE HpTypeOK /\ RequestsWhole OBVIOUS
<1> DEFINE all == Symbols(hpSent)
           off == OffOf(hpSent)
           D == Len(hpDone)
<1>1. HpTyped /\ HpReported /\ HpKept /\ HpBuffered /\ HpPlaced BY DEF HpInv
<1>2. hpSent \in HpStreams /\ hpFed \in 0 .. Len(all) /\ hp.message \in 1 .. Len(hpStore) /\ hpStore \in Seq(HpBodies)
      /\ hpDone \in Seq([body : HpBodies, handler : Nat]) /\ D \in Nat /\ hp \in HpParsers BY <1>1 DEF HpTyped
<1>3. Len(hpSent) \in Nat \ {0} /\ (\A x \in 1 .. Len(hpSent) : hpSent[x] \in HpRequests) /\ Laid(hpSent, all, off)
  BY <1>2, StreamTyped
<1>4. HpTypeOK BY <1>2 DEF HpTypeOK
<1>5. \A i \in DOMAIN hpDone : hpDone[i].body = BodyOf(i) /\ hpDone[i].handler \in {0, i} /\ Fits(hpSent[i])
  BY <1>1, <1>2 DEF HpReported
<1>6. hp.failed => ~Fits(hpSent[D + 1]) /\ hp.error_status \in Causes(hpSent[D + 1])
  BY <1>1 DEF HpPlaced, Broken, Complete, Idle, Reading
<1>7. ASSUME NEW k \in Nat, Reading(k)
      PROVE  /\ hpFed < Len(all) /\ D < Len(hpSent)
             /\ hp.event = "HeadersComplete" => hp.m.has_body
  <2> DEFINE i == D + 1
             r == hpSent[i]
  <2>1. /\ i <= Len(hpSent) /\ k < CountOf(r) /\ hpFed = off[i - 1] + k /\ At(hp.m, r, i, k)
        /\ hp.event = "HeadersComplete" => k >= HeadOf(r) BY <1>7 DEF Reading
  <2>2. i \in 1 .. Len(hpSent) /\ i - 1 = D /\ r \in HpRequests /\ i \in 0 .. Len(hpSent) /\ Len(hpSent) \in 0 .. Len(hpSent) /\ D \in 0 .. Len(hpSent)
    BY <1>2, <1>3, <2>1
  <2> HIDE DEF all, off, r
  <2>3. off[i] = off[i - 1] + CountOf(r) /\ off[D] \in Nat /\ CountOf(r) \in Nat /\ off[Len(hpSent)] = Len(all)
    <3>1. CountOf(r) \in Nat BY <2>2, CountsAre
    <3> QED BY <1>3, <2>2, <3>1 DEF Laid, r
  <2>4. off[i] <= off[Len(hpSent)]
    <3> HIDE DEF i
    <3> QED BY <1>3, <2>1, <2>2, LaidInOrder
  <2>5. hpFed < Len(all) /\ D < Len(hpSent)
    <3>1. hpFed < off[i] /\ off[i] \in Nat /\ hpFed \in Nat /\ Len(all) \in Nat BY <2>1, <2>2, <2>3
    <3> QED BY <1>3, <2>1, <2>3, <2>4, <3>1, <1>2
  <2>6. hp.event = "HeadersComplete" => hp.m.has_body
    <3> SUFFICES ASSUME hp.event = "HeadersComplete" PROVE hp.m.has_body OBVIOUS
    <3>1. hp.m.has_body = (r.body > 0 \/ r.kind = "chunked") /\ r.kind # "badEscape" /\ r.kind \notin Refused
      <4>1. HeadOf(r) > 0 /\ k > 0 BY <2>1, <2>2, CountsAre
      <4> QED BY <2>1, <4>1 DEF At, Has
    <3>2. r.body > 0 \/ r.kind = "chunked" BY <2>1, <2>2, <3>1, CountsAre
    <3> QED BY <3>1, <3>2
  <2> QED BY <2>5, <2>6
<1>8. hpFed = Len(all) /\ ~hp.failed => D = Len(hpSent)
  <2> SUFFICES ASSUME hpFed = Len(all), ~hp.failed PROVE D = Len(hpSent) OBVIOUS
  <2>1. CASE Complete
    <3>1. D \in 1 .. Len(hpSent) /\ hpFed = off[D] BY <2>1 DEF Complete
    <3>2. off[Len(hpSent)] = Len(all) /\ D \in 0 .. Len(hpSent) /\ Len(hpSent) \in 0 .. Len(hpSent)
      BY <1>3, <3>1 DEF Laid
    <3>3. D < Len(hpSent) => off[D] < off[Len(hpSent)]
      <4>1. \A a, b \in 0 .. Len(hpSent) : a <= b => off[a] <= off[b] /\ (a < b => off[a] < off[b])
        BY <1>3, LaidInOrder
      <4>2. D < Len(hpSent) => D <= Len(hpSent) BY <1>2, <1>3
      <4> HIDE DEF D, off, all
      <4> QED BY <3>2, <4>1, <4>2
    <3>4. off[D] \in Nat
      <4> HIDE DEF D, off, all
      <4> QED BY <1>3, <3>2 DEF Laid
    <3>5. D <= Len(hpSent) /\ ~(D < Len(hpSent))
      <4>1. off[D] = off[Len(hpSent)] BY <3>1, <3>2
      <4> HIDE DEF off, all, D
      <4> QED BY <1>3, <3>1, <3>3, <3>4, <4>1
    <3> QED BY <1>2, <1>3, <3>5
  <2>2. CASE Idle BY <2>2 DEF Idle
  <2>3. ~Broken BY DEF Broken
  <2>4. ASSUME NEW k \in Nat, Reading(k) PROVE FALSE
    <3>1. hpFed < Len(all) BY <1>7, <2>4
    <3> QED BY <1>2, <3>1
  <2> QED BY <1>1, <2>1, <2>2, <2>3, <2>4 DEF HpPlaced
<1>9. hpFed < Len(all) /\ hp.event = "HeadersComplete" /\ ~hp.failed => hp.m.has_body
  BY <1>1, <1>7 DEF HpPlaced, Broken, Complete, Idle
<1>10. \A x \in hpHeld : hpStore[x.message] = x.body BY <1>1 DEF HpKept
<1>11. hp.m.message_done /\ hp.m.handler = 0 => hpStore[hp.message] = hp.m.body BY <1>1 DEF HpBuffered
<1>12. hpFed = 0 => parse_whole = IF Fits(hpSent[1]) THEN BodyOf(1) ELSE <<"nullopt">> BY <1>2, ParsesWhole
<1>13. RequestsWhole BY <1>5, <1>6, <1>8, <1>9, <1>10, <1>11, <1>12, Zenon DEF RequestsWhole
<1> QED BY <1>4, <1>13

\* However the bytes of pipelined requests are cut: what is reported is what
\* was sent, in order, each request with its own whole body; the parser fails
\* at the first request that breaks a limit or the grammar and at no other;
\* nothing whole is held back; and a request that a coroutine holds keeps its
\* body (Http1Parser::feed, next, reset_message; HttpParser::parse).
THEOREM RequestsAreWhole == HpSpec => [](HpTypeOK /\ RequestsWhole)
<1>1. HpInit => HpInv BY HpStarts
<1>2. HpInv /\ [HpNext]_hpVars => HpInv' BY HpSteps
<1>3. HpInv => HpTypeOK /\ RequestsWhole BY HpHolds
<1> QED BY <1>1, <1>2, <1>3, PTL DEF HpSpec

----
\* WebSockets: the messages that frames make do not change when more frames
\* follow.

LEMMA WsJoinedIs ==
  ASSUME NEW fs \in Seq(WsFrame)
  PROVE  /\ WsJoined(fs) \in [0 .. Len(fs) -> Seq(STRING)]
         /\ WsJoined(fs)[0] = << >>
         /\ \A i \in 1 .. Len(fs) : WsJoined(fs)[i] = WsJoin(fs, i, WsJoined(fs)[i - 1])
<1> DEFINE n == Len(fs)
           step == [i \in 1 .. n |-> [p \in Seq(STRING) |-> WsJoin(fs, i, p)]]
           Body(f) == [i \in 0 .. n |-> IF i = 0 THEN << >> ELSE WsJoin(fs, i, f[i - 1])]
<1>1. WsJoined(fs) = CHOOSE f : f = Body(f) BY DEF WsJoined
<1>2. n \in Nat /\ << >> \in Seq(STRING) OBVIOUS
<1>3. ASSUME NEW i \in 1 .. n, NEW p \in Seq(STRING) PROVE WsJoin(fs, i, p) \in Seq(STRING)
  <2>1. fs[i] \in WsFrame OBVIOUS
  <2>2. fs[i].payload \in Seq(STRING) BY <2>1 DEF WsFrame
  <2>3. \A a, b \in Seq(STRING) : a \o b \in Seq(STRING) BY ConcatProperties
  <2> QED BY <1>2, <2>2, <2>3 DEF WsJoin
<1>4. \A i \in 1 .. n : \A p \in Seq(STRING) : step[i][p] = WsJoin(fs, i, p) OBVIOUS
<1>5. PICK f : Course(n, Seq(STRING), << >>, step, f)
  <2>1. \A i \in 1 .. n : \A p \in Seq(STRING) : step[i][p] \in Seq(STRING)
    <3> HIDE DEF step
    <3> QED BY <1>3, <1>4
  <2> HIDE DEF step, n
  <2> QED BY <1>2, <2>1, StepByStep
<1>6. f \in [0 .. n -> Seq(STRING)] /\ f[0] = << >> BY <1>5 DEF Course
<1>7. ASSUME NEW i \in 1 .. n PROVE f[i] = WsJoin(fs, i, f[i - 1])
  <2> HIDE DEF step
  <2>1. f[i - 1] \in Seq(STRING) BY <1>6
  <2> QED BY <1>5, <1>4, <2>1 DEF Course
<1>8. f = Body(f) BY <1>6, <1>7
<1> DEFINE j == WsJoined(fs)
<1>9. j = Body(j)
  <2> HIDE DEF Body
  <2> QED BY <1>1, <1>8
<1> HIDE DEF j
<1>10. j[0] = << >> /\ \A i \in 1 .. n : j[i] = WsJoin(fs, i, j[i - 1]) BY <1>9, <1>2
<1>11. \A i \in 0 .. n : j[i] \in Seq(STRING)
  <2> DEFINE Good == {i \in 0 .. n : j[i] \in Seq(STRING)}
  <2> HIDE DEF n
  <2>4. j[0] \in Seq(STRING) BY <1>10, <1>2, Zenon
  <2>1. 0 \in Good BY <1>2, <2>4
  <2>2. \A i \in 1 .. n : i - 1 \in Good => i \in Good BY <1>10, <1>3
  <2> HIDE DEF Good
  <2>3. \A i \in 0 .. n : i \in Good BY <2>1, <2>2, <1>2, UpFromZero
  <2> QED BY <2>3 DEF Good
<1>12. j \in [0 .. n -> Seq(STRING)] BY <1>9, <1>11
<1> QED BY <1>10, <1>12 DEF j
WsTold(fs) == {WsMessage(fs, i) : i \in 1 .. Len(fs)}

LEMMA WsMessagesAre ==
  ASSUME NEW fs \in Seq(WsFrame)
  PROVE  /\ WsMessages(fs) \in [0 .. Len(fs) -> Seq(WsTold(fs))]
         /\ WsMessages(fs)[0] = << >>
         /\ \A i \in 1 .. Len(fs) : WsMessages(fs)[i] = WsComplete(fs, i, WsMessages(fs)[i - 1])
<1> DEFINE n == Len(fs)
           step == [i \in 1 .. n |-> [ms \in Seq(WsTold(fs)) |-> WsComplete(fs, i, ms)]]
           Body(f) == [i \in 0 .. n |-> IF i = 0 THEN << >> ELSE WsComplete(fs, i, f[i - 1])]
<1>1. WsMessages(fs) = CHOOSE f : f = Body(f) BY DEF WsMessages
<1>2. n \in Nat /\ << >> \in Seq(WsTold(fs)) OBVIOUS
<1>3. ASSUME NEW i \in 1 .. n, NEW ms \in Seq(WsTold(fs)) PROVE WsComplete(fs, i, ms) \in Seq(WsTold(fs))
  <2>1. WsMessage(fs, i) \in WsTold(fs) BY DEF WsTold
  <2> QED BY <2>1, AppendProperties DEF WsComplete
<1>4. \A i \in 1 .. n : \A ms \in Seq(WsTold(fs)) : step[i][ms] = WsComplete(fs, i, ms) OBVIOUS
<1>5. PICK f : Course(n, Seq(WsTold(fs)), << >>, step, f)
  <2>1. \A i \in 1 .. n : \A ms \in Seq(WsTold(fs)) : step[i][ms] \in Seq(WsTold(fs))
    <3> HIDE DEF step
    <3> QED BY <1>3, <1>4
  <2> HIDE DEF step, n
  <2> QED BY <1>2, <2>1, StepByStep
<1>6. f \in [0 .. n -> Seq(WsTold(fs))] /\ f[0] = << >> BY <1>5 DEF Course
<1>7. ASSUME NEW i \in 1 .. n PROVE f[i] = WsComplete(fs, i, f[i - 1])
  <2> HIDE DEF step
  <2>1. f[i - 1] \in Seq(WsTold(fs)) BY <1>6
  <2> QED BY <1>5, <1>4, <2>1 DEF Course
<1>8. f = Body(f) BY <1>6, <1>7
<1> DEFINE j == WsMessages(fs)
<1>9. j = Body(j)
  <2> HIDE DEF Body
  <2> QED BY <1>1, <1>8
<1> HIDE DEF j
<1>10. j[0] = << >> /\ \A i \in 1 .. n : j[i] = WsComplete(fs, i, j[i - 1]) BY <1>9, <1>2
<1>11. \A i \in 0 .. n : j[i] \in Seq(WsTold(fs))
  <2> DEFINE Good == {i \in 0 .. n : j[i] \in Seq(WsTold(fs))}
  <2> HIDE DEF n
  <2>4. j[0] \in Seq(WsTold(fs)) BY <1>10, <1>2, Zenon
  <2>1. 0 \in Good BY <1>2, <2>4
  <2>2. \A i \in 1 .. n : i - 1 \in Good => i \in Good BY <1>10, <1>3
  <2> HIDE DEF Good
  <2>3. \A i \in 0 .. n : i \in Good BY <2>1, <2>2, <1>2, UpFromZero
  <2> QED BY <2>3 DEF Good
<1>12. j \in [0 .. n -> Seq(WsTold(fs))] BY <1>9, <1>11
<1> QED BY <1>10, <1>12 DEF j

\* What a further frame leaves as it was.
LEMMA WsPlacesStay ==
  ASSUME NEW fs \in Seq(WsFrame), NEW f \in WsFrame, NEW i \in 1 .. Len(fs)
  PROVE  LET gs == Append(fs, f)
         IN /\ gs[i] = fs[i]
            /\ i \in WsOfMessage(gs) <=> i \in WsOfMessage(fs)
            /\ i \in WsEnds(gs) <=> i \in WsEnds(fs)
<1> DEFINE gs == Append(fs, f)
<1>1. gs[i] = fs[i] /\ i \in DOMAIN gs /\ i \in DOMAIN fs BY AppendProperties
<1> QED BY <1>1 DEF WsOfMessage, WsEnds

LEMMA WsBeginsStay ==
  ASSUME NEW fs \in Seq(WsFrame), NEW f \in WsFrame, NEW i \in 1 .. Len(fs)
  PROVE  WsBegins(Append(fs, f), i) <=> WsBegins(fs, i)
<1> DEFINE gs == Append(fs, f)
<1>1. \A k \in 1 .. Len(fs) : (k \in WsOfMessage(gs) <=> k \in WsOfMessage(fs)) /\ (k \in WsEnds(gs) <=> k \in WsEnds(fs))
  BY WsPlacesStay
<1>2. WsOfMessage(gs) \subseteq 1 .. Len(fs) + 1 /\ WsOfMessage(fs) \subseteq 1 .. Len(fs)
  BY AppendProperties DEF WsOfMessage
<1>3. WsEnds(gs) \subseteq WsOfMessage(gs) /\ WsEnds(fs) \subseteq WsOfMessage(fs) BY DEF WsEnds
<1> HIDE DEF gs
<1>4. \A k \in WsOfMessage(gs) : k < i => k \in 1 .. Len(fs) BY <1>2
<1>5. \A k \in WsEnds(gs) : k < i => k \in 1 .. Len(fs) BY <1>2, <1>3
<1>6. ASSUME WsBegins(gs, i) PROVE WsBegins(fs, i) BY <1>1, <1>2, <1>3, <1>5, <1>6 DEF WsBegins
<1>7. ASSUME WsBegins(fs, i) PROVE WsBegins(gs, i) BY <1>1, <1>2, <1>3, <1>4, <1>7 DEF WsBegins
<1> QED BY <1>6, <1>7 DEF gs

LEMMA WsJoinedStays ==
  ASSUME NEW fs \in Seq(WsFrame), NEW f \in WsFrame
  PROVE  \A i \in 0 .. Len(fs) : WsJoined(Append(fs, f))[i] = WsJoined(fs)[i]
<1> DEFINE gs == Append(fs, f)
           n == Len(fs)
           Good == {i \in 0 .. n : WsJoined(gs)[i] = WsJoined(fs)[i]}
<1>1. gs \in Seq(WsFrame) /\ Len(gs) = n + 1 /\ n \in Nat BY AppendProperties
<1>2. \A i \in 1 .. n : i \in 1 .. Len(gs) BY <1>1
<1>3. ASSUME NEW i \in 1 .. n, NEW p PROVE WsJoin(gs, i, p) = WsJoin(fs, i, p)
  BY WsPlacesStay, WsBeginsStay DEF WsJoin
<1> HIDE DEF gs, n
<1>4. WsJoined(gs)[0] = << >> /\ WsJoined(fs)[0] = << >> BY <1>1, WsJoinedIs
<1>5. 0 \in Good BY <1>1, <1>4
<1>6. ASSUME NEW i \in 1 .. n, i - 1 \in Good PROVE i \in Good
  <2>1. WsJoined(gs)[i] = WsJoin(gs, i, WsJoined(gs)[i - 1]) BY <1>1, <1>2, WsJoinedIs
  <2>2. WsJoined(fs)[i] = WsJoin(fs, i, WsJoined(fs)[i - 1]) BY WsJoinedIs DEF n
  <2>3. WsJoined(gs)[i - 1] = WsJoined(fs)[i - 1] BY <1>6
  <2>4. WsJoined(gs)[i] = WsJoined(fs)[i] BY <2>1, <2>2, <2>3, <1>3
  <2>5. i \in 0 .. n BY <1>1
  <2> QED BY <2>4, <2>5
<1> HIDE DEF Good
<1>7. \A i \in 0 .. n : i \in Good BY <1>1, <1>5, <1>6, UpFromZero
<1> QED BY <1>7 DEF Good, gs, n

LEMMA WsFirstStays ==
  ASSUME NEW fs \in Seq(WsFrame), NEW f \in WsFrame, NEW i \in 1 .. Len(fs)
  PROVE  WsFirst(Append(fs, f), i) = WsFirst(fs, i)
<1> DEFINE gs == Append(fs, f)
           Of(s, j) == WsBegins(s, j) /\ \A k \in j + 1 .. i : ~WsBegins(s, k)
<1>1. \A k \in 1 .. i : WsBegins(gs, k) <=> WsBegins(fs, k) BY WsBeginsStay
<1> HIDE DEF gs
<1>2. \A j \in 1 .. i : Of(gs, j) <=> Of(fs, j)
  <2>1. ASSUME NEW j \in 1 .. i PROVE j + 1 .. i \subseteq 1 .. i OBVIOUS
  <2> QED BY <1>1, <2>1
<1>3. {j \in 1 .. i : Of(gs, j)} = {j \in 1 .. i : Of(fs, j)} BY <1>2
<1>4. WsFirst(gs, i) = CHOOSE j \in 1 .. i : Of(gs, j) BY DEF WsFirst
<1>5. WsFirst(fs, i) = CHOOSE j \in 1 .. i : Of(fs, j) BY DEF WsFirst
<1> QED BY <1>2, <1>4, <1>5 DEF gs

\* Every frame of a message has one that began it.
LEMMA WsFirstIs ==
  ASSUME NEW fs \in Seq(WsFrame), NEW i \in WsOfMessage(fs)
  PROVE  /\ WsFirst(fs, i) \in 1 .. i /\ WsBegins(fs, WsFirst(fs, i))
         /\ \A k \in WsFirst(fs, i) + 1 .. i : ~WsBegins(fs, k)
<1> DEFINE S == {j \in WsOfMessage(fs) : j <= i /\ \A e \in WsEnds(fs) : e < i => e < j}
<1>1. WsOfMessage(fs) \subseteq 1 .. Len(fs) /\ WsEnds(fs) \subseteq 1 .. Len(fs) /\ Len(fs) \in Nat
  BY DEF WsOfMessage, WsEnds
<1>2. i \in S /\ S \in SUBSET Nat BY <1>1
<1>3. PICK b \in S : \A y \in S : b <= y
  <2> HIDE DEF S
  <2> QED BY <1>2, Smallest
<1>4. b \in 1 .. i /\ b \in WsOfMessage(fs) BY <1>1, <1>3
<1>5. WsBegins(fs, b)
  <2>1. ASSUME NEW j \in WsOfMessage(fs), j < b PROVE \E e \in WsEnds(fs) : j <= e /\ e < b
    <3>1. j \notin S /\ j <= i BY <1>1, <1>3, <1>4, <2>1
    <3>2. PICK e \in WsEnds(fs) : e < i /\ ~(e < j) BY <3>1
    <3> QED BY <3>2, <1>1, <1>3
  <2> QED BY <2>1, <1>4 DEF WsBegins
<1>6. ASSUME NEW k \in b + 1 .. i PROVE ~WsBegins(fs, k)
  <2>1. \A e \in WsEnds(fs) : e < k => e < b BY <1>1, <1>3
  <2> QED BY <1>1, <1>4, <2>1 DEF WsBegins
<1> QED BY <1>4, <1>5, <1>6 DEF WsFirst

LEMMA WsMessageStays ==
  ASSUME NEW fs \in Seq(WsFrame), NEW f \in WsFrame, NEW i \in WsEnds(fs)
  PROVE  WsMessage(Append(fs, f), i) = WsMessage(fs, i)
<1> DEFINE gs == Append(fs, f)
<1>1. i \in 1 .. Len(fs) /\ i \in WsOfMessage(fs) BY DEF WsEnds, WsOfMessage
<1>2. WsFirst(gs, i) = WsFirst(fs, i) /\ WsJoined(gs)[i] = WsJoined(fs)[i]
  <2>1. i \in 0 .. Len(fs) BY <1>1
  <2> QED BY <1>1, <2>1, WsFirstStays, WsJoinedStays
<1>3. WsFirst(fs, i) \in 1 .. Len(fs) BY <1>1, WsFirstIs
<1>4. gs[WsFirst(fs, i)] = fs[WsFirst(fs, i)] BY <1>3, WsPlacesStay
<1> HIDE DEF gs
<1> QED BY <1>2, <1>4 DEF WsMessage, gs

LEMMA WsMessagesStay ==
  ASSUME NEW fs \in Seq(WsFrame), NEW f \in WsFrame
  PROVE  \A i \in 0 .. Len(fs) : WsMessages(Append(fs, f))[i] = WsMessages(fs)[i]
<1> DEFINE gs == Append(fs, f)
           n == Len(fs)
           Good == {i \in 0 .. n : WsMessages(gs)[i] = WsMessages(fs)[i]}
<1>1. gs \in Seq(WsFrame) /\ Len(gs) = n + 1 /\ n \in Nat BY AppendProperties
<1>2. \A i \in 1 .. n : i \in 1 .. Len(gs) BY <1>1
<1>3. ASSUME NEW i \in 1 .. n, NEW p PROVE WsComplete(gs, i, p) = WsComplete(fs, i, p)
  <2>1. i \in WsEnds(gs) <=> i \in WsEnds(fs) BY WsPlacesStay
  <2> HIDE DEF gs
  <2>2. CASE i \in WsEnds(fs) BY <2>1, <2>2, WsMessageStays DEF WsComplete, gs
  <2>3. CASE i \notin WsEnds(fs) BY <2>1, <2>3 DEF WsComplete
  <2> QED BY <2>2, <2>3
<1> HIDE DEF gs, n
<1>4. WsMessages(gs)[0] = << >> /\ WsMessages(fs)[0] = << >> BY <1>1, WsMessagesAre
<1>5. 0 \in Good BY <1>1, <1>4
<1>6. ASSUME NEW i \in 1 .. n, i - 1 \in Good PROVE i \in Good
  <2>1. WsMessages(gs)[i] = WsComplete(gs, i, WsMessages(gs)[i - 1]) BY <1>1, <1>2, WsMessagesAre
  <2>2. WsMessages(fs)[i] = WsComplete(fs, i, WsMessages(fs)[i - 1]) BY WsMessagesAre DEF n
  <2>3. WsMessages(gs)[i - 1] = WsMessages(fs)[i - 1] BY <1>6
  <2>4. WsMessages(gs)[i] = WsMessages(fs)[i] BY <2>1, <2>2, <2>3, <1>3
  <2>5. i \in 0 .. n BY <1>1
  <2> QED BY <2>4, <2>5
<1> HIDE DEF Good
<1>7. \A i \in 0 .. n : i \in Good BY <1>1, <1>5, <1>6, UpFromZero
<1> QED BY <1>7 DEF Good, gs, n

\* The messages of the first frames are the first messages.
WsBegun(a, b) == Len(a) <= Len(b) /\ \A i \in 1 .. Len(a) : a[i] = b[i]

LEMMA WsMessagesGrow ==
  ASSUME NEW fs \in Seq(WsFrame), NEW k \in 0 .. Len(fs)
  PROVE  WsBegun(WsMessages(fs)[k], WsMessages(fs)[Len(fs)])
<1> DEFINE n == Len(fs)
           M == WsMessages(fs)
           Good == {i \in 0 .. n : k <= i => WsBegun(M[k], M[i])}
<1>1. n \in Nat /\ \A i \in 0 .. n : M[i] \in Seq(WsTold(fs)) BY WsMessagesAre
<1>2. \A i \in 1 .. n : M[i] = WsComplete(fs, i, M[i - 1]) BY WsMessagesAre
<1> HIDE DEF M, n
<1>3. WsBegun(M[k], M[k]) BY <1>1 DEF WsBegun, n
<1>4. 0 \in Good
  <2>1. k <= 0 => k = 0 BY <1>1 DEF n
  <2> QED BY <2>1, <1>1, <1>3
<1>5. ASSUME NEW i \in 1 .. n, i - 1 \in Good PROVE i \in Good
  <2>1. CASE k > i BY <2>1, <1>1 DEF n
  <2>2. CASE k = i BY <2>2, <1>1, <1>3
  <2>3. CASE k < i
    <3>1. WsBegun(M[k], M[i - 1]) /\ M[i - 1] \in Seq(WsTold(fs)) /\ M[k] \in Seq(WsTold(fs))
      BY <2>3, <1>1, <1>5 DEF n
    <3>2. ASSUME NEW x PROVE WsBegun(M[k], Append(M[i - 1], x))
      <4> DEFINE a == M[k]
                 b == M[i - 1]
      <4>1. a \in Seq(WsTold(fs)) /\ b \in Seq(WsTold(fs) \cup {x}) /\ WsBegun(a, b) BY <3>1
      <4> HIDE DEF a, b
      <4>2. Len(Append(b, x)) = Len(b) + 1 /\ \A j \in 1 .. Len(b) : Append(b, x)[j] = b[j] BY <4>1, AppendProperties
      <4>3. Len(a) \in Nat /\ Len(b) \in Nat BY <4>1
      <4>4. WsBegun(a, Append(b, x)) BY <4>1, <4>2, <4>3 DEF WsBegun
      <4> QED BY <4>4 DEF a, b
    <3>3. WsBegun(M[k], M[i]) BY <3>1, <3>2, <1>2 DEF WsComplete
    <3> QED BY <3>3, <1>1
  <2> QED BY <2>1, <2>2, <2>3 DEF n
<1> HIDE DEF Good
<1>6. \A i \in 0 .. n : i \in Good BY <1>1, <1>4, <1>5, UpFromZero
<1>7. n \in Good /\ k <= n BY <1>6, <1>1 DEF n
<1> QED BY <1>7 DEF Good, M, n

----
\* Of the frames the client has sent the loop has taken k: what it gathers is
\* the message of the last of them, what it has delivered are the messages
\* that the first k complete, and the others wait in the buffer.

WsFragments == [opcode : WsData \cup {"none"}, compressed : BOOLEAN, payload : Seq(STRING)]
WsGotten == [opcode : WsData, payload : Seq(STRING)]

WsDelivered ==
  [opcode |-> wsLoop.opcode, payload |-> IF wsLoop.compressed THEN Inflated(wsLoop.payload) ELSE wsLoop.payload]

WsGathers(fs, k, frag) ==
  IF frag.opcode = "none" THEN \A j \in WsOfMessage(fs) : j <= k => \E e \in WsEnds(fs) : j <= e /\ e <= k
  ELSE /\ frag.opcode \in WsData /\ frag.payload = WsJoined(fs)[k] /\ Len(frag.payload) <= WsMaxSize
       /\ \E o \in 1 .. k : /\ WsBegins(fs, o) /\ fs[o].opcode = frag.opcode /\ fs[o].rsv1 = frag.compressed
                            /\ \A e \in WsEnds(fs) : e <= k => e < o

WsSame(g, f) == g.opcode = f.opcode /\ g.fin = f.fin /\ g.rsv1 = f.rsv1 /\ g.payload = f.payload /\ g.length = f.length

WsWaiting(fs, k, buffer) ==
  Len(buffer) = Len(fs) - k /\ \A i \in 1 .. Len(buffer) : WsSame(buffer[i], fs[k + i])

WsTaken(k) ==
  /\ WsBegun(wsGot, WsMessages(wsSent)[k])
  /\ wsLoop.at = "deliver" => Append(wsGot, WsDelivered) = WsMessages(wsSent)[k]
  /\ ~wsClosed /\ wsLoop.at \notin {"deliver", "fail"} => wsGot = WsMessages(wsSent)[k]
  /\ ~wsClosed /\ wsLoop.at # "fail" => WsGathers(wsSent, k, wsFragment) /\ WsWaiting(wsSent, k, wsBuffer)

WsTyped ==
  /\ wsClosed \in BOOLEAN
  /\ wsSent \in Seq(WsFrames) /\ wsBuffer \in Seq(WsFrame) /\ wsFragment \in WsFragments
  /\ wsGot \in Seq(WsGotten)
  /\ wsLoop.at = "deliver" => /\ wsLoop.opcode \in WsData /\ wsLoop.compressed \in BOOLEAN
                              /\ wsLoop.payload \in Seq(STRING) /\ Len(wsLoop.payload) <= WsMaxSize

WsFitting ==
  \A i \in 1 .. Len(wsGot) : /\ Len(wsGot[i].payload) <= WsMaxSize
                             /\ wsGot[i].opcode = "text" => is_valid_utf8(wsGot[i].payload)

WsInv == WsTyped /\ WsFitting /\ \E k \in 0 .. Len(wsSent) : WsTaken(k)

LEMMA WsSentIs == ASSUME WsTyped PROVE wsSent \in Seq(WsFrame) BY WsAssumption DEF WsTyped, WsAssumption

LEMMA WsMessagesHold == WsInv => MessagesIntact
<1> SUFFICES ASSUME WsInv PROVE MessagesIntact OBVIOUS
<1>1. PICK k \in 0 .. Len(wsSent) : WsTaken(k) BY DEF WsInv
<1> DEFINE sent == WsMessages(wsSent)[Len(wsSent)]
           some == WsMessages(wsSent)[k]
<1>2. wsSent \in Seq(WsFrame) /\ wsGot \in Seq(WsGotten) BY WsSentIs DEF WsInv, WsTyped
<1>3. WsBegun(wsGot, some) /\ WsBegun(some, sent) BY <1>1, <1>2, WsMessagesGrow DEF WsTaken
<1>4. some \in Seq(WsTold(wsSent)) /\ sent \in Seq(WsTold(wsSent))
  <2>1. Len(wsSent) \in 0 .. Len(wsSent) BY <1>2
  <2>2. WsMessages(wsSent) \in [0 .. Len(wsSent) -> Seq(WsTold(wsSent))] BY <1>2, WsMessagesAre
  <2> QED BY <2>1, <2>2
<1> HIDE DEF sent, some
<1>5. Len(wsGot) \in Nat /\ Len(some) \in Nat /\ Len(sent) \in Nat BY <1>2, <1>4
<1>6. Len(wsGot) <= Len(sent) /\ \A i \in 1 .. Len(wsGot) : wsGot[i] = sent[i] BY <1>3, <1>5 DEF WsBegun
<1> QED BY <1>6 DEF MessagesIntact, WsInv, WsFitting, sent

LEMMA WsStarted == WsInit => WsInv
<1> SUFFICES ASSUME WsInit PROVE WsInv OBVIOUS
<1>1. /\ wsClosed = FALSE /\ wsBuffer = << >> /\ wsSent = << >> /\ wsFragment = WsNoFragment
      /\ wsLoop = WsIdle /\ wsGot = << >> BY DEF WsInit
<1>2. wsLoop.at = "idle" BY <1>1 DEF WsIdle
<1>3. WsTyped
  <2>1. wsSent \in Seq(WsFrames) /\ wsBuffer \in Seq(WsFrame) /\ wsGot \in Seq(WsGotten) BY <1>1, EmptySeq, Zenon
  <2>2. WsNoFragment \in WsFragments
    <3>1. << >> \in Seq(STRING) BY EmptySeq, Zenon
    <3>2. "none" \in WsData \cup {"none"} OBVIOUS
    <3>3. FALSE \in BOOLEAN OBVIOUS
    <3> QED BY <3>1, <3>2, <3>3, Zenon DEF WsNoFragment, WsFragments
  <2> QED BY <1>1, <1>2, <2>1, <2>2 DEF WsTyped
<1>4. WsMessages(wsSent)[0] = << >> BY <1>3, WsSentIs, WsMessagesAre
<1>5. WsGathers(wsSent, 0, wsFragment)
  <2>1. wsFragment.opcode = "none" BY <1>1 DEF WsNoFragment
  <2>2. WsOfMessage(wsSent) = {} BY <1>1 DEF WsOfMessage
  <2> QED BY <2>1, <2>2 DEF WsGathers
<1>6. WsTaken(0) BY <1>1, <1>2, <1>4, <1>5 DEF WsTaken, WsBegun, WsWaiting
<1>7. WsFitting BY <1>1 DEF WsFitting
<1>8. 0 \in 0 .. Len(wsSent) BY <1>1
<1> QED BY <1>3, <1>6, <1>7, <1>8 DEF WsInv

----
\* The steps.

\* After a close nothing more is taken.
LEMMA WsClosingKeeps ==
  ASSUME WsInv, wsClosed' = TRUE, UNCHANGED <<wsSent, wsGot, wsFragment>>, wsBuffer' \in Seq(WsFrame),
         wsLoop' = wsLoop \/ wsLoop' = WsIdle
  PROVE  WsInv'
<1>1. PICK k \in 0 .. Len(wsSent) : WsTaken(k) BY DEF WsInv
<1>2. wsLoop'.at = "deliver" => wsLoop' = wsLoop BY DEF WsIdle
<1>3. WsTyped' BY <1>2 DEF WsInv, WsTyped
<1>4. WsFitting' BY DEF WsInv, WsFitting
<1>5. wsLoop'.at = "deliver" => Append(wsGot', WsDelivered') = WsMessages(wsSent')[k]
  BY <1>1, <1>2 DEF WsTaken, WsDelivered
<1>6. WsTaken(k)' BY <1>1, <1>5 DEF WsTaken
<1> QED BY <1>3, <1>4, <1>6 DEF WsInv

\* What a step that takes nothing leaves as it was.
LEMMA WsRestKeeps ==
  ASSUME WsInv, UNCHANGED <<wsClosed, wsSent, wsGot, wsFragment>>,
         wsBuffer' = wsBuffer \/ (wsClosed /\ wsBuffer' = << >>),
         wsLoop' = wsLoop \/ (wsLoop' = WsIdle /\ wsLoop.at \in {"ping", "handler"})
  PROVE  WsInv'
<1>1. PICK k \in 0 .. Len(wsSent) : WsTaken(k) BY DEF WsInv
<1>2. wsLoop'.at \in {"deliver", "fail"} => wsLoop' = wsLoop BY DEF WsIdle
<1>3. wsLoop.at \in {"deliver", "fail"} => wsLoop' = wsLoop OBVIOUS
<1>4. WsTyped'
  <2>1. wsBuffer' \in Seq(WsFrame) BY EmptySeq, Zenon DEF WsInv, WsTyped
  <2> QED BY <1>2, <2>1 DEF WsInv, WsTyped
<1>5. WsFitting' BY DEF WsInv, WsFitting
<1>6. wsLoop'.at = "deliver" => Append(wsGot', WsDelivered') = WsMessages(wsSent')[k]
  BY <1>1, <1>2 DEF WsTaken, WsDelivered
<1>7. ~wsClosed' => wsBuffer' = wsBuffer OBVIOUS
<1>8. WsTaken(k)' BY <1>1, <1>2, <1>3, <1>6, <1>7 DEF WsTaken, WsGathers, WsWaiting
<1> QED BY <1>4, <1>5, <1>8 DEF WsInv

LEMMA WsFailingCloses ==
  ASSUME NEW t, NEW code, fail_connection(t, code), wsClosed \in BOOLEAN
  PROVE  wsClosed' = TRUE BY DEF fail_connection

LEMMA WsQuietKeeps == ASSUME WsInv, UNCHANGED wsVars PROVE WsInv'
<1>1. UNCHANGED <<wsClosed, wsSent, wsGot, wsFragment>> /\ wsBuffer' = wsBuffer /\ wsLoop' = wsLoop BY DEF wsVars
<1> QED BY <1>1, WsRestKeeps

LEMMA WsFailKeeps == ASSUME WsInv, WsFail PROVE WsInv'
<1>1. wsClosed' = TRUE BY WsFailingCloses DEF WsFail, WsInv, WsTyped
<1>2. UNCHANGED <<wsSent, wsGot, wsFragment, wsBuffer>> /\ wsLoop' = WsIdle BY DEF WsFail
<1>3. wsBuffer' \in Seq(WsFrame) BY <1>2 DEF WsInv, WsTyped
<1> QED BY <1>1, <1>2, <1>3, WsClosingKeeps

LEMMA WsPongKeeps == ASSUME WsInv, WsPong PROVE WsInv'
<1>1. UNCHANGED <<wsClosed, wsSent, wsGot, wsFragment>> /\ wsBuffer' = wsBuffer /\ wsLoop' = WsIdle /\ wsLoop.at = "ping"
  BY DEF WsPong
<1> QED BY <1>1, WsRestKeeps

LEMMA WsCloseFrameKeeps == ASSUME WsInv, handle_close_frame PROVE WsInv'
<1>1. wsClosed' = TRUE
  <2>1. wsClosed \in BOOLEAN BY DEF WsInv, WsTyped
  <2>2. (\E code : fail_connection(LoopThread, code)) \/ wsClosed' = TRUE BY DEF handle_close_frame
  <2> QED BY <2>1, <2>2, WsFailingCloses, Zenon
<1>2. UNCHANGED <<wsSent, wsGot, wsFragment>> /\ wsLoop' = WsIdle /\ wsBuffer' = << >> BY DEF handle_close_frame
<1>3. wsBuffer' \in Seq(WsFrame) BY <1>2, EmptySeq, Zenon
<1> QED BY <1>1, <1>2, <1>3, WsClosingKeeps

LEMMA WsHandledKeeps == ASSUME WsInv, WsHandled PROVE WsInv'
<1>1. UNCHANGED <<wsClosed, wsSent, wsGot, wsFragment>> /\ wsLoop' = WsIdle /\ wsLoop.at = "handler" BY DEF WsHandled
<1>2. wsBuffer' = wsBuffer \/ (wsClosed /\ wsBuffer' = << >>) BY DEF WsHandled
<1> QED BY <1>1, <1>2, WsRestKeeps

LEMMA WsSendKeeps == ASSUME WsInv, NEW t, send_frame(t) PROVE WsInv'
<1>1. UNCHANGED <<wsClosed, wsSent, wsGot, wsFragment>> /\ wsBuffer' = wsBuffer /\ wsLoop' = wsLoop BY DEF send_frame
<1> QED BY <1>1, WsRestKeeps

LEMMA WsCloseKeeps == ASSUME WsInv, NEW t, WsClose(t) PROVE WsInv'
<1>1. wsClosed' = TRUE
  <2>1. fail_connection(t, 1000) /\ wsClosed \in BOOLEAN BY DEF WsClose, WsInv, WsTyped
  <2> QED BY <2>1 DEF fail_connection
<1>2. UNCHANGED <<wsSent, wsGot, wsFragment, wsBuffer, wsLoop>> BY DEF WsClose
<1>3. wsBuffer' \in Seq(WsFrame) BY <1>2 DEF WsInv, WsTyped
<1> QED BY <1>1, <1>2, <1>3, WsClosingKeeps

LEMMA WsCallKeeps == ASSUME WsInv, NEW t, CallCloseHandler(t) PROVE WsInv'
<1>1. UNCHANGED <<wsClosed, wsSent, wsGot, wsFragment>> /\ wsBuffer' = wsBuffer /\ wsLoop' = wsLoop
  BY DEF CallCloseHandler
<1> QED BY <1>1, WsRestKeeps

LEMMA WsGoneKeeps == ASSUME WsInv, handle_transport_closed PROVE WsInv'
<1>1. wsBuffer' \in Seq(WsFrame) BY DEF handle_transport_closed, WsInv, WsTyped
<1>2. wsClosed' = TRUE /\ UNCHANGED <<wsSent, wsGot, wsFragment, wsLoop>> BY DEF handle_transport_closed
<1> QED BY <1>1, <1>2, WsClosingKeeps

\* The next frame: of no message, the first of one, a further one, or the last.
LEMMA WsNextIs ==
  ASSUME NEW fs \in Seq(WsFrame), NEW k \in 0 .. Len(fs), k < Len(fs)
  PROVE  /\ WsJoined(fs)[k + 1] = WsJoin(fs, k + 1, WsJoined(fs)[k])
         /\ WsMessages(fs)[k + 1] = WsComplete(fs, k + 1, WsMessages(fs)[k])
         /\ WsJoined(fs)[k] \in Seq(STRING)
         /\ WsMessages(fs)[k] \in Seq(WsTold(fs))
<1>1. k + 1 \in 1 .. Len(fs) /\ (k + 1) - 1 = k OBVIOUS
<1>2. WsJoined(fs)[k + 1] = WsJoin(fs, k + 1, WsJoined(fs)[(k + 1) - 1]) BY <1>1, WsJoinedIs
<1>3. WsMessages(fs)[k + 1] = WsComplete(fs, k + 1, WsMessages(fs)[(k + 1) - 1]) BY <1>1, WsMessagesAre
<1>4. WsJoined(fs)[k] \in Seq(STRING) /\ WsMessages(fs)[k] \in Seq(WsTold(fs)) BY WsJoinedIs, WsMessagesAre
<1> QED BY <1>1, <1>2, <1>3, <1>4

LEMMA WsTakesControl ==
  ASSUME NEW fs \in Seq(WsFrame), NEW k \in 0 .. Len(fs), k < Len(fs), k + 1 \notin WsOfMessage(fs),
         NEW frag, WsGathers(fs, k, frag)
  PROVE  WsGathers(fs, k + 1, frag) /\ WsMessages(fs)[k + 1] = WsMessages(fs)[k]
<1>1. WsEnds(fs) \subseteq WsOfMessage(fs) /\ WsOfMessage(fs) \subseteq 1 .. Len(fs) BY DEF WsEnds, WsOfMessage
<1>2. \A j \in WsOfMessage(fs) : j <= k + 1 <=> j <= k BY <1>1
<1>3. \A j \in WsEnds(fs) : j <= k + 1 <=> j <= k BY <1>1, <1>2
<1>4. WsMessages(fs)[k + 1] = WsMessages(fs)[k] /\ WsJoined(fs)[k + 1] = WsJoined(fs)[k]
  BY <1>1, WsNextIs DEF WsComplete, WsJoin
<1>5. CASE frag.opcode = "none"
  <2>1. \A j \in WsOfMessage(fs) : j <= k => \E e \in WsEnds(fs) : j <= e /\ e <= k BY <1>5 DEF WsGathers
  <2>2. \A j \in WsOfMessage(fs) : j <= k + 1 => \E e \in WsEnds(fs) : j <= e /\ e <= k + 1 BY <2>1, <1>2, <1>3
  <2> QED BY <2>2, <1>4, <1>5 DEF WsGathers
<1>6. CASE frag.opcode # "none"
  <2>1. PICK o \in 1 .. k : /\ WsBegins(fs, o) /\ fs[o].opcode = frag.opcode /\ fs[o].rsv1 = frag.compressed
                            /\ \A e \in WsEnds(fs) : e <= k => e < o BY <1>6 DEF WsGathers
  <2>2. o \in 1 .. k + 1 /\ \A e \in WsEnds(fs) : e <= k + 1 => e < o BY <2>1, <1>3
  <2> QED BY <2>1, <2>2, <1>4, <1>6 DEF WsGathers
<1> QED BY <1>4, <1>5, <1>6

LEMMA WsTakesFirst ==
  ASSUME NEW fs \in Seq(WsFrame), NEW k \in 0 .. Len(fs), k < Len(fs), k + 1 \in WsOfMessage(fs),
         NEW frag, WsGathers(fs, k, frag), frag.opcode = "none"
  PROVE  /\ WsBegins(fs, k + 1) /\ WsFirst(fs, k + 1) = k + 1
         /\ WsJoined(fs)[k + 1] = fs[k + 1].payload
<1>1. WsEnds(fs) \subseteq WsOfMessage(fs) /\ WsOfMessage(fs) \subseteq 1 .. Len(fs) BY DEF WsEnds, WsOfMessage
<1>2. \A j \in WsOfMessage(fs) : j <= k => \E e \in WsEnds(fs) : j <= e /\ e <= k BY DEF WsGathers
<1>3. \A j \in WsOfMessage(fs) : j < k + 1 => \E e \in WsEnds(fs) : j <= e /\ e < k + 1 BY <1>1, <1>2
<1>4. WsBegins(fs, k + 1) BY <1>3 DEF WsBegins
<1> DEFINE o == WsFirst(fs, k + 1)
<1>5. o \in 1 .. k + 1 /\ \A i \in o + 1 .. k + 1 : ~WsBegins(fs, i) BY WsFirstIs
<1> HIDE DEF o
<1>6. o = k + 1 BY <1>4, <1>5
<1>7. fs[k + 1].payload \in Seq(STRING)
  <2>1. fs[k + 1] \in WsFrame OBVIOUS
  <2> QED BY <2>1 DEF WsFrame
<1>8. WsJoined(fs)[k + 1] = << >> \o fs[k + 1].payload BY <1>4, WsNextIs DEF WsJoin
<1>9. << >> \o fs[k + 1].payload = fs[k + 1].payload BY <1>7, EmptySeq, ConcatEmptySeq
<1> QED BY <1>4, <1>6, <1>8, <1>9 DEF o

LEMMA WsTakesNext ==
  ASSUME NEW fs \in Seq(WsFrame), NEW k \in 0 .. Len(fs), k < Len(fs), k + 1 \in WsOfMessage(fs),
         NEW frag, WsGathers(fs, k, frag), frag.opcode # "none"
  PROVE  /\ WsFirst(fs, k + 1) \in 1 .. k /\ WsBegins(fs, WsFirst(fs, k + 1))
         /\ fs[WsFirst(fs, k + 1)].opcode = frag.opcode /\ fs[WsFirst(fs, k + 1)].rsv1 = frag.compressed
         /\ \A e \in WsEnds(fs) : e <= k => e < WsFirst(fs, k + 1)
         /\ WsJoined(fs)[k + 1] = frag.payload \o fs[k + 1].payload
<1>1. WsEnds(fs) \subseteq WsOfMessage(fs) /\ WsOfMessage(fs) \subseteq 1 .. Len(fs) BY DEF WsEnds, WsOfMessage
<1>2. PICK o \in 1 .. k : /\ WsBegins(fs, o) /\ fs[o].opcode = frag.opcode /\ fs[o].rsv1 = frag.compressed
                          /\ \A e \in WsEnds(fs) : e <= k => e < o BY DEF WsGathers
<1>3. o \in WsOfMessage(fs) BY <1>2 DEF WsBegins
<1>4. \A i \in o + 1 .. k + 1 : ~WsBegins(fs, i)
  <2>1. SUFFICES ASSUME NEW i \in o + 1 .. k + 1, WsBegins(fs, i) PROVE FALSE OBVIOUS
  <2>2. PICK e \in WsEnds(fs) : o <= e /\ e < i
    <3>1. o < i OBVIOUS
    <3> QED BY <3>1, <1>3, <2>1 DEF WsBegins
  <2>3. e <= k BY <1>1, <2>2
  <2> QED BY <1>1, <1>2, <2>2, <2>3
<1> DEFINE p == WsFirst(fs, k + 1)
<1>5. p \in 1 .. k + 1 /\ WsBegins(fs, p) /\ \A i \in p + 1 .. k + 1 : ~WsBegins(fs, i) BY WsFirstIs
<1> HIDE DEF p
<1>6. p = o
  <2>1. ~(p < o) BY <1>2, <1>5
  <2>2. ~(o < p) BY <1>4, <1>5
  <2> QED BY <2>1, <2>2, <1>5
<1>7. ~WsBegins(fs, k + 1) BY <1>4
<1>8. WsJoined(fs)[k + 1] = WsJoined(fs)[k] \o fs[k + 1].payload BY <1>7, WsNextIs DEF WsJoin
<1> QED BY <1>2, <1>6, <1>8 DEF p, WsGathers

LEMMA WsTakesLast ==
  ASSUME NEW fs \in Seq(WsFrame), NEW k \in 0 .. Len(fs), k < Len(fs), k + 1 \in WsEnds(fs)
  PROVE  /\ WsGathers(fs, k + 1, WsNoFragment)
         /\ WsMessages(fs)[k + 1] = Append(WsMessages(fs)[k], WsMessage(fs, k + 1))
<1>1. WsOfMessage(fs) \subseteq 1 .. Len(fs) BY DEF WsOfMessage
<1>2. WsNoFragment.opcode = "none" BY DEF WsNoFragment
<1>3. WsGathers(fs, k + 1, WsNoFragment) BY <1>1, <1>2 DEF WsGathers
<1> QED BY <1>3, WsNextIs DEF WsComplete

LEMMA WsGathersStays ==
  ASSUME NEW fs \in Seq(WsFrame), NEW f \in WsFrame, NEW k \in 0 .. Len(fs), NEW frag, WsGathers(fs, k, frag)
  PROVE  WsGathers(Append(fs, f), k, frag)
<1> DEFINE gs == Append(fs, f)
<1>1. \A j \in 1 .. Len(fs) : /\ gs[j] = fs[j] /\ (j \in WsOfMessage(gs) <=> j \in WsOfMessage(fs))
                              /\ (j \in WsEnds(gs) <=> j \in WsEnds(fs)) /\ (WsBegins(gs, j) <=> WsBegins(fs, j))
  BY WsPlacesStay, WsBeginsStay
<1>2. WsJoined(gs)[k] = WsJoined(fs)[k] BY WsJoinedStays
<1>3. WsOfMessage(gs) \subseteq 1 .. Len(fs) + 1 /\ WsEnds(gs) \subseteq WsOfMessage(gs)
  BY AppendProperties DEF WsOfMessage, WsEnds
<1> HIDE DEF gs
<1>4. \A j \in WsOfMessage(gs) : j <= k => j \in 1 .. Len(fs) BY <1>3
<1>5. \A j \in WsEnds(gs) : j <= k => j \in 1 .. Len(fs) BY <1>3
<1>6. CASE frag.opcode = "none"
  <2>1. \A j \in WsOfMessage(fs) : j <= k => \E e \in WsEnds(fs) : j <= e /\ e <= k BY <1>6 DEF WsGathers
  <2>2. WsEnds(fs) \subseteq 1 .. Len(fs) BY DEF WsEnds, WsOfMessage
  <2>3. \A j \in WsOfMessage(gs) : j <= k => \E e \in WsEnds(gs) : j <= e /\ e <= k BY <2>1, <2>2, <1>1, <1>4
  <2> QED BY <2>3, <1>6 DEF WsGathers, gs
<1>7. CASE frag.opcode # "none"
  <2>1. PICK o \in 1 .. k : /\ WsBegins(fs, o) /\ fs[o].opcode = frag.opcode /\ fs[o].rsv1 = frag.compressed
                            /\ \A e \in WsEnds(fs) : e <= k => e < o BY <1>7 DEF WsGathers
  <2>2. WsBegins(gs, o) /\ gs[o] = fs[o] /\ \A e \in WsEnds(gs) : e <= k => e < o BY <2>1, <1>1, <1>5
  <2>3. frag.opcode \in WsData /\ frag.payload = WsJoined(gs)[k] /\ Len(frag.payload) <= WsMaxSize
    BY <1>2, <1>7 DEF WsGathers
  <2> QED BY <2>1, <2>2, <2>3, <1>7 DEF WsGathers, gs
<1> QED BY <1>6, <1>7

LEMMA WsDeliverKeeps == ASSUME WsInv, deliver_message PROVE WsInv'
<1> DEFINE m == IF wsLoop.compressed THEN Inflated(wsLoop.payload) ELSE wsLoop.payload
           Small == wsLoop.compressed => inflate_payload(wsLoop.payload)
           Reads == wsLoop.opcode = "text" => is_valid_utf8(m)
<1>1. PICK k \in 0 .. Len(wsSent) : WsTaken(k) BY DEF WsInv
<1>2. wsLoop.at = "deliver" /\ UNCHANGED <<wsSent, wsFragment>> BY DEF deliver_message
<1>3. wsClosed \in BOOLEAN /\ wsGot \in Seq(WsGotten) BY DEF WsInv, WsTyped
<1>4. CASE ~(Small /\ Reads)
  <2>1. (\E code : fail_connection(LoopThread, code)) /\ wsBuffer' = << >> /\ wsLoop' = WsIdle /\ UNCHANGED wsGot
    BY <1>4 DEF deliver_message
  <2>2. wsClosed' = TRUE BY <1>3, <2>1, WsFailingCloses, Zenon
  <2>3. wsBuffer' \in Seq(WsFrame) BY <2>1, EmptySeq, Zenon
  <2> QED BY <1>2, <2>1, <2>2, <2>3, WsClosingKeeps
<1>5. CASE Small /\ Reads
  <2>1. /\ wsGot' = Append(wsGot, WsDelivered) /\ wsLoop' = [at |-> "handler"]
        /\ UNCHANGED <<wsClosed, wsBuffer>> BY <1>5 DEF deliver_message, WsDelivered
  <2>2. wsLoop'.at = "handler" BY <2>1
  <2>3. wsLoop.opcode \in WsData /\ wsLoop.compressed \in BOOLEAN /\ wsLoop.payload \in Seq(STRING) /\ Len(wsLoop.payload) <= WsMaxSize
    BY <1>2 DEF WsInv, WsTyped
  <2>4. m \in Seq(STRING)
    <3>1. wsLoop.payload \o wsLoop.payload \in Seq(STRING) BY <2>3, ConcatProperties
    <3> QED BY <2>3, <3>1 DEF Inflated
  <2>5. Len(m) <= WsMaxSize BY <1>5, <2>3 DEF inflate_payload
  <2>6. WsDelivered = [opcode |-> wsLoop.opcode, payload |-> m] BY DEF WsDelivered
  <2>7. WsDelivered \in WsGotten
    <3> HIDE DEF m
    <3> QED BY <2>3, <2>4, <2>6 DEF WsGotten
  <2>8. wsGot' \in Seq(WsGotten) /\ Len(wsGot') = Len(wsGot) + 1 /\ Len(wsGot) \in Nat
        /\ (\A i \in 1 .. Len(wsGot) : wsGot'[i] = wsGot[i]) /\ wsGot'[Len(wsGot) + 1] = WsDelivered
    BY <1>3, <2>1, <2>7, AppendProperties
  <2>9. WsTyped' BY <1>2, <2>1, <2>2, <2>8 DEF WsInv, WsTyped
  <2>10. WsFitting'
    <3>1. Len(WsDelivered.payload) <= WsMaxSize /\ (WsDelivered.opcode = "text" => is_valid_utf8(WsDelivered.payload))
      BY <1>5, <2>5, <2>6
    <3>2. \A i \in 1 .. Len(wsGot') : i \in 1 .. Len(wsGot) \/ i = Len(wsGot) + 1 BY <2>8
    <3> HIDE DEF m, Small, Reads
    <3> QED BY <2>8, <3>1, <3>2 DEF WsInv, WsFitting
  <2>11. wsGot' = WsMessages(wsSent)[k] BY <1>1, <1>2, <2>1 DEF WsTaken
  <2>12. WsBegun(wsGot', WsMessages(wsSent)[k]) BY <2>8, <2>11 DEF WsBegun
  <2>13. WsTaken(k)' BY <1>1, <1>2, <2>1, <2>2, <2>11, <2>12 DEF WsTaken
  <2> QED BY <1>2, <2>9, <2>10, <2>13 DEF WsInv
<1> QED BY <1>4, <1>5

LEMMA WsReceiveKeeps == ASSUME WsInv, WsReceive PROVE WsInv'
<1>1. PICK k \in 0 .. Len(wsSent) : WsTaken(k) BY DEF WsInv
<1>2. UNCHANGED <<wsClosed, wsFragment, wsLoop, wsGot>> /\ WsArrive BY DEF WsReceive
<1>3. wsSent \in Seq(WsFrames) /\ wsSent \in Seq(WsFrame) /\ wsBuffer \in Seq(WsFrame) BY WsSentIs DEF WsInv, WsTyped
<1>4. WsFitting' BY <1>2 DEF WsInv, WsFitting
<1>5. WsDelivered' = WsDelivered BY <1>2 DEF WsDelivered
<1>6. ASSUME NEW f \in WsFrames, NEW complete \in BOOLEAN,
             wsBuffer' = Append(wsBuffer, [f EXCEPT !.complete = complete]), wsSent' = Append(wsSent, f)
      PROVE  WsInv'
  <2> DEFINE g == [f EXCEPT !.complete = complete]
  <2>1. f \in WsFrame BY WsAssumption DEF WsAssumption
  <2>2. g \in WsFrame /\ WsSame(g, f) BY <2>1 DEF WsFrame, WsSame
  <2> HIDE DEF g
  <2>3. /\ wsBuffer' \in Seq(WsFrame) /\ Len(wsBuffer') = Len(wsBuffer) + 1 /\ Len(wsBuffer) \in Nat
        /\ (\A i \in 1 .. Len(wsBuffer) : wsBuffer'[i] = wsBuffer[i]) /\ wsBuffer'[Len(wsBuffer) + 1] = g
    BY <1>3, <1>6, <2>2, AppendProperties DEF g
  <2>4. /\ wsSent' \in Seq(WsFrames) /\ Len(wsSent') = Len(wsSent) + 1 /\ Len(wsSent) \in Nat
        /\ (\A i \in 1 .. Len(wsSent) : wsSent'[i] = wsSent[i]) /\ wsSent'[Len(wsSent) + 1] = f
    BY <1>3, <1>6, AppendProperties
  <2>5. WsTyped' BY <1>2, <2>3, <2>4 DEF WsInv, WsTyped
  <2>6. WsMessages(wsSent')[k] = WsMessages(wsSent)[k] BY <1>3, <1>6, <2>1, WsMessagesStay
  <2>7. ASSUME WsGathers(wsSent, k, wsFragment) PROVE WsGathers(wsSent', k, wsFragment)
    BY <1>3, <1>6, <2>1, <2>7, WsGathersStays
  <2>8. ASSUME WsWaiting(wsSent, k, wsBuffer) PROVE WsWaiting(wsSent', k, wsBuffer')
    <3>1. Len(wsBuffer) = Len(wsSent) - k /\ \A i \in 1 .. Len(wsBuffer) : WsSame(wsBuffer[i], wsSent[k + i])
      BY <2>8 DEF WsWaiting
    <3>2. ASSUME NEW i \in 1 .. Len(wsBuffer') PROVE WsSame(wsBuffer'[i], wsSent'[k + i])
      <4>1. CASE i = Len(wsBuffer) + 1
        <5>1. k + i = Len(wsSent) + 1 BY <3>1, <4>1, <2>3, <2>4
        <5> QED BY <5>1, <4>1, <2>2, <2>3, <2>4
      <4>2. CASE i # Len(wsBuffer) + 1
        <5>1. i \in 1 .. Len(wsBuffer) /\ k + i \in 1 .. Len(wsSent) BY <3>1, <4>2, <2>3, <2>4
        <5> QED BY <5>1, <3>1, <2>3, <2>4
      <4> QED BY <4>1, <4>2
    <3> QED BY <3>1, <3>2, <2>3, <2>4 DEF WsWaiting
  <2>9. WsTaken(k)' BY <1>1, <1>2, <1>5, <2>6, <2>7, <2>8 DEF WsTaken
  <2>10. k \in 0 .. Len(wsSent') BY <2>4
  <2> QED BY <1>4, <2>5, <2>9, <2>10 DEF WsInv
<1>7. ASSUME Len(wsBuffer) > 0, wsBuffer' = [wsBuffer EXCEPT ![Len(wsBuffer)].complete = TRUE], UNCHANGED wsSent
      PROVE  WsInv'
  <2> DEFINE n == Len(wsBuffer)
             g == [wsBuffer[n] EXCEPT !.complete = TRUE]
  <2>1. n \in 1 .. n /\ wsBuffer[n] \in WsFrame BY <1>3, <1>7
  <2>2. g \in WsFrame /\ \A f : WsSame(wsBuffer[n], f) => WsSame(g, f) BY <2>1 DEF WsFrame, WsSame
  <2>3. wsBuffer' = [wsBuffer EXCEPT ![n] = g] BY <1>7
  <2> HIDE DEF g
  <2>4. /\ wsBuffer' \in Seq(WsFrame) /\ Len(wsBuffer') = n
        /\ (\A i \in 1 .. n : i # n => wsBuffer'[i] = wsBuffer[i]) /\ wsBuffer'[n] = g
    BY <1>3, <2>1, <2>2, <2>3, ExceptSeq
  <2> HIDE DEF n
  <2>5. WsTyped' BY <1>2, <1>7, <2>4 DEF WsInv, WsTyped
  <2>6. ASSUME WsWaiting(wsSent, k, wsBuffer) PROVE WsWaiting(wsSent, k, wsBuffer')
    BY <2>6, <2>2, <2>4 DEF WsWaiting, n
  <2>7. WsTaken(k)' BY <1>1, <1>2, <1>5, <1>7, <2>6 DEF WsTaken
  <2> QED BY <1>4, <1>7, <2>5, <2>7 DEF WsInv
<1> QED BY <1>2, <1>6, <1>7 DEF WsArrive

\* The frame at the front of the buffer is the next one of the client.
LEMMA WsFrontIs ==
  ASSUME WsTyped, NEW k \in 0 .. Len(wsSent), WsWaiting(wsSent, k, wsBuffer), wsBuffer # << >>
  PROVE  /\ k < Len(wsSent) /\ WsSame(Head(wsBuffer), wsSent[k + 1]) /\ wsSent[k + 1] \in WsFrames
         /\ Head(wsBuffer) \in WsFrame /\ Tail(wsBuffer) \in Seq(WsFrame)
         /\ WsWaiting(wsSent, k + 1, Tail(wsBuffer))
<1>1. wsSent \in Seq(WsFrames) /\ wsBuffer \in Seq(WsFrame) BY DEF WsTyped
<1>2. Len(wsBuffer) = Len(wsSent) - k /\ \A i \in 1 .. Len(wsBuffer) : WsSame(wsBuffer[i], wsSent[k + i])
  BY DEF WsWaiting
<1>3. Len(wsBuffer) \in Nat /\ Len(wsBuffer) # 0 /\ Len(wsSent) \in Nat BY <1>1, EmptySeq
<1>4. /\ Head(wsBuffer) = wsBuffer[1] /\ Head(wsBuffer) \in WsFrame
      /\ Tail(wsBuffer) \in Seq(WsFrame) /\ Len(Tail(wsBuffer)) = Len(wsBuffer) - 1
      /\ \A i \in 1 .. Len(Tail(wsBuffer)) : Tail(wsBuffer)[i] = wsBuffer[i + 1] BY <1>1, HeadTailProperties
<1>5. WsSame(Head(wsBuffer), wsSent[k + 1]) BY <1>2, <1>3, <1>4
<1>6. ASSUME NEW i \in 1 .. Len(Tail(wsBuffer)) PROVE WsSame(Tail(wsBuffer)[i], wsSent[(k + 1) + i])
  <2>1. i + 1 \in 1 .. Len(wsBuffer) /\ k + (i + 1) = (k + 1) + i BY <1>3, <1>4
  <2> QED BY <2>1, <1>2, <1>4
<1>7. k < Len(wsSent) /\ Len(Tail(wsBuffer)) = Len(wsSent) - (k + 1) BY <1>2, <1>3, <1>4
<1>8. wsSent[k + 1] \in WsFrames BY <1>1, <1>7
<1> QED BY <1>4, <1>5, <1>6, <1>7, <1>8 DEF WsWaiting

\* A frame is taken, and the loop holds no message.
LEMMA WsNothingDue ==
  ASSUME WsInv, NEW k \in 0 .. Len(wsSent), k < Len(wsSent), ~wsClosed, UNCHANGED <<wsClosed, wsSent, wsGot>>,
         wsLoop'.at \notin {"deliver", "fail"}, wsFragment' \in WsFragments, wsBuffer' \in Seq(WsFrame),
         WsMessages(wsSent)[k + 1] = wsGot, WsGathers(wsSent, k + 1, wsFragment'), WsWaiting(wsSent, k + 1, wsBuffer')
  PROVE  WsInv'
<1>1. WsTyped' BY DEF WsInv, WsTyped
<1>2. WsFitting' BY DEF WsInv, WsFitting
<1>3. Len(wsGot) \in Nat BY DEF WsInv, WsTyped
<1>4. WsBegun(wsGot, WsMessages(wsSent)[k + 1]) BY <1>3 DEF WsBegun
<1>5. WsTaken(k + 1)' BY <1>4 DEF WsTaken
<1>6. k + 1 \in 0 .. Len(wsSent') OBVIOUS
<1> QED BY <1>1, <1>2, <1>5, <1>6 DEF WsInv

\* A frame is taken and the loop has a message to deliver.
LEMMA WsMessageDue ==
  ASSUME WsInv, NEW k \in 0 .. Len(wsSent), k < Len(wsSent), ~wsClosed, UNCHANGED <<wsClosed, wsSent, wsGot>>,
         NEW opcode \in WsData, NEW compressed \in BOOLEAN, NEW payload \in Seq(STRING), Len(payload) <= WsMaxSize,
         wsLoop' = [at |-> "deliver", opcode |-> opcode, compressed |-> compressed, payload |-> payload],
         wsFragment' \in WsFragments, wsBuffer' \in Seq(WsFrame), wsGot = WsMessages(wsSent)[k],
         k + 1 \in WsEnds(wsSent),
         WsMessage(wsSent, k + 1) = [opcode |-> opcode, payload |-> IF compressed THEN Inflated(payload) ELSE payload],
         WsGathers(wsSent, k + 1, wsFragment'), WsWaiting(wsSent, k + 1, wsBuffer')
  PROVE  WsInv'
<1>1. /\ wsLoop'.at = "deliver" /\ wsLoop'.opcode = opcode /\ wsLoop'.compressed = compressed
      /\ wsLoop'.payload = payload OBVIOUS
<1>2. WsTyped' BY <1>1 DEF WsInv, WsTyped
<1>3. WsFitting' BY DEF WsInv, WsFitting
<1>4. wsSent \in Seq(WsFrame) BY WsSentIs DEF WsInv
<1>5. WsMessages(wsSent)[k + 1] = Append(wsGot, WsMessage(wsSent, k + 1)) BY <1>4, WsTakesLast
<1>6. WsDelivered' = WsMessage(wsSent, k + 1) BY <1>1 DEF WsDelivered
<1>7. WsBegun(wsGot, Append(wsGot, WsMessage(wsSent, k + 1)))
  <2>1. wsGot \in Seq(WsTold(wsSent)) BY <1>4, WsMessagesAre
  <2>2. WsMessage(wsSent, k + 1) \in WsTold(wsSent) BY DEF WsTold
  <2> DEFINE d == WsMessage(wsSent, k + 1)
  <2> HIDE DEF d
  <2>3. /\ Len(Append(wsGot, d)) = Len(wsGot) + 1 /\ Len(wsGot) \in Nat
        /\ \A i \in 1 .. Len(wsGot) : Append(wsGot, d)[i] = wsGot[i] BY <2>1, <2>2, AppendProperties DEF d
  <2> QED BY <2>3 DEF WsBegun, d
<1>8. WsTaken(k + 1)' BY <1>1, <1>5, <1>6, <1>7 DEF WsTaken
<1>9. k + 1 \in 0 .. Len(wsSent') OBVIOUS
<1> QED BY <1>2, <1>3, <1>8, <1>9 DEF WsInv

LEMMA WsRefusesKeeps ==
  ASSUME WsInv, UNCHANGED <<wsClosed, wsSent, wsGot, wsFragment>>, wsBuffer' = << >>, wsLoop'.at = "fail"
  PROVE  WsInv'
<1>1. PICK k \in 0 .. Len(wsSent) : WsTaken(k) BY DEF WsInv
<1>2. wsBuffer' \in Seq(WsFrame) BY EmptySeq, Zenon
<1>3. WsTyped' BY <1>2 DEF WsInv, WsTyped
<1>4. WsFitting' BY DEF WsInv, WsFitting
<1>5. WsTaken(k)' BY <1>1 DEF WsTaken
<1> QED BY <1>3, <1>4, <1>5 DEF WsInv

LEMMA WsInspectKeeps == ASSUME WsInv, WsInspect PROVE WsInv'
<1>1. PICK k \in 0 .. Len(wsSent) : WsTaken(k) BY DEF WsInv
<1> DEFINE f == Head(wsBuffer)
           s == wsSent[k + 1]
<1>2. /\ wsLoop.at = "idle" /\ wsBuffer # << >> /\ ~wsClosed
      /\ UNCHANGED <<wsClosed, wsSent, wsGot>> BY DEF WsInspect
<1>3. /\ wsGot = WsMessages(wsSent)[k] /\ WsGathers(wsSent, k, wsFragment)
      /\ WsWaiting(wsSent, k, wsBuffer) BY <1>1, <1>2 DEF WsTaken
<1>4. WsTyped /\ wsSent \in Seq(WsFrame) /\ wsFragment \in WsFragments BY WsSentIs DEF WsInv, WsTyped
<1>5. /\ k < Len(wsSent) /\ WsSame(f, s) /\ s \in WsFrames
      /\ f \in WsFrame /\ Tail(wsBuffer) \in Seq(WsFrame)
      /\ WsWaiting(wsSent, k + 1, Tail(wsBuffer)) BY <1>2, <1>3, <1>4, WsFrontIs
<1>6. k + 1 \in 1 .. Len(wsSent) /\ Len(wsSent) \in Nat BY <1>4, <1>5
<1>7. (k + 1 \in WsOfMessage(wsSent) <=> s.opcode \notin WsControl)
      /\ (k + 1 \in WsEnds(wsSent) <=> (s.opcode \notin WsControl /\ s.fin)) BY <1>6 DEF WsOfMessage, WsEnds
<1>8. s \in WsFrame /\ WsMaxSize \in Nat /\ (s.opcode \notin WsControl => Len(s.payload) = s.length)
  BY <1>5, WsAssumption DEF WsAssumption
<1>9. s.opcode = f.opcode /\ s.fin = f.fin /\ s.rsv1 = f.rsv1 /\ s.payload = f.payload /\ s.length = f.length
  BY <1>5 DEF WsSame
<1>10. s.payload \in Seq(STRING) /\ s.rsv1 \in BOOLEAN /\ s.length \in Nat BY <1>8 DEF WsFrame
<1> DEFINE WsFails == /\ wsBuffer' = << >> /\ UNCHANGED wsFragment
                      /\ wsLoop'.at = "fail"
           Taken == ~protocol_error(f) /\ ~too_big(f) /\ wsBuffer' = Tail(wsBuffer)
           Control == /\ f.opcode \in {"close", "ping", "pong"} /\ UNCHANGED wsFragment
                      /\ wsLoop'.at \notin {"deliver", "fail"}
           Whole == /\ f.opcode \in WsData /\ f.fin /\ UNCHANGED wsFragment
                    /\ wsLoop' = [at |-> "deliver", opcode |-> f.opcode, compressed |-> f.rsv1, payload |-> f.payload]
           First == /\ f.opcode \in WsData /\ ~f.fin /\ UNCHANGED wsLoop
                    /\ wsFragment' = [opcode |-> f.opcode, compressed |-> f.rsv1, payload |-> f.payload]
           joined == wsFragment.payload \o f.payload
           Further == /\ f.opcode = "continuation" /\ ~f.fin /\ UNCHANGED wsLoop
                      /\ wsFragment' = [wsFragment EXCEPT !.payload = joined]
           Final == /\ f.opcode = "continuation" /\ f.fin /\ wsFragment' = WsNoFragment
                    /\ wsLoop' = [at |-> "deliver", opcode |-> wsFragment.opcode,
                                  compressed |-> wsFragment.compressed, payload |-> joined]
<1>0. WsFails \/ (Taken /\ (Control \/ Whole \/ First \/ Further \/ Final))
  <2> DEFINE invalid == inspect_frame(f) = "Invalid"
  <2>1. CASE invalid \/ protocol_error(f)
    <3>1. WsFails
      <4>1. wsBuffer' = << >> /\ UNCHANGED wsFragment BY <2>1 DEF WsInspect
      <4>2. wsLoop' = [at |-> "fail", code |-> 1002] BY <2>1 DEF WsInspect
      <4> QED BY <4>1, <4>2
    <3> QED BY <3>1
  <2>2. CASE ~invalid /\ ~protocol_error(f) /\ too_big(f)
    <3>1. WsFails
      <4>1. wsBuffer' = << >> /\ UNCHANGED wsFragment BY <2>2 DEF WsInspect
      <4>2. wsLoop' = [at |-> "fail", code |-> 1009] BY <2>2 DEF WsInspect
      <4> QED BY <4>1, <4>2
    <3> QED BY <3>1
  <2>3. CASE ~invalid /\ ~protocol_error(f) /\ ~too_big(f)
    <3>1. Taken BY <2>3 DEF WsInspect
    <3>2. CASE f.opcode \in {"close", "ping", "pong"}
      <4>1. Control
        <5>1. UNCHANGED wsFragment BY <2>3, <3>2 DEF WsInspect, WsData
        <5>2. CASE f.opcode \in {"close", "ping"}
          <6>1. wsLoop' = [at |-> f.opcode, frame |-> f] BY <2>3, <5>2 DEF WsInspect, WsData
          <6> QED BY <5>1, <5>2, <6>1
        <5>3. CASE f.opcode = "pong"
          <6>1. wsLoop' = wsLoop BY <2>3, <5>3 DEF WsInspect, WsData
          <6> QED BY <1>2, <5>1, <5>3, <6>1
        <5> QED BY <3>2, <5>2, <5>3
      <4> QED BY <3>1, <4>1
    <3>3. CASE f.opcode \in WsData /\ f.fin
      <4>1. Whole BY <2>3, <3>3 DEF WsInspect, WsData
      <4> QED BY <3>1, <4>1
    <3>4. CASE f.opcode \in WsData /\ ~f.fin
      <4>1. First BY <2>3, <3>4 DEF WsInspect, WsData
      <4> QED BY <3>1, <4>1
    <3>5. CASE f.opcode = "continuation" /\ ~f.fin
      <4>1. Further BY <2>3, <3>5 DEF WsInspect, WsData
      <4> QED BY <3>1, <4>1
    <3>6. CASE f.opcode = "continuation" /\ f.fin
      <4>1. Final BY <2>3, <3>6 DEF WsInspect, WsData
      <4> QED BY <3>1, <4>1
    <3>7. f.opcode \in {"close", "ping", "pong"} \/ f.opcode \in WsData \/ f.opcode = "continuation"
      BY <2>3 DEF protocol_error, WsControl
    <3> HIDE DEF f, Taken, Control, Whole, First, Further, Final
    <3> QED BY <3>2, <3>3, <3>4, <3>5, <3>6, <3>7
  <2> QED BY <2>1, <2>2, <2>3
<1> HIDE DEF f, s
<1>11. CASE WsFails
  <2>1. wsLoop'.at = "fail" BY <1>11
  <2> QED BY <1>2, <1>11, <2>1, WsRefusesKeeps
<1>12. ASSUME Taken
       PROVE  /\ wsBuffer' \in Seq(WsFrame) /\ WsWaiting(wsSent, k + 1, wsBuffer')
              /\ (f.opcode \in WsData => wsFragment.opcode = "none" /\ f.length <= WsMaxSize)
              /\ (f.opcode = "continuation" => /\ wsFragment.opcode # "none"
                                               /\ Len(wsFragment.payload) + f.length <= WsMaxSize)
  <2>1. Len(wsFragment.payload) \in Nat BY <1>4 DEF WsFragments
  <2>2. f.opcode \in WsData => f.opcode # "continuation" BY DEF WsData
  <2>3. f.opcode = "continuation" => wsFragment.opcode # "none" BY <1>12 DEF protocol_error
  <2>4. f.opcode \in WsData => wsFragment.opcode = "none" BY <1>12 DEF protocol_error
  <2>5. f.opcode \in WsData => f.length <= WsMaxSize BY <1>8, <1>9, <1>10, <1>12, <2>2 DEF too_big
  <2>6. f.opcode = "continuation" => Len(wsFragment.payload) + f.length <= WsMaxSize
    BY <1>8, <1>9, <1>10, <1>12, <2>1 DEF too_big
  <2> QED BY <1>5, <1>12, <2>3, <2>4, <2>5, <2>6
<1>13. CASE Taken /\ Control
  <2>1. f.opcode \in WsControl /\ k + 1 \notin WsOfMessage(wsSent) BY <1>7, <1>9, <1>13 DEF WsControl
  <2>2. wsLoop'.at \notin {"deliver", "fail"} BY <1>2, <1>13
  <2>3. WsGathers(wsSent, k + 1, wsFragment) /\ WsMessages(wsSent)[k + 1] = WsMessages(wsSent)[k]
    BY <1>3, <1>4, <1>5, <2>1, WsTakesControl
  <2>4. wsFragment' \in WsFragments /\ WsGathers(wsSent, k + 1, wsFragment') /\ WsMessages(wsSent)[k + 1] = wsGot
    BY <1>3, <1>4, <1>13, <2>3
  <2>5. wsBuffer' \in Seq(WsFrame) /\ WsWaiting(wsSent, k + 1, wsBuffer') BY <1>12, <1>13
  <2> QED BY <1>2, <1>5, <2>2, <2>4, <2>5, WsNothingDue
<1>14. CASE Taken /\ (Whole \/ First)
  <2>1. wsBuffer' \in Seq(WsFrame) /\ WsWaiting(wsSent, k + 1, wsBuffer') /\ wsFragment.opcode = "none" /\ f.length <= WsMaxSize
    BY <1>12, <1>14
  <2>2. f.opcode \notin WsControl /\ k + 1 \in WsOfMessage(wsSent) BY <1>7, <1>9, <1>14 DEF WsControl, WsData
  <2>3. /\ WsBegins(wsSent, k + 1) /\ WsFirst(wsSent, k + 1) = k + 1
        /\ WsJoined(wsSent)[k + 1] = f.payload BY <1>3, <1>4, <1>5, <1>9, <2>1, <2>2, WsTakesFirst DEF s
  <2>4. Len(f.payload) <= WsMaxSize BY <1>8, <1>9, <2>1, <2>2
  <2>5. CASE Whole
    <3>1. k + 1 \in WsEnds(wsSent) BY <1>7, <1>9, <2>2, <2>5
    <3>2. WsMessage(wsSent, k + 1) = [opcode |-> f.opcode, payload |-> IF f.rsv1 THEN Inflated(f.payload) ELSE f.payload]
      BY <1>9, <2>3 DEF WsMessage, s
    <3>3. WsGathers(wsSent, k + 1, wsFragment')
      <4>1. WsGathers(wsSent, k + 1, WsNoFragment) BY <1>4, <1>5, <3>1, WsTakesLast
      <4>2. WsNoFragment.opcode = "none" /\ wsFragment'.opcode = "none" BY <2>1, <2>5 DEF WsNoFragment
      <4> QED BY <4>1, <4>2 DEF WsGathers
    <3>4. f.rsv1 \in BOOLEAN /\ f.payload \in Seq(STRING) /\ wsFragment' \in WsFragments BY <1>4, <1>9, <1>10, <2>5
    <3> QED BY <1>2, <1>3, <1>5, <1>14, <2>1, <2>4, <2>5, <3>1, <3>2, <3>3, <3>4, WsMessageDue
  <2>6. CASE First
    <3>1. /\ wsFragment'.opcode = f.opcode /\ wsFragment'.compressed = f.rsv1 /\ wsFragment'.payload = f.payload
          /\ wsFragment' \in WsFragments
      <4>1. f.opcode \in WsData \cup {"none"} /\ f.rsv1 \in BOOLEAN /\ f.payload \in Seq(STRING) BY <1>9, <1>10, <1>14
      <4> QED BY <2>6, <4>1 DEF WsFragments
    <3>2. k + 1 \notin WsEnds(wsSent) BY <1>7, <1>9, <2>6
    <3>3. wsFragment'.opcode \in WsData /\ wsFragment'.opcode # "none" BY <1>14, <3>1 DEF WsData
    <3>4. \A e \in WsEnds(wsSent) : e <= k + 1 => e < k + 1
      <4>1. WsEnds(wsSent) \subseteq Nat BY <1>4 DEF WsEnds, WsOfMessage
      <4> QED BY <3>2, <4>1
    <3>5. k + 1 \in 1 .. k + 1 /\ wsSent[k + 1].opcode = wsFragment'.opcode /\ wsSent[k + 1].rsv1 = wsFragment'.compressed
      BY <1>9, <3>1 DEF s
    <3>6. WsGathers(wsSent, k + 1, wsFragment') BY <2>3, <2>4, <3>1, <3>3, <3>4, <3>5 DEF WsGathers
    <3>7. WsMessages(wsSent)[k + 1] = wsGot BY <1>3, <1>4, <1>5, <3>2, WsNextIs DEF WsComplete
    <3>8. wsLoop'.at \notin {"deliver", "fail"} BY <1>2, <2>6
    <3> QED BY <1>2, <1>5, <2>1, <3>1, <3>6, <3>7, <3>8, WsNothingDue
  <2> QED BY <1>14, <2>5, <2>6
<1>15. CASE Taken /\ (Further \/ Final)
  <2>1. wsBuffer' \in Seq(WsFrame) /\ WsWaiting(wsSent, k + 1, wsBuffer') /\ wsFragment.opcode # "none"
        /\ Len(wsFragment.payload) + f.length <= WsMaxSize BY <1>12, <1>15
  <2>2. f.opcode \notin WsControl /\ k + 1 \in WsOfMessage(wsSent) BY <1>7, <1>9, <1>15 DEF WsControl
  <2> DEFINE o == WsFirst(wsSent, k + 1)
  <2>11. wsSent[k + 1].payload = f.payload BY <1>9 DEF s
  <2>3. /\ o \in 1 .. k /\ WsBegins(wsSent, o)
        /\ wsSent[o].opcode = wsFragment.opcode /\ wsSent[o].rsv1 = wsFragment.compressed
        /\ \A e \in WsEnds(wsSent) : e <= k => e < o
        /\ WsJoined(wsSent)[k + 1] = joined
    <3>1. wsFragment.opcode # "none" /\ WsGathers(wsSent, k, wsFragment) /\ k < Len(wsSent) BY <1>3, <1>5, <2>1
    <3>2. /\ WsFirst(wsSent, k + 1) \in 1 .. k /\ WsBegins(wsSent, WsFirst(wsSent, k + 1))
          /\ wsSent[WsFirst(wsSent, k + 1)].opcode = wsFragment.opcode
          /\ wsSent[WsFirst(wsSent, k + 1)].rsv1 = wsFragment.compressed
          /\ \A e \in WsEnds(wsSent) : e <= k => e < WsFirst(wsSent, k + 1)
          /\ WsJoined(wsSent)[k + 1] = wsFragment.payload \o wsSent[k + 1].payload
      BY <1>4, <2>2, <3>1, WsTakesNext, Zenon
    <3> QED BY <2>11, <3>2, Zenon
  <2>4. wsFragment.opcode \in WsData BY <1>3, <2>1 DEF WsGathers
  <2>5. wsFragment.payload \in Seq(STRING) /\ wsFragment.compressed \in BOOLEAN /\ f.payload \in Seq(STRING)
    BY <1>4, <1>9, <1>10 DEF WsFragments
  <2>6. joined \in Seq(STRING) /\ Len(joined) = Len(wsFragment.payload) + Len(f.payload) BY <2>5, ConcatProperties
  <2>7. Len(joined) <= WsMaxSize BY <1>8, <1>9, <2>1, <2>2, <2>6
  <2>8. CASE Final
    <3>1. k + 1 \in WsEnds(wsSent) BY <1>7, <1>9, <2>2, <2>8
    <3>2. WsMessage(wsSent, k + 1) =
            [opcode |-> wsFragment.opcode, payload |-> IF wsFragment.compressed THEN Inflated(joined) ELSE joined]
      BY <2>3 DEF WsMessage
    <3>3. WsGathers(wsSent, k + 1, wsFragment') BY <1>4, <1>5, <2>8, <3>1, WsTakesLast
    <3>4. wsFragment' \in WsFragments
      <4>1. << >> \in Seq(STRING) BY EmptySeq, Zenon
      <4>2. "none" \in WsData \cup {"none"} OBVIOUS
      <4>3. FALSE \in BOOLEAN OBVIOUS
      <4>4. WsNoFragment \in WsFragments BY <4>1, <4>2, <4>3, Zenon DEF WsNoFragment, WsFragments
      <4> QED BY <2>8, <4>4
    <3> HIDE DEF joined
    <3> QED BY <1>2, <1>3, <1>5, <2>1, <2>4, <2>5, <2>6, <2>7, <2>8, <3>1, <3>2, <3>3, <3>4, WsMessageDue
  <2>9. CASE Further
    <3>1. /\ wsFragment'.opcode = wsFragment.opcode /\ wsFragment'.compressed = wsFragment.compressed
          /\ wsFragment'.payload = joined /\ wsFragment' \in WsFragments
      <4> HIDE DEF joined
      <4> QED BY <1>4, <2>6, <2>9 DEF WsFragments
    <3>2. k + 1 \notin WsEnds(wsSent) BY <1>7, <1>9, <2>9
    <3>3. \A e \in WsEnds(wsSent) : e <= k + 1 => e < o
      <4>1. WsEnds(wsSent) \subseteq Nat BY <1>4 DEF WsEnds, WsOfMessage
      <4> HIDE DEF o
      <4> QED BY <2>3, <3>2, <4>1
    <3> HIDE DEF o, joined
    <3>4. o \in 1 .. k + 1 BY <2>3
    <3>5. WsGathers(wsSent, k + 1, wsFragment') BY <2>1, <2>3, <2>4, <2>7, <3>1, <3>3, <3>4 DEF WsGathers
    <3>6. WsMessages(wsSent)[k + 1] = wsGot BY <1>3, <1>4, <1>5, <3>2, WsNextIs DEF WsComplete
    <3>7. wsLoop'.at \notin {"deliver", "fail"} BY <1>2, <2>9
    <3> QED BY <1>2, <1>5, <2>1, <3>1, <3>5, <3>6, <3>7, WsNothingDue
  <2> QED BY <1>15, <2>8, <2>9
<1> HIDE DEF WsFails, Taken, Control, Whole, First, Further, Final
<1> QED BY <1>0, <1>11, <1>13, <1>14, <1>15

----
\* The closing: who closed it first, and what the loop does that read a close
\* frame before.

WsAll == WsThreads \cup {LoopThread}
WsWritten == [by : WsAll, opcode : {"close", "data", "pong"}, code : Nat]
WsCount == wsCalls + Cardinality(wsDue)
WsClientCloses == wsSent # << >> /\ \E i \in 1 .. Len(wsSent) : wsSent[i].opcode = "close"
WsTheirs == wsOut # << >> => wsOut[Len(wsOut)].by # LoopThread
WsNoCloseOut == \A i \in 1 .. Len(wsOut) : wsOut[i].opcode # "close"

WsShutTyped ==
  /\ wsClosed \in BOOLEAN /\ wsOut \in Seq(WsWritten) /\ wsCalls \in Nat
  /\ wsDue \subseteq WsAll /\ IsFiniteSet(wsDue)

\* What holds of a close frame, or of a failure, that the loop is about to act on.
WsActing ==
  /\ wsLoop.at = "fail" => wsLoop.code \in Nat
  /\ wsLoop.at = "close" => /\ wsLoop.frame.code \in Nat /\ WsClientCloses
                            /\ wsClosed => WsCount = 1 /\ LoopThread \notin wsDue /\ WsTheirs

WsShut ==
  /\ WsShutTyped /\ ClosesOnce /\ WsActing
  /\ ~wsClosed => WsNoCloseOut

LEMMA WsCountIs ==
  ASSUME WsShutTyped
  PROVE  /\ Cardinality(wsDue) \in Nat /\ WsCount \in Nat
         /\ (wsDue = {} => Cardinality(wsDue) = 0)
         /\ Cardinality(wsDue \cup {LoopThread}) \in Nat
         /\ \A t : t \notin wsDue => Cardinality(wsDue \cup {t}) = Cardinality(wsDue) + 1 /\ IsFiniteSet(wsDue \cup {t})
         /\ \A t : t \in wsDue => Cardinality(wsDue \ {t}) = Cardinality(wsDue) - 1 /\ IsFiniteSet(wsDue \ {t})
<1>1. IsFiniteSet(wsDue) /\ wsCalls \in Nat BY DEF WsShutTyped
<1>2. Cardinality(wsDue) \in Nat BY <1>1, FS_CardinalityType
<1>3. \A t : IsFiniteSet(wsDue \cup {t}) /\ (t \notin wsDue => Cardinality(wsDue \cup {t}) = Cardinality(wsDue) + 1)
  BY <1>1, FS_AddElement
<1>4. \A t : IsFiniteSet(wsDue \ {t}) /\ (t \in wsDue => Cardinality(wsDue \ {t}) = Cardinality(wsDue) - 1)
  BY <1>1, FS_RemoveElement
<1>5. wsDue = {} => Cardinality(wsDue) = 0 BY FS_EmptySet
<1>6. Cardinality(wsDue \cup {LoopThread}) \in Nat BY <1>3, FS_CardinalityType
<1> QED BY <1>1, <1>2, <1>3, <1>4, <1>5, <1>6 DEF WsCount

LEMMA WsShutStarts == WsInit => WsShut
<1> SUFFICES ASSUME WsInit PROVE WsShut OBVIOUS
<1>1. wsClosed = FALSE /\ wsLoop = WsIdle /\ wsOut = << >> /\ wsDue = {} /\ wsCalls = 0 BY DEF WsInit
<1>2. WsShutTyped
  <2>1. wsOut \in Seq(WsWritten) BY <1>1, EmptySeq, Zenon
  <2>2. IsFiniteSet(wsDue) BY <1>1, FS_EmptySet
  <2> QED BY <1>1, <2>1, <2>2 DEF WsShutTyped
<1>3. Len(wsOut) = 0 BY <1>1
<1>4. ClosesOnce
  <2>1. Cardinality(wsDue) = 0 BY <1>1, FS_EmptySet
  <2> QED BY <1>1, <1>3, <2>1 DEF ClosesOnce
<1>5. WsActing BY <1>1 DEF WsActing, WsIdle
<1>6. WsNoCloseOut BY <1>3 DEF WsNoCloseOut
<1> QED BY <1>2, <1>4, <1>5, <1>6 DEF WsShut

\* The parts of ClosesOnce, by their names.
LEMMA WsClosesOnceIs ==
  ClosesOnce <=>
    /\ \A i \in 1 .. Len(wsOut) : wsOut[i].opcode = "close" => i = Len(wsOut)
    /\ wsClosed => WsCount >= 1
    /\ ~wsClosed => wsCalls = 0 /\ wsDue = {}
    /\ WsCount > 1 => WsCount = 2 /\ WsClientCloses /\ WsTheirs BY DEF ClosesOnce, WsCount, WsClientCloses, WsTheirs

\* Steps that leave what was written and who closed it.
LEMMA WsShutStays ==
  ASSUME WsShut, UNCHANGED <<wsClosed, wsOut, wsDue, wsCalls>>, WsClientCloses => WsClientCloses',
         wsLoop' = wsLoop \/ WsActing'
  PROVE  WsShut'
<1>1. WsCount' = WsCount /\ WsTheirs' = WsTheirs BY DEF WsCount, WsTheirs
<1>2. WsShutTyped' BY DEF WsShut, WsShutTyped
<1>3. WsActing'
  <2>1. CASE wsLoop' = wsLoop
    <3>1. WsActing BY DEF WsShut
    <3> QED BY <1>1, <2>1, <3>1 DEF WsActing
  <2> QED BY <2>1
<1>4. ClosesOnce'
  <2> DEFINE P == /\ \A i \in 1 .. Len(wsOut) : wsOut[i].opcode = "close" => i = Len(wsOut)
                  /\ wsClosed => WsCount >= 1
                  /\ ~wsClosed => wsCalls = 0 /\ wsDue = {}
                  /\ WsCount > 1 => WsCount = 2 /\ WsClientCloses /\ WsTheirs
  <2>1. P BY WsClosesOnceIs DEF WsShut
  <2>2. P' BY <1>1, <2>1
  <2>3. (ClosesOnce <=> P)' BY DEF ClosesOnce, WsCount, WsClientCloses, WsTheirs
  <2> QED BY <2>2, <2>3
<1>5. ~wsClosed' => WsNoCloseOut' BY DEF WsShut, WsNoCloseOut
<1> QED BY <1>2, <1>3, <1>4, <1>5 DEF WsShut

LEMMA WsWritesIs ==
  ASSUME WsShutTyped, NEW t \in WsAll, NEW opcode \in {"close", "data", "pong"}, NEW code \in Nat,
         WsWrite(t, opcode, code)
  PROVE  /\ wsOut' \in Seq(WsWritten) /\ wsOut' # << >>
         /\ Len(wsOut) \in Nat /\ Len(wsOut') = Len(wsOut) + 1
         /\ \A i \in 1 .. Len(wsOut) : wsOut'[i] = wsOut[i]
         /\ wsOut'[Len(wsOut')].by = t /\ wsOut'[Len(wsOut')].opcode = opcode
<1> DEFINE w == [by |-> t, opcode |-> opcode, code |-> code]
<1>1. w \in WsWritten /\ w.by = t /\ w.opcode = opcode BY DEF WsWritten
<1>2. wsOut \in Seq(WsWritten) /\ wsOut' = Append(wsOut, w) BY DEF WsShutTyped, WsWrite
<1> HIDE DEF w
<1>3. /\ wsOut' \in Seq(WsWritten) /\ Len(wsOut) \in Nat /\ Len(wsOut') = Len(wsOut) + 1
      /\ (\A i \in 1 .. Len(wsOut) : wsOut'[i] = wsOut[i]) /\ wsOut'[Len(wsOut) + 1] = w
  BY <1>1, <1>2, AppendProperties
<1>4. wsOut' # << >> BY <1>3
<1> QED BY <1>1, <1>3, <1>4

\* A frame is written while the connection is open.
LEMMA WsShutSends ==
  ASSUME WsShut, ~wsClosed, NEW t \in WsAll, NEW opcode \in {"data", "pong"}, WsWrite(t, opcode, 0),
         UNCHANGED <<wsClosed, wsDue, wsCalls, wsSent>>, wsLoop' = wsLoop \/ wsLoop' = WsIdle
  PROVE  WsShut'
<1>1. /\ wsOut' \in Seq(WsWritten) /\ Len(wsOut) \in Nat /\ Len(wsOut') = Len(wsOut) + 1
      /\ \A i \in 1 .. Len(wsOut) : wsOut'[i] = wsOut[i]
      /\ wsOut'[Len(wsOut')].opcode = opcode BY WsWritesIs DEF WsShut
<1>2. WsNoCloseOut'
  <2>1. WsNoCloseOut BY DEF WsShut
  <2>2. \A i \in 1 .. Len(wsOut') : i \in 1 .. Len(wsOut) \/ i = Len(wsOut') BY <1>1
  <2> QED BY <1>1, <2>1, <2>2 DEF WsNoCloseOut
<1>3. WsShutTyped' BY <1>1 DEF WsShut, WsShutTyped
<1>4. WsActing' BY DEF WsShut, WsActing, WsIdle, WsClientCloses
<1>5. ClosesOnce'
  <2>1. wsCalls = 0 /\ wsDue = {} /\ Cardinality(wsDue) = 0 BY WsCountIs, WsClosesOnceIs DEF WsShut
  <2> QED BY <1>2, <2>1 DEF ClosesOnce, WsNoCloseOut
<1> QED BY <1>2, <1>3, <1>4, <1>5 DEF WsShut

\* The first of all closers writes the close frame.
LEMMA WsShutCloses ==
  ASSUME WsShut, ~wsClosed, NEW t \in WsAll, NEW code \in Nat, WsWrite(t, "close", code),
         wsClosed' = TRUE, wsDue' = wsDue \cup {t}, UNCHANGED <<wsCalls, wsSent>>,
         wsLoop' = WsIdle \/ (wsLoop' = wsLoop /\ (t = LoopThread => wsLoop.at = "handler"))
  PROVE  WsShut'
<1>0. WsShutTyped /\ WsNoCloseOut /\ WsActing BY DEF WsShut
<1>1. /\ wsOut' \in Seq(WsWritten) /\ Len(wsOut) \in Nat /\ Len(wsOut') = Len(wsOut) + 1 /\ wsOut' # << >>
      /\ \A i \in 1 .. Len(wsOut) : wsOut'[i] = wsOut[i]
      /\ wsOut'[Len(wsOut')].by = t BY <1>0, WsWritesIs
<1>2. wsCalls = 0 /\ wsDue = {} /\ Cardinality(wsDue) = 0 BY <1>0, WsCountIs, WsClosesOnceIs DEF WsShut
<1>3. wsDue' = {t} /\ Cardinality(wsDue') = 1 /\ IsFiniteSet(wsDue')
  <2>1. wsDue' = {t} BY <1>2
  <2>2. Cardinality({t}) = 1 /\ IsFiniteSet({t}) BY FS_Singleton, Zenon
  <2> QED BY <2>1, <2>2
<1>4. WsShutTyped' BY <1>0, <1>1, <1>3 DEF WsShutTyped
<1>5. WsCount' = 1 BY <1>2, <1>3 DEF WsCount
<1>6. WsActing'
  <2>1. CASE wsLoop' = WsIdle BY <2>1 DEF WsActing, WsIdle
  <2>2. CASE wsLoop' = wsLoop /\ wsLoop.at \notin {"close", "fail"} BY <2>2 DEF WsActing
  <2>3. CASE wsLoop' = wsLoop /\ wsLoop.at = "fail" BY <1>0, <2>3 DEF WsActing
  <2>4. CASE wsLoop' = wsLoop /\ wsLoop.at = "close" /\ t # LoopThread
    <3>1. WsTheirs' BY <1>1, <2>4 DEF WsTheirs
    <3>2. WsClientCloses' BY <1>0, <2>4 DEF WsActing, WsClientCloses
    <3> QED BY <1>0, <1>3, <1>5, <2>4, <3>1, <3>2 DEF WsActing
  <2> QED BY <2>1, <2>2, <2>3, <2>4
<1>7. ClosesOnce'
  <2>1. \A i \in 1 .. Len(wsOut') : i \in 1 .. Len(wsOut) \/ i = Len(wsOut') BY <1>1
  <2>2. \A i \in 1 .. Len(wsOut') : wsOut'[i].opcode = "close" => i = Len(wsOut') BY <1>0, <1>1, <2>1 DEF WsNoCloseOut
  <2> QED BY <1>5, <2>2 DEF ClosesOnce, WsCount
<1> QED BY <1>4, <1>6, <1>7 DEF WsShut

LEMMA WsShutFails ==
  ASSUME WsShut, NEW t \in WsAll, NEW code \in Nat, fail_connection(t, code), UNCHANGED <<wsCalls, wsSent>>,
         wsLoop' = WsIdle \/ (wsLoop' = wsLoop /\ (t = LoopThread => wsLoop.at = "handler"))
  PROVE  WsShut'
<1>1. CASE wsClosed
  <2>1. UNCHANGED <<wsClosed, wsOut, wsDue>> BY <1>1 DEF fail_connection
  <2>2. wsLoop' = wsLoop \/ WsActing' BY DEF WsActing, WsIdle
  <2> QED BY <2>1, <2>2, WsShutStays DEF WsClientCloses
<1>2. CASE ~wsClosed
  <2>1. WsWrite(t, "close", code) /\ wsClosed' = TRUE /\ wsDue' = wsDue \cup {t} BY <1>2 DEF fail_connection
  <2> QED BY <1>2, <2>1, WsShutCloses
<1> QED BY <1>1, <1>2

LEMMA WsIsAll == LoopThread \in WsAll /\ WsThreads \subseteq WsAll /\ WsCallers \subseteq WsAll
BY DEF WsAll, WsCallers

LEMMA WsReceiveShuts == ASSUME WsInv, WsShut, WsReceive PROVE WsShut'
<1>1. UNCHANGED <<wsClosed, wsOut, wsDue, wsCalls, wsLoop>> /\ WsArrive BY DEF WsReceive
<1>2. ASSUME WsClientCloses PROVE WsClientCloses'
  <2>1. CASE UNCHANGED wsSent BY <1>2, <2>1 DEF WsClientCloses
  <2>2. ASSUME NEW f \in WsFrames, wsSent' = Append(wsSent, f) PROVE WsClientCloses'
    <3>1. /\ Len(wsSent') = Len(wsSent) + 1 /\ Len(wsSent) \in Nat
          /\ \A i \in 1 .. Len(wsSent) : wsSent'[i] = wsSent[i] BY <2>2, AppendProperties DEF WsInv, WsTyped
    <3>2. PICK i \in 1 .. Len(wsSent) : wsSent[i].opcode = "close" BY <1>2 DEF WsClientCloses
    <3>3. i \in 1 .. Len(wsSent') /\ wsSent' # << >> BY <3>1
    <3> QED BY <3>1, <3>2, <3>3 DEF WsClientCloses
  <2> QED BY <1>1, <2>1, <2>2 DEF WsArrive
<1> QED BY <1>1, <1>2, WsShutStays

LEMMA WsInspectShuts == ASSUME WsInv, WsShut, WsInspect PROVE WsShut'
<1> DEFINE f == Head(wsBuffer)
<1>1. /\ wsBuffer # << >> /\ ~wsClosed /\ wsLoop.at = "idle"
      /\ UNCHANGED <<wsClosed, wsOut, wsDue, wsCalls, wsSent>> BY DEF WsInspect
<1>2. PICK k \in 0 .. Len(wsSent) : WsTaken(k) BY DEF WsInv
<1>3. WsWaiting(wsSent, k, wsBuffer) BY <1>1, <1>2 DEF WsTaken
<1>4. k < Len(wsSent) /\ WsSame(f, wsSent[k + 1]) /\ f \in WsFrame BY <1>1, <1>3, WsFrontIs DEF WsInv
<1>5. f.opcode = "close" => WsClientCloses
  <2>1. k + 1 \in 1 .. Len(wsSent) /\ wsSent # << >>
    <3>1. wsSent \in Seq(WsFrames) BY DEF WsInv, WsTyped
    <3> QED BY <1>4, <3>1
  <2> QED BY <1>4, <2>1 DEF WsClientCloses, WsSame
<1>6. f.code \in Nat BY <1>4 DEF WsFrame
<1>7. CASE wsLoop'.at \notin {"close", "fail"}
  <2>1. WsActing' BY <1>7 DEF WsActing
  <2> QED BY <1>1, <2>1, WsShutStays DEF WsClientCloses
<1>8. CASE wsLoop' = [at |-> "fail", code |-> 1002] \/ wsLoop' = [at |-> "fail", code |-> 1009]
  <2>1. WsActing' BY <1>8 DEF WsActing
  <2> QED BY <1>1, <2>1, WsShutStays DEF WsClientCloses
<1>9. CASE f.opcode = "close" /\ wsLoop' = [at |-> f.opcode, frame |-> f]
  <2>1. WsActing' BY <1>1, <1>5, <1>6, <1>9 DEF WsActing, WsClientCloses
  <2> QED BY <1>1, <2>1, WsShutStays DEF WsClientCloses
<1> DEFINE invalid == inspect_frame(f) = "Invalid"
<1>10. CASE invalid \/ protocol_error(f)
  <2>1. wsLoop' = [at |-> "fail", code |-> 1002] BY <1>10 DEF WsInspect
  <2> QED BY <1>8, <2>1
<1>11. CASE ~invalid /\ ~protocol_error(f) /\ too_big(f)
  <2>1. wsLoop' = [at |-> "fail", code |-> 1009] BY <1>11 DEF WsInspect
  <2> QED BY <1>8, <2>1
<1>12. CASE ~invalid /\ ~protocol_error(f) /\ ~too_big(f)
  <2>1. CASE f.opcode = "close"
    <3>1. wsLoop' = [at |-> f.opcode, frame |-> f] BY <1>12, <2>1 DEF WsInspect, WsData
    <3> QED BY <1>9, <2>1, <3>1
  <2>2. CASE f.opcode = "ping"
    <3>1. wsLoop' = [at |-> f.opcode, frame |-> f] BY <1>12, <2>2 DEF WsInspect, WsData
    <3> QED BY <1>7, <2>2, <3>1
  <2>3. CASE f.opcode = "pong" \/ ((f.opcode \in WsData \/ f.opcode = "continuation") /\ ~f.fin)
    <3>1. wsLoop' = wsLoop BY <1>12, <2>3 DEF WsInspect, WsData
    <3> QED BY <1>1, <1>7, <3>1
  <2>4. CASE f.opcode \in WsData /\ f.fin
    <3>1. wsLoop' = [at |-> "deliver", opcode |-> f.opcode, compressed |-> f.rsv1, payload |-> f.payload]
      BY <1>12, <2>4 DEF WsInspect, WsData
    <3> QED BY <1>7, <3>1
  <2>5. CASE f.opcode = "continuation" /\ f.fin
    <3>1. wsLoop' = [at |-> "deliver", opcode |-> wsFragment.opcode,
                     compressed |-> wsFragment.compressed, payload |-> wsFragment.payload \o f.payload]
      BY <1>12, <2>5 DEF WsInspect, WsData
    <3> QED BY <1>7, <3>1
  <2>6. f.opcode \in {"close", "ping", "pong"} \/ f.opcode \in WsData \/ f.opcode = "continuation"
    BY <1>12 DEF protocol_error, WsControl
  <2> HIDE DEF f, invalid
  <2> QED BY <2>1, <2>2, <2>3, <2>4, <2>5, <2>6
<1> QED BY <1>10, <1>11, <1>12

LEMMA WsFailShuts == ASSUME WsShut, WsFail PROVE WsShut'
<1>1. wsLoop.code \in Nat BY DEF WsFail, WsShut, WsActing
<1> QED BY <1>1, WsShutFails, WsIsAll DEF WsFail

LEMMA WsPongShuts == ASSUME WsShut, WsPong PROVE WsShut'
<1>1. UNCHANGED <<wsClosed, wsDue, wsCalls, wsSent>> /\ wsLoop' = WsIdle BY DEF WsPong
<1>2. CASE wsClosed
  <2>1. wsOut' = wsOut /\ WsActing' BY <1>1, <1>2 DEF WsPong, WsActing, WsIdle
  <2> QED BY <1>1, <2>1, WsShutStays DEF WsClientCloses
<1>3. CASE ~wsClosed
  <2>1. WsWrite(LoopThread, "pong", 0) BY <1>3 DEF WsPong
  <2> QED BY <1>1, <1>3, <2>1, WsShutSends, WsIsAll
<1> QED BY <1>2, <1>3

LEMMA WsCloseFrameShuts == ASSUME WsShut, handle_close_frame PROVE WsShut'
<1> DEFINE f == wsLoop.frame
<1>0. WsShutTyped /\ ClosesOnce /\ WsActing BY DEF WsShut
<1>1. wsLoop.at = "close" /\ wsLoop' = WsIdle /\ UNCHANGED <<wsSent, wsCalls>> BY DEF handle_close_frame
<1>2. f.code \in Nat /\ WsClientCloses /\ (wsClosed => WsCount = 1 /\ LoopThread \notin wsDue /\ WsTheirs)
  BY <1>0, <1>1 DEF WsActing
<1>3. CASE fail_connection(LoopThread, 1002) \/ fail_connection(LoopThread, 1007) BY <1>1, <1>3, WsShutFails, WsIsAll
<1>4. CASE /\ IF wsClosed THEN UNCHANGED wsOut ELSE WsWrite(LoopThread, "close", f.code)
           /\ wsClosed' = TRUE /\ wsDue' = wsDue \cup {LoopThread}
  <2>1. CASE ~wsClosed BY <1>1, <1>2, <1>4, <2>1, WsShutCloses, WsIsAll
  <2>2. CASE wsClosed
    <3>1. wsOut' = wsOut /\ wsDue' = wsDue \cup {LoopThread} /\ wsClosed' = TRUE BY <1>4, <2>2
    <3>2. Cardinality(wsDue \cup {LoopThread}) = Cardinality(wsDue) + 1 /\ IsFiniteSet(wsDue \cup {LoopThread})
          /\ Cardinality(wsDue) \in Nat BY <1>0, <1>2, <2>2, WsCountIs
    <3>3. WsShutTyped' BY <1>0, <1>1, <3>1, <3>2, WsIsAll DEF WsShutTyped
    <3>4. WsCount' = 2
      <4>1. wsCalls \in Nat /\ wsCalls + Cardinality(wsDue) = 1 BY <1>0, <1>2, <2>2 DEF WsShutTyped, WsCount
      <4>2. WsCount' = wsCalls + (Cardinality(wsDue) + 1) BY <1>1, <3>1, <3>2 DEF WsCount
      <4> QED BY <3>2, <4>1, <4>2
    <3>5. WsActing' BY <1>1 DEF WsActing, WsIdle
    <3>6. WsClientCloses' /\ WsTheirs' BY <1>1, <1>2, <2>2, <3>1 DEF WsClientCloses, WsTheirs
    <3>7. \A i \in 1 .. Len(wsOut') : wsOut'[i].opcode = "close" => i = Len(wsOut') BY <1>0, <3>1 DEF ClosesOnce
    <3>8. ClosesOnce' BY <3>1, <3>4, <3>6, <3>7 DEF ClosesOnce, WsCount, WsClientCloses, WsTheirs
    <3> QED BY <3>1, <3>3, <3>5, <3>8 DEF WsShut
  <2> QED BY <2>1, <2>2
<1>5. fail_connection(LoopThread, 1002) \/ fail_connection(LoopThread, 1007)
      \/ (/\ IF wsClosed THEN UNCHANGED wsOut ELSE WsWrite(LoopThread, "close", f.code)
          /\ wsClosed' = TRUE /\ wsDue' = wsDue \cup {LoopThread}) BY DEF handle_close_frame
<1> QED BY <1>3, <1>4, <1>5

LEMMA WsDeliverShuts == ASSUME WsShut, deliver_message PROVE WsShut'
<1>1. UNCHANGED <<wsSent, wsCalls>> BY DEF deliver_message
<1>2. CASE (fail_connection(LoopThread, 1009) \/ fail_connection(LoopThread, 1007)) /\ wsLoop' = WsIdle
  BY <1>1, <1>2, WsShutFails, WsIsAll
<1>3. CASE UNCHANGED <<wsClosed, wsOut, wsDue>> /\ wsLoop' = [at |-> "handler"]
  <2>1. WsActing' BY <1>3 DEF WsActing
  <2> QED BY <1>1, <1>3, <2>1, WsShutStays DEF WsClientCloses
<1> QED BY <1>2, <1>3 DEF deliver_message

LEMMA WsHandledShuts == ASSUME WsShut, WsHandled PROVE WsShut'
<1>1. UNCHANGED <<wsClosed, wsOut, wsDue, wsCalls, wsSent>> /\ wsLoop' = WsIdle BY DEF WsHandled
<1>2. WsActing' BY <1>1 DEF WsActing, WsIdle
<1> QED BY <1>1, <1>2, WsShutStays DEF WsClientCloses

LEMMA WsSendShuts == ASSUME WsShut, NEW t \in WsAll, send_frame(t) PROVE WsShut'
<1>1. UNCHANGED <<wsClosed, wsDue, wsCalls, wsSent, wsLoop>> /\ ~wsClosed /\ WsWrite(t, "data", 0) BY DEF send_frame
<1> QED BY <1>1, WsShutSends

LEMMA WsCloseShuts == ASSUME WsShut, NEW t \in WsAll, WsClose(t) PROVE WsShut'
<1>1. UNCHANGED <<wsCalls, wsSent, wsLoop>> /\ fail_connection(t, 1000) BY DEF WsClose
<1>2. t = LoopThread => wsLoop.at = "handler" BY WsAssumption DEF WsClose, WsCallers, WsAssumption
<1> QED BY <1>1, <1>2, WsShutFails

LEMMA WsCallShuts == ASSUME WsShut, NEW t \in WsAll, CallCloseHandler(t) PROVE WsShut'
<1>1. /\ t \in wsDue /\ wsDue' = wsDue \ {t} /\ wsCalls' = wsCalls + 1
      /\ UNCHANGED <<wsClosed, wsSent, wsLoop, wsOut>> BY DEF CallCloseHandler
<1>2. WsShutTyped /\ ClosesOnce /\ WsActing BY DEF WsShut
<1>3. Cardinality(wsDue \ {t}) = Cardinality(wsDue) - 1 /\ IsFiniteSet(wsDue \ {t}) /\ Cardinality(wsDue) \in Nat
  BY <1>1, <1>2, WsCountIs
<1>4. WsShutTyped' BY <1>1, <1>2, <1>3 DEF WsShutTyped
<1>5. WsCount' = WsCount
  <2>1. wsCalls \in Nat BY <1>2 DEF WsShutTyped
  <2>2. WsCount' = (wsCalls + 1) + (Cardinality(wsDue) - 1) BY <1>1, <1>3 DEF WsCount
  <2> QED BY <1>3, <2>1, <2>2 DEF WsCount
<1>6. wsClosed BY <1>1, <1>2 DEF ClosesOnce
<1>7. WsTheirs' = WsTheirs /\ WsClientCloses' = WsClientCloses BY <1>1 DEF WsTheirs, WsClientCloses
<1>8. WsActing' BY <1>1, <1>2, <1>5, <1>7 DEF WsActing
<1>9. ClosesOnce'
  <2>1. WsCount >= 1 /\ (WsCount > 1 => WsCount = 2 /\ WsClientCloses /\ WsTheirs) BY <1>2, <1>6, WsClosesOnceIs
  <2>2. WsCount' >= 1 /\ (WsCount' > 1 => WsCount' = 2 /\ WsClientCloses' /\ WsTheirs') BY <1>5, <1>7, <2>1
  <2>3. wsClosed' /\ \A i \in 1 .. Len(wsOut') : wsOut'[i].opcode = "close" => i = Len(wsOut')
    BY <1>1, <1>2, <1>6 DEF ClosesOnce
  <2> QED BY <2>2, <2>3 DEF ClosesOnce, WsCount, WsClientCloses, WsTheirs
<1> QED BY <1>1, <1>4, <1>6, <1>8, <1>9 DEF WsShut

LEMMA WsGoneShuts == ASSUME WsShut, handle_transport_closed PROVE WsShut'
<1>1. /\ wsLoop.at = "idle" /\ wsClosed' = TRUE /\ wsDue' = IF wsClosed THEN wsDue ELSE wsDue \cup {LoopThread}
      /\ UNCHANGED <<wsSent, wsLoop, wsOut, wsCalls>> BY DEF handle_transport_closed
<1>2. WsShutTyped /\ ClosesOnce BY DEF WsShut
<1>3. CASE wsClosed
  <2>1. UNCHANGED <<wsClosed, wsOut, wsDue, wsCalls>> BY <1>1, <1>2, <1>3 DEF WsShutTyped
  <2> QED BY <1>1, <2>1, WsShutStays DEF WsClientCloses
<1>4. CASE ~wsClosed
  <2>1. wsCalls = 0 /\ wsDue = {} /\ WsNoCloseOut BY <1>2, <1>4 DEF ClosesOnce, WsShut
  <2>2. wsDue' = {LoopThread} BY <1>1, <1>4, <2>1
  <2>3. Cardinality({LoopThread}) = 1 /\ IsFiniteSet({LoopThread}) BY FS_Singleton, Zenon
  <2>4. WsShutTyped' BY <1>1, <1>2, <2>2, <2>3, WsIsAll DEF WsShutTyped
  <2>5. WsActing' BY <1>1 DEF WsActing
  <2>6. wsCalls' + Cardinality(wsDue') = 1 BY <1>1, <2>1, <2>2, <2>3
  <2>7. ClosesOnce' BY <1>1, <2>1, <2>6 DEF ClosesOnce, WsNoCloseOut
  <2> QED BY <1>1, <2>4, <2>5, <2>7 DEF WsShut
<1> QED BY <1>3, <1>4

LEMMA WsQuietShuts == ASSUME WsShut, UNCHANGED wsVars PROVE WsShut' BY WsShutStays DEF wsVars, WsClientCloses

\* A WebSocket hands out the messages the client meant and closes once.
SocketKept == WsInv /\ WsShut

LEMMA SocketStarts == WsInit => SocketKept BY WsStarted, WsShutStarts DEF SocketKept

LEMMA SocketSteps == SocketKept /\ [WsNext]_wsVars => SocketKept'
<1> SUFFICES ASSUME WsInv, WsShut, [WsNext]_wsVars PROVE WsInv' /\ WsShut' BY DEF SocketKept
<1>1. CASE WsReceive BY <1>1, WsReceiveKeeps, WsReceiveShuts
<1>2. CASE WsInspect BY <1>2, WsInspectKeeps, WsInspectShuts
<1>3. CASE WsFail BY <1>3, WsFailKeeps, WsFailShuts
<1>4. CASE WsPong BY <1>4, WsPongKeeps, WsPongShuts
<1>5. CASE handle_close_frame BY <1>5, WsCloseFrameKeeps, WsCloseFrameShuts
<1>6. CASE deliver_message BY <1>6, WsDeliverKeeps, WsDeliverShuts
<1>7. CASE WsHandled BY <1>7, WsHandledKeeps, WsHandledShuts
<1>8. CASE handle_transport_closed BY <1>8, WsGoneKeeps, WsGoneShuts
<1>9. ASSUME NEW t \in WsThreads \cup {LoopThread}, send_frame(t) \/ WsClose(t) \/ CallCloseHandler(t)
      PROVE  WsInv' /\ WsShut'
  <2>1. t \in WsAll BY DEF WsAll
  <2> QED BY <1>9, <2>1, WsSendKeeps, WsCloseKeeps, WsCallKeeps, WsSendShuts, WsCloseShuts, WsCallShuts, Zenon
<1>10. CASE UNCHANGED wsVars BY <1>10, WsQuietKeeps, WsQuietShuts
<1> QED BY <1>1, <1>2, <1>3, <1>4, <1>5, <1>6, <1>7, <1>8, <1>9, <1>10 DEF WsNext

LEMMA SocketSound == SocketKept => MessagesIntact /\ ClosesOnce BY WsMessagesHold DEF SocketKept, WsShut

----
\* A step is one of a component, or leaves it alone.
LEMMA ComponentSteps ==
  ASSUME [MCNext]_MCVars
  PROVE  /\ [CtNext]_ctVars /\ [PaNext]_paVars /\ [IuNext]_iuVars /\ [IcNext]_icVars
         /\ [TlNext]_tlVars /\ [SkNext]_skVars /\ [WsNext]_wsVars /\ [H2Next]_h2Vars
         /\ [H3Next]_h3Vars /\ [QcNext]_qcVars /\ [RlNext]_rlVars /\ [UpNext]_upVars
         /\ [MpNext]_mpVars /\ [HpNext]_hpVars
<1>1. CASE UNCHANGED MCVars BY <1>1 DEF MCVars
<1>2. CASE MCNext BY <1>2, Zenon DEF MCNext, others
<1> QED BY <1>1, <1>2

----
\* Every operation handed to a proactor, whichever the platform's, is watched
\* for, woken up for and ends once; a descriptor has one owner while sockets
\* are created, bound, accepted and moved; a certificate that changed on disk
\* is noticed by a later reload (EpollProactor, KqueueProactor,
\* IoUringProactor, IocpProactor, Socket, TlsContext::reload).
THEOREM SystemKept == MCSpec => []SystemSound
<1> DEFINE Inv == PaInv /\ IuInv /\ IcInv /\ SkInv /\ TlInv
<1>1. MCInit => Inv BY PaStarted, IuStarted, IcStarted, SkStarted, TlStarted, Zenon DEF MCInit
<1>2. Inv /\ [MCNext]_MCVars => Inv' BY ComponentSteps, PaStep, IuStep, IcStep, SkStep, TlStep, Zenon
<1>3. Inv => SystemSound BY PaHolds, IuHolds, IcHolds, SkHolds, TlHolds, Zenon DEF SystemSound
<1> QED BY <1>1, <1>2, <1>3, PTL DEF MCSpec

\* A timeout removes the connection that armed it and no other, stays armed
\* until then and comes less than one wait of the loop late; and a connection
\* that waits for its client has the timeout of its phase armed
\* (Connection::arm_timer, arm_timer_for_current_phase, TimerManager).
THEOREM TimersKept == MCSpec => []TimersSound
<1> DEFINE Inv == CtInv /\ UpInv
<1>1. MCInit => Inv BY CtStarted, UpStarted, Zenon DEF MCInit
<1>2. Inv /\ [MCNext]_MCVars => Inv' BY ComponentSteps, CtStep, UpStays, Zenon
<1>3. Inv => TimersSound BY CtHolds, UpHolds, Zenon DEF TimersSound
<1> QED BY <1>1, <1>2, <1>3, PTL DEF MCSpec

\* A failure that escapes a coroutine is answered once and on its own request
\* unless the connection's reset overtook the report, and every close callback
\* runs once (ResponseWriter::report_async_exception, on_close, mark_closed).
THEOREM ResponsesKept == MCSpec => []ResponsesSound
<1>1. MCInit => RlInv BY RlStarted, Zenon DEF MCInit
<1>2. RlInv /\ [MCNext]_MCVars => RlInv' BY ComponentSteps, RlStep, Zenon
<1>3. RlInv => ResponsesSound BY RlHolds, Zenon DEF ResponsesSound
<1> QED BY <1>1, <1>2, <1>3, PTL DEF MCSpec

\* What a handler writes to an HTTP/2 stream is not left lying, a stream that
\* sleeps has nothing to send, a drain closes the connection only behind the
\* last stream, a file is closed once and every writer is told once of the end
\* (Http2Session::data_provider_read, send_pending, on_stream_close,
\* close_streams).
THEOREM Http2Kept == MCSpec => []Http2Sound
<1>1. MCInit => H2Inv BY H2Started, Zenon DEF MCInit
<1>2. H2Inv /\ [MCNext]_MCVars => H2Inv' BY ComponentSteps, H2Step, Zenon
<1>3. H2Inv => Http2Sound BY H2Holds, Zenon DEF Http2Sound
<1> QED BY <1>1, <1>2, <1>3, PTL DEF MCSpec

\* A packet finds the connection its id belongs to, and none once that one is
\* gone; the bytes of an HTTP/3 response live exactly as long as they may be
\* sent again, and outside send_pending_data() no response of an open
\* connection waits without a reason (QuicConnectionManager::sync_ids,
\* SentChunks::ack, QuicHttp3Session::read_data).
THEOREM Http3Kept == MCSpec => []Http3Sound
<1> DEFINE Inv == QcInv /\ H3Inv
<1>1. MCInit => Inv BY QcStarted, H3Started, Zenon DEF MCInit
<1>2. Inv /\ [MCNext]_MCVars => Inv' BY ComponentSteps, QcStep, H3Step, Zenon
<1>3. Inv => Http3Sound BY QcHolds, H3Holds, Zenon DEF Http3Sound
<1> QED BY <1>1, <1>2, <1>3, PTL DEF MCSpec

\* A WebSocket's handlers get the messages that the client meant, whole, once
\* and in order, however they were fragmented; and of all who may close it one
\* writes the close frame and calls the close handler
\* (WebSocketConnection::process_raw_data, deliver_message, close,
\* fail_connection, handle_close_frame, handle_transport_closed).
THEOREM SocketsKept == MCSpec => []SocketsSound
<1>1. MCInit => SocketKept BY SocketStarts, Zenon DEF MCInit
<1>2. SocketKept /\ [MCNext]_MCVars => SocketKept' BY ComponentSteps, SocketSteps, Zenon
<1>3. SocketKept => SocketsSound BY SocketSound, Zenon DEF SocketsSound
<1> QED BY <1>1, <1>2, <1>3, PTL DEF MCSpec

\* Whatever the peer sends, and wherever its bytes are cut, they are read whole
\* and once. Pipelined requests are reported as they were sent, in order, each
\* with its own body; the parser fails at the first request that breaks a limit
\* or the grammar and at no other, and a request that a coroutine holds keeps
\* its body (Http1Parser::feed, next, reset_message; HttpParser::parse). The
\* temporary files on disk are exactly those of the parts that were reported
\* and of the one being written; none is left behind by a part that is given up
\* (MultipartStreamParser::discard_current_part, close_current_part, fail,
\* receive_multipart). What follows an upgrade is handed to the protocol that
\* was agreed on, in order, each byte to one parser, however the reads of the
\* connection race the worker that upgrades it (Connection::on_read_complete,
\* process_request, continue_after_response).
THEOREM ReadKept == MCSpec => []ReadWhole
<1>1. MCInit => HpInv /\ MpInv /\ UpInv /\ UpWay BY HpStarts, MpStarts, UpStarted, UpWayInit, Zenon DEF MCInit
<1>2. HpInv /\ [MCNext]_MCVars => HpInv' BY ComponentSteps, HpSteps, Zenon
<1>3. MpInv /\ [MCNext]_MCVars => MpInv' BY ComponentSteps, MpSteps, Zenon
<1>4. UpInv /\ UpWay /\ [MCNext]_MCVars => UpInv' /\ UpWay' BY ComponentSteps, UpStays, UpWayStep, Zenon
<1>5. HpInv /\ MpInv /\ UpInv /\ UpWay => ReadWhole BY HpHolds, MpHolds, UpWaySays, Zenon DEF ReadWhole
<1> QED BY <1>1, <1>2, <1>3, <1>4, <1>5, PTL DEF MCSpec

====
