---- MODULE Multipart ----
\* Multipart bodies: the streaming parser with its temporary files
\* (MultipartStreamParser.cpp), receive_multipart on top of it, and the parser
\* of a whole body (MultipartForm.cpp). Characters are symbols, the headers of
\* a part one symbol; the chunks in which a body arrives are cut anywhere.
EXTENDS Naturals, Sequences, FiniteSets

CONSTANTS MpBodies,      \* bodies a client may send
          MpHeaders,     \* what parse_headers finds in a header symbol: name and filename
          MpMaxTotal, MpMaxParts, MpMaxFile, MpMaxField, MpMaxHeaders  \* MultipartLimits, and 8192

ASSUME MpAssumption == \A b \in MpBodies : b \in Seq({b[i] : i \in DOMAIN b})

dash_boundary == <<"-", "-", "b">>
CRLF == <<"\r", "\n">>
boundary_sig == CRLF \o dash_boundary
header_end == CRLF \o CRLF
NoPart == [name |-> "", filename |-> ""]
NoFile == 0

VARIABLES mpBody,    \* the body
          mpFed,     \* how much of it has been fed
          mpParser,  \* the members of MultipartStreamParser
          mpDisk,    \* the temporary files that exist
          mpUpload,  \* the MultipartUpload: the parts that were reported
          mpEnd      \* "open", what on_complete was told, or "gone" when the connection ended first

mpVars == <<mpBody, mpFed, mpParser, mpDisk, mpUpload, mpEnd>>

MpInit ==
  /\ mpBody \in MpBodies /\ mpFed = 0
  /\ mpParser = [state |-> "FINDING_BOUNDARY", buffer |-> << >>, part |-> NoPart, value |-> << >>, fd |-> NoFile, tmp |-> NoFile,
                 total |-> 0, parts |-> 0, failed |-> FALSE, finished |-> FALSE, disk |-> {}, out |-> << >>]
  /\ mpDisk = {} /\ mpUpload = << >> /\ mpEnd = "open"

\* The first place of pattern in s, or 0.
find(s, pattern) ==
  LET at == {i \in 1 .. Len(s) + 1 - Len(pattern) : SubSeq(s, i, i + Len(pattern) - 1) = pattern}
  IN IF at = {} THEN 0 ELSE CHOOSE i \in at : \A j \in at : i <= j
erase(s, n) == SubSeq(s, n + 1, Len(s))

\* p.disk and p.out are the files on disk and the parts reported so far.
discard_current_part(p) ==
  [p EXCEPT !.fd = NoFile, !.disk = @ \ {p.tmp}, !.tmp = NoFile, !.part = NoPart, !.value = << >>]

fail(p) == [discard_current_part([p EXCEPT !.failed = TRUE]) EXCEPT !.buffer = << >>]

\* Mutant: what is written next takes the place of what was written.
append_body_Over(p, data, disk_ok) ==
  LET value == p.value \o data
      limit == IF p.fd # NoFile THEN MpMaxFile ELSE MpMaxField
  IN IF Len(value) > limit \/ (p.fd # NoFile /\ data # << >> /\ ~disk_ok) THEN fail(p) ELSE [p EXCEPT !.value = data]

\* disk_ok: whether files can be created and written.
append_body(p, data, disk_ok) ==
  LET value == p.value \o data
      limit == IF p.fd # NoFile THEN MpMaxFile ELSE MpMaxField
  IN IF Len(value) > limit \/ (p.fd # NoFile /\ data # << >> /\ ~disk_ok) THEN fail(p) ELSE [p EXCEPT !.value = value]

\* Mutant: a file without a name is forgotten.
close_current_part_Leaks(p) ==
  LET file == p.fd # NoFile
      reported == p.part.name # ""
  IN discard_current_part([p EXCEPT !.tmp = NoFile,
       !.out = IF reported THEN Append(@, [part |-> p.part, value |-> p.value, file |-> p.fd]) ELSE @])

\* A part with a name goes to the callback, and a file then belongs to the
\* application; a file without a name is removed.
close_current_part(p) ==
  LET file == p.fd # NoFile
      reported == p.part.name # ""
  IN discard_current_part([p EXCEPT !.tmp = IF reported THEN NoFile ELSE @,
       !.out = IF reported THEN Append(@, [part |-> p.part, value |-> p.value, file |-> p.fd]) ELSE @])

\* The files of parts that were reported; NoFile stands for a part that is a field.
FilesOf(out) == {out[i].file : i \in DOMAIN out}

open_temp_file(p, disk_ok) ==
  LET f == p.parts  \* a name nobody else has
  IN IF disk_ok THEN [p EXCEPT !.fd = f, !.tmp = f, !.disk = @ \cup {f}] ELSE fail(p)

\* One round of the loop of process_buffer; .wait says that it left the loop.
FindBoundary(p) ==
  LET pos == find(p.buffer, dash_boundary)
      rest == erase(p.buffer, pos - 1 + Len(dash_boundary))
  IN IF pos = 0
     THEN [wait |-> TRUE, p |-> [p EXCEPT !.buffer = IF Len(@) > Len(dash_boundary) THEN erase(@, Len(@) - Len(dash_boundary)) ELSE @]]
     ELSE CASE Len(rest) < 2 -> [wait |-> TRUE, p |-> [p EXCEPT !.buffer = rest]]
            [] Len(rest) >= 2 /\ SubSeq(rest, 1, 2) = <<"-", "-">> -> [wait |-> TRUE, p |-> [p EXCEPT !.buffer = << >>, !.finished = TRUE]]
            [] Len(rest) >= 2 /\ SubSeq(rest, 1, 2) = CRLF -> [wait |-> FALSE, p |-> [p EXCEPT !.buffer = erase(rest,
                  2), !.state = "READING_HEADERS"]]
            [] OTHER -> [wait |-> FALSE, p |-> [p EXCEPT !.buffer = erase(rest, 2)]]

ReadHeaders(p, disk_ok) ==
  LET pos == find(p.buffer, header_end)
      part == MpHeaders[p.buffer[1]]
      q == [p EXCEPT !.parts = @ + 1, !.part = part, !.buffer = erase(@, pos + 3), !.value = << >>, !.state = "READING_BODY"]
  IN CASE pos = 0 -> [wait |-> TRUE, p |-> IF Len(p.buffer) > MpMaxHeaders THEN fail(p) ELSE p]
       [] pos > 0 /\ p.parts + 1 > MpMaxParts -> [wait |-> TRUE, p |-> fail([p EXCEPT !.parts = @ + 1])]
       [] OTHER -> [wait |-> FALSE, p |-> IF part.filename # "" THEN open_temp_file(q, disk_ok) ELSE q]

ReadBody(p, disk_ok) ==
  LET pos == find(p.buffer, boundary_sig)
      safe == Len(p.buffer) - Len(boundary_sig)
      whole == append_body(p, SubSeq(p.buffer, 1, pos - 1), disk_ok)
      some == append_body(p, SubSeq(p.buffer, 1, safe), disk_ok)
  IN CASE pos > 0 -> [wait |-> FALSE, p |-> IF whole.failed THEN whole
                        ELSE [close_current_part(whole) EXCEPT !.buffer = erase(@, pos + 1), !.state = "FINDING_BOUNDARY"]]
       [] pos = 0 /\ safe > 0 -> [wait |-> TRUE, p |-> IF some.failed THEN some ELSE [some EXCEPT !.buffer = erase(@, safe)]]
       [] OTHER -> [wait |-> TRUE, p |-> p]

Round(r, disk_ok) ==
  IF r.wait \/ r.p.buffer = << >> \/ r.p.failed THEN r
  ELSE CASE r.p.state = "FINDING_BOUNDARY" -> FindBoundary(r.p)
         [] r.p.state = "READING_HEADERS" -> ReadHeaders(r.p, disk_ok)
         [] r.p.state = "READING_BODY" -> ReadBody(r.p, disk_ok)

\* Every round that does not leave the loop takes something from the buffer.
process_buffer(p, disk_ok) ==
  LET after[n \in 0 .. Len(p.buffer)] ==
        IF n = 0 THEN [wait |-> FALSE, p |-> p] ELSE Round(after[n - 1], disk_ok)
  IN after[Len(p.buffer)].p

feed(p, chunk, disk_ok) ==
  LET q == [p EXCEPT !.total = @ + Len(chunk), !.buffer = @ \o chunk]
  IN CASE p.failed -> p
       [] ~p.failed /\ q.total > MpMaxTotal -> fail([p EXCEPT !.total = q.total])
       [] OTHER -> process_buffer(q, disk_ok)

\* read_body_stream's callbacks in receive_multipart.
Feed(n, disk_ok) ==
  /\ mpEnd = "open"
  /\ mpParser' = feed(mpParser, SubSeq(mpBody, mpFed + 1, mpFed + n), disk_ok)
  /\ mpFed' = mpFed + n
  /\ mpDisk' = mpParser'.disk /\ mpUpload' = mpParser'.out
  /\ UNCHANGED <<mpBody, mpEnd>>

\* end(), and what on_complete gets: a failed or incomplete upload is discarded.
End ==
  LET p == IF mpParser.failed THEN mpParser ELSE discard_current_part(process_buffer(mpParser, TRUE))
      ok == ~p.failed /\ p.finished
  IN /\ mpEnd = "open" /\ mpFed = Len(mpBody)
     /\ mpEnd' = IF ok THEN "complete" ELSE "failed"
     /\ mpUpload' = IF ok THEN p.out ELSE << >>
     /\ mpDisk' = IF ok THEN p.disk ELSE p.disk \ FilesOf(p.out)
     /\ mpParser' = p
     /\ UNCHANGED <<mpBody, mpFed>>

\* The connection ends before the body does: the parser is destroyed, and the
\* files that were reported are the application's.
Gone ==
  /\ mpEnd = "open" /\ mpFed < Len(mpBody)
  /\ mpParser' = discard_current_part(mpParser) /\ mpDisk' = mpParser'.disk /\ mpEnd' = "gone"
  /\ UNCHANGED <<mpBody, mpFed, mpUpload>>

MpNext ==
  \/ \E n \in 1 .. Len(mpBody) - mpFed, disk_ok \in BOOLEAN : Feed(n, disk_ok)
  \/ End \/ Gone

MpSpec == MpInit /\ [][MpNext]_mpVars

----
\* MultipartForm::parse: every stretch between two delimiters is a part.
FormPart(rest) ==
  LET next == find(rest, dash_boundary)
      from == IF Len(rest) >= 2 /\ SubSeq(rest, 1, 2) = CRLF THEN 3 ELSE 1
      to == IF next > 2 /\ SubSeq(rest, next - 2, next - 1) = CRLF THEN next - 3 ELSE next - 1
      text == SubSeq(rest, from, to)
      headers == find(text, header_end)
      part == MpHeaders[text[1]]
  IN IF headers > 0 /\ (part.name # "" \/ part.filename # "") THEN <<[part |-> part, value |-> erase(text, headers + 3)]>>
     ELSE << >>

\* The parts of the body behind its first n characters, where a delimiter ends.
parse(body) ==
  LET behind[n \in 0 .. Len(body)] ==
        LET rest == erase(body, n)
            next == find(rest, dash_boundary)
            after == erase(rest, next + 2)
        IN CASE next = 0 -> << >>
             [] next > 0 /\ Len(after) >= 2 /\ SubSeq(after, 1, 2) = <<"-", "-">> -> FormPart(rest)
             [] OTHER -> FormPart(rest) \o behind[n + next + 2]
      pos == find(body, dash_boundary)
  IN IF pos = 0 THEN << >> ELSE behind[pos + 2]

----
MpTypeOK == mpFed \in 0 .. Len(mpBody) /\ mpParser.total \in 0 .. mpFed /\ mpEnd \in {"open", "complete", "failed", "gone"}

Reported(out) == [i \in DOMAIN out |-> [part |-> out[i].part, value |-> out[i].value]]
Named(parts) == SelectSeq(parts, LAMBDA x : x.part.name # "")

\* One sequence is what is left of another when some elements are left out.
SubsequenceOf(s, t) ==
  \E at \in [DOMAIN s -> DOMAIN t] :
    \A i \in DOMAIN s : s[i] = t[at[i]] /\ \A j \in DOMAIN s : i < j => at[i] < at[j]

\* Wherever chunks are cut, whatever fails on disk and whenever the connection
\* ends: a part that is reported is a whole part of the body, as the parser of
\* whole bodies sees it, and parts are reported in their order
\* (MultipartStreamParser.cpp:285-306, 355-370).
PartsIntact == SubsequenceOf(Reported(mpUpload), Named(parse(mpBody)))

\* The temporary files are exactly those that were reported and the one being
\* written, each of one part, so none is left behind by a failure, by a part
\* without a name or by a connection that ends, and a failed upload has none
\* at all (MultipartStreamParser.cpp:160-163, 192-207, 338-370).
FilesAccounted ==
  /\ mpDisk = (FilesOf(mpUpload) \cup {mpParser.fd}) \ {NoFile}
  /\ mpEnd # "open" => mpParser.fd = NoFile
  /\ mpEnd = "failed" => mpDisk = {}
  /\ \A i, j \in DOMAIN mpUpload : mpUpload[i].file = mpUpload[j].file /\ i # j => mpUpload[i].file = NoFile

\* "True once the closing boundary has been seen without a failure": an upload
\* that reached its closing boundary within the limits is complete, with every
\* part (MultipartStreamParser.hpp:77, complete()).
ClosingSeen ==
  mpEnd \in {"complete", "failed"} /\ ~mpParser.failed /\ find(mpBody, boundary_sig \o <<"-", "-">>) > 0 =>
    mpEnd = "complete" /\ Reported(mpUpload) = Named(parse(mpBody))
====
