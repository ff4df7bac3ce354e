----------------------------- MODULE MigrationProofs -----------------------------
(***************************************************************************)
(* Theorems about Migration, for any rows, columns, batch size and texts   *)
(* and any number of interruptions.                                        *)
(*                                                                         *)
(* TypeOK and MarkedIsMigrated are not inductive. Done says what the walk  *)
(* has behind it: earlier passes of every row, the finished columns of the *)
(* current pass, and in the column it is in the rows up to the last id it  *)
(* read. Filled says that a further back-fill would change nothing.        *)
(***************************************************************************)
EXTENDS Migration, TLAPS

Treated(i, c) == c \notin todo \/ (col = c /\ i <= last)

Filled(row) ==
  /\ row.client = 0 \/ row.upstream = 0 => row.status = 0
  /\ Unfilled(row) => \A c \in DOMAIN FilledFrom :
                        Blank(row, c) => row.cell[FilledFrom[c]].text = ""

\* The columns of the current pass, and what it promises for each.
PassColumns == CASE pc = "scrub" -> HeaderColumns
                 [] pc = "compress" -> CapturedColumns
                 [] pc = "normalize" -> {StartedAt}
                 [] OTHER -> {}

CompactCell(v) == compressed(v) \/ v.text \notin Shrinks

ColumnDone(row, c) == /\ pc = "scrub" => row.cell[c].text \notin Credentials
                      /\ pc = "compress" => CompactCell(row.cell[c])
                      /\ pc = "normalize" => Normal(row)

Settled(row) ==
  /\ pc \in Passes \cup {"mark"} => Filled(row)
  /\ pc \in {"compress", "normalize", "mark"} => Scrubbed(row)
  /\ pc \in {"normalize", "mark"} => Compact(row)
  /\ pc = "mark" => Normal(row)

NothingAbsent(row) == \A c \in HeaderColumns \cup CapturedColumns :
                        c \notin present => row.cell[c].text = ""

RowDone(i, row) ==
  /\ Meets(row, version)
  /\ Settled(row)
  /\ NothingAbsent(row)
  /\ \A c \in PassColumns : Treated(i, c) => ColumnDone(row, c)

Done == \A i \in DOMAIN rows : RowDone(i, rows[i])

Versions == /\ pc = "up" => version = 4
            /\ pc \in Passes \cup {"fill", "mark"} => version < 4
            /\ present = {} \/ CapturedColumns \ AddedColumns \subseteq present
            /\ pc \notin {"down", "alter"} => CapturedColumns \subseteq present
            /\ todo \subseteq PassColumns

IInv == TypeOK /\ Versions /\ Done
-------------------------------------------------------------------------------
(***************************************************************************)
(* What no pass changes about a row.                                       *)
(***************************************************************************)
CellColumns == HeaderColumns \cup CapturedColumns

SameCell(v, w) == /\ w = EmptyText <=> v = EmptyText
                  /\ w.text = "" <=> v.text = ""
                  /\ Redacted[w.text] = Redacted[v.text]
                  /\ v.text \notin Credentials => w.text \notin Credentials
                  /\ CompactCell(v) => CompactCell(w)

Same(row, r) ==
  /\ r.status = row.status /\ r.client = row.client /\ r.upstream = row.upstream
  /\ r.at.text = row.at.text
  /\ Normal(row) => Normal(r)
  /\ \A c \in CellColumns : /\ SameCell(row.cell[c], r.cell[c])
                            /\ c \notin HeaderColumns => r.cell[c].text = row.cell[c].text

(***************************************************************************)
(* The three passes, cell by cell.                                         *)
(***************************************************************************)
LEMMA TextFacts ==
  /\ "" \in Texts /\ "" \notin Credentials /\ "" \notin Shrinks
  /\ \A t \in Texts : /\ Redacted[t] \in Texts
                      /\ Redacted[t] \notin Credentials
                      /\ t \notin Credentials => Redacted[t] = t
                      /\ Redacted[t] = "" => t = ""
  /\ Redacted[""] = ""
BY MigrationAssumption

LEMMA CellFacts == ASSUME NEW v \in Cell PROVE v.text \in Texts
<1>1. CASE v = EmptyText \/ v = EmptyBlob
  <2>1. EmptyText.text = "" /\ EmptyBlob.text = ""
    BY DEF EmptyText, EmptyBlob
  <2>. QED
    BY <1>1, <2>1, TextFacts
<1>2. CASE v \in [form : {"plain", "gzip", "prefixed"}, text : Texts \ {""}]
  BY <1>2
<1>. QED
  BY <1>1, <1>2 DEF Cell

LEMMA EmptyTextSaysNothing == EmptyText.text = ""
BY DEF EmptyText

LEMMA GzipCell == ASSUME NEW t \in Texts, t # ""
                  PROVE  /\ gzip(t) \in Cell
                         /\ gzip(t) # EmptyText
                         /\ gzip(t).text = t
                         /\ CompactCell(gzip(t))
BY DEF Cell, gzip, EmptyText, CompactCell, compressed

LEMMA ScrubCell == ASSUME NEW v \in Cell
                   PROVE  /\ scrub(v) \in Cell
                          /\ SameCell(v, scrub(v))
                          /\ scrub(v).text \notin Credentials
<1>1. v.text \in Texts
  BY CellFacts
<1>2. CASE Redacted[v.text] = v.text
  BY <1>1, <1>2, TextFacts DEF scrub, RedactStoredHeaders, SameCell
<1>3. CASE Redacted[v.text] # v.text
  <2>1. v.text # "" /\ Redacted[v.text] # "" /\ Redacted[v.text] \in Texts
    BY <1>1, <1>3, TextFacts
  <2>2. scrub(v) = gzip(Redacted[v.text])
    BY <1>3 DEF scrub, RedactStoredHeaders
  <2>3. v # EmptyText
    BY <2>1, EmptyTextSaysNothing
  <2>. QED
    <3>1. /\ scrub(v) \in Cell
          /\ scrub(v) # EmptyText
          /\ scrub(v).text = Redacted[v.text]
          /\ CompactCell(scrub(v))
      BY <2>1, <2>2, GzipCell
    <3>. QED
      BY <1>1, <2>1, <2>3, <3>1, TextFacts DEF SameCell
<1>. QED
  BY <1>2, <1>3

LEMMA CompressCell == ASSUME NEW v \in Cell
                      PROVE  /\ compress(v) \in Cell
                             /\ SameCell(v, compress(v))
                             /\ CompactCell(compress(v))
                             /\ compress(v).text = v.text
<1>1. v.text \in Texts
  BY CellFacts
<1>2. CASE CompactCell(v)
  BY <1>1, <1>2, TextFacts DEF compress, CompactCell, SameCell
<1>3. CASE ~CompactCell(v)
  <2>1. v.text # "" /\ v.form \notin {"gzip", "prefixed"}
    BY <1>1, <1>3, TextFacts DEF CompactCell, compressed
  <2>2. compress(v) = gzip(v.text)
    BY <1>3, <2>1 DEF compress, CompactCell, gzipBytes
  <2>3. v # EmptyText
    BY <2>1, EmptyTextSaysNothing
  <2>. QED
    BY ZenonT(30), <1>1, <2>1, <2>2, <2>3, GzipCell, TextFacts DEF SameCell
<1>. QED
  BY <1>2, <1>3

LEMMA SameCellReflexive == ASSUME NEW v \in Cell PROVE SameCell(v, v)
BY DEF SameCell
-------------------------------------------------------------------------------
(***************************************************************************)
(* Rows.                                                                   *)
(***************************************************************************)
RowSame(row, r) == r \in Row /\ Same(row, r)

LEMMA ColumnFacts ==
  /\ Columns \ {StartedAt} = CellColumns
  /\ DOMAIN FilledFrom = {"upstream_response_headers", "upstream_response_body"}
  /\ \A c \in DOMAIN FilledFrom : /\ c \in CellColumns
                                  /\ c \in CapturedColumns
                                  /\ FilledFrom[c] \in CellColumns
                                  /\ FilledFrom[c] \notin DOMAIN FilledFrom
                                  /\ FilledFrom[c] \in CapturedColumns
                                  /\ c \in HeaderColumns <=> FilledFrom[c] \in HeaderColumns
<1>1. Columns \ {StartedAt} = CellColumns
  <2>1. StartedAt \notin HeaderColumns \cup CapturedColumns
    BY MigrationAssumption
  <2>. QED
    BY <2>1 DEF Columns, CellColumns
<1>2. DOMAIN FilledFrom = {"upstream_response_headers", "upstream_response_body"}
  BY DEF FilledFrom
<1>3. /\ {"upstream_response_headers", "response_headers"} \subseteq HeaderColumns
      /\ {"upstream_response_headers", "response_headers"} \subseteq CapturedColumns
      /\ {"upstream_response_body", "response_body"} \subseteq CapturedColumns
      /\ {"upstream_response_body", "response_body"} \cap HeaderColumns = {}
  <2>1. /\ {"upstream_response_headers", "response_headers"} \subseteq HeaderColumns \cap CapturedColumns
        /\ {"upstream_response_body", "response_body"} \subseteq CapturedColumns \ HeaderColumns
    BY MigrationAssumption
  <2>. QED
    BY <2>1
<1>4. /\ FilledFrom["upstream_response_headers"] = "response_headers"
      /\ FilledFrom["upstream_response_body"] = "response_body"
  BY DEF FilledFrom
<1>. QED
  BY <1>1, <1>2, <1>3, <1>4 DEF CellColumns

LEMMA RowFacts == ASSUME NEW row \in Row
                  PROVE  /\ row.status \in Codes /\ row.client \in Codes /\ row.upstream \in Codes
                         /\ row.at \in Timestamp
                         /\ row.cell \in [CellColumns -> Cell]
                         /\ \A c \in CellColumns : row.cell[c] \in Cell /\ row.cell[c].text \in Texts
BY ColumnFacts, CellFacts DEF Row

(***************************************************************************)
(* A row with one cell rewritten.                                          *)
(***************************************************************************)
LEMMA WithCell == ASSUME NEW row \in Row, NEW c \in CellColumns, NEW w \in Cell,
                         SameCell(row.cell[c], w),
                         c \in HeaderColumns \/ w.text = row.cell[c].text
                  PROVE  LET r == [row EXCEPT !.cell[c] = w]
                         IN  /\ RowSame(row, r)
                             /\ r.cell[c] = w
                             /\ \A d \in CellColumns : d # c => r.cell[d] = row.cell[d]
                             /\ r.at = row.at
<1>. DEFINE r == [row EXCEPT !.cell[c] = w]
<1>1. /\ r.status = row.status /\ r.client = row.client /\ r.upstream = row.upstream
      /\ r.at = row.at
      /\ r.cell = [row.cell EXCEPT ![c] = w]
  BY DEF Row
<1>2. r \in Row
  BY ColumnFacts DEF Row
<1>3. r.cell[c] = w /\ \A d \in CellColumns : d # c => r.cell[d] = row.cell[d]
  BY <1>1, RowFacts
<1>4. Same(row, r)
  BY <1>1, <1>3, RowFacts, SameCellReflexive DEF Same, Normal
<1>. QED
  BY <1>1, <1>2, <1>3, <1>4 DEF RowSame

LEMMA SameReflexive == ASSUME NEW row \in Row PROVE RowSame(row, row)
BY RowFacts, SameCellReflexive DEF RowSame, Same

LEMMA ScrubRow == ASSUME NEW row \in Row, NEW c \in HeaderColumns, pc = "scrub"
                  PROVE  /\ RowSame(row, rewrite(row, c))
                         /\ rewrite(row, c).cell[c].text \notin Credentials
                         /\ \A d \in CellColumns : d # c => rewrite(row, c).cell[d] = row.cell[d]
<1>. DEFINE w == scrub(row.cell[c])
<1>1. c \in CellColumns /\ row.cell[c] \in Cell
  BY RowFacts DEF CellColumns
<1>2. w \in Cell /\ SameCell(row.cell[c], w) /\ w.text \notin Credentials
  BY <1>1, ScrubCell
<1>3. rewrite(row, c) = [row EXCEPT !.cell[c] = w]
  BY DEF rewrite
<1>. HIDE DEF w
<1>. QED
  BY <1>1, <1>2, <1>3, WithCell

LEMMA CompressRow == ASSUME NEW row \in Row, NEW c \in CapturedColumns, pc = "compress"
                     PROVE  /\ RowSame(row, rewrite(row, c))
                            /\ CompactCell(rewrite(row, c).cell[c])
                            /\ \A d \in CellColumns : d # c => rewrite(row, c).cell[d] = row.cell[d]
<1>. DEFINE w == compress(row.cell[c])
<1>1. c \in CellColumns /\ row.cell[c] \in Cell
  BY RowFacts DEF CellColumns
<1>2. /\ w \in Cell /\ SameCell(row.cell[c], w) /\ CompactCell(w)
      /\ w.text = row.cell[c].text
  BY <1>1, CompressCell
<1>3. rewrite(row, c) = [row EXCEPT !.cell[c] = w]
  BY DEF rewrite
<1>. HIDE DEF w
<1>. QED
  BY <1>1, <1>2, <1>3, WithCell

LEMMA NormalizeRow == ASSUME NEW row \in Row, NEW c, pc = "normalize"
                      PROVE  /\ RowSame(row, rewrite(row, c))
                             /\ Normal(rewrite(row, c))
<1>. DEFINE w == normalize(row.at)
            r == [row EXCEPT !.at = w]
<1>1. row.at \in Timestamp
  BY RowFacts
<1>2. w \in Timestamp /\ w.form # "other" /\ w.text = row.at.text
  BY <1>1 DEF Timestamp, normalize
<1>3. rewrite(row, c) = r
  BY DEF rewrite
<1>. HIDE DEF w
<1>4. /\ r.status = row.status /\ r.client = row.client /\ r.upstream = row.upstream
      /\ r.at = w
      /\ r.cell = row.cell
  BY DEF Row
<1>5. r \in Row
  BY <1>2 DEF Row
<1>6. Same(row, r) /\ Normal(r)
  BY <1>2, <1>4, RowFacts, SameCellReflexive DEF Same, Normal
<1>. QED
  BY <1>3, <1>5, <1>6 DEF RowSame

(***************************************************************************)
(* A pass finishes the column it rewrites and leaves the others as done as *)
(* they were; what its WHERE leaves out needs nothing.                     *)
(***************************************************************************)
LEMMA PassRow == ASSUME NEW row \in Row, pc \in Passes, NEW c \in PassColumns
                 PROVE  /\ RowSame(row, rewrite(row, c))
                        /\ ColumnDone(rewrite(row, c), c)
                        /\ \A d \in PassColumns :
                             d # c /\ ColumnDone(row, d) => ColumnDone(rewrite(row, c), d)
                        /\ ~Selected(row, c) => ColumnDone(row, c)
<1>1. CASE pc = "scrub"
  <2>1. PassColumns = HeaderColumns /\ HeaderColumns \subseteq CellColumns
    BY <1>1 DEF PassColumns, CellColumns
  <2>2. ~Selected(row, c) => row.cell[c].text \notin Credentials
    BY <1>1, EmptyTextSaysNothing, TextFacts DEF Selected
  <2>. QED
    BY <1>1, <2>1, <2>2, ScrubRow DEF ColumnDone
<1>2. CASE pc = "compress"
  <2>1. PassColumns = CapturedColumns /\ CapturedColumns \subseteq CellColumns
    BY <1>2 DEF PassColumns, CellColumns
  <2>2. ~Selected(row, c) => CompactCell(row.cell[c])
    BY <1>2, TextFacts DEF Selected, CompactCell
  <2>. QED
    BY <1>2, <2>1, <2>2, CompressRow DEF ColumnDone
<1>3. CASE pc = "normalize"
  <2>1. PassColumns = {StartedAt}
    BY <1>3 DEF PassColumns
  <2>2. ~Selected(row, c) => Normal(row)
    BY <1>3 DEF Selected, Normal
  <2>. QED
    BY <1>3, <2>1, <2>2, NormalizeRow DEF ColumnDone
<1>. QED
  BY <1>1, <1>2, <1>3 DEF Passes

(***************************************************************************)
(* What holds of a row holds of one that is the same but for its forms.    *)
(***************************************************************************)
LEMMA SameKeeps == ASSUME NEW row \in Row, NEW r, RowSame(row, r)
                   PROVE  /\ Filled(row) => Filled(r)
                          /\ Scrubbed(row) => Scrubbed(r)
                          /\ Compact(row) => Compact(r)
                          /\ Normal(row) => Normal(r)
                          /\ NothingAbsent(row) => NothingAbsent(r)
                          /\ Unfilled(r) = Unfilled(row)
                          /\ \A c \in CellColumns : Blank(r, c) = Blank(row, c)
<1>1. /\ r.status = row.status /\ r.client = row.client /\ r.upstream = row.upstream
  BY DEF RowSame, Same
<1>7. \A c \in CellColumns : SameCell(row.cell[c], r.cell[c])
  BY DEF RowSame, Same, SameCell
<1>8. Normal(row) => Normal(r)
  BY DEF RowSame, Same
<1>2. Unfilled(r) = Unfilled(row)
  BY <1>1 DEF Unfilled
<1>3. \A c \in CellColumns : Blank(r, c) = Blank(row, c)
  BY <1>7 DEF Blank, SameCell
<1>4. Filled(row) => Filled(r)
  <2>1. ASSUME NEW c \in DOMAIN FilledFrom
        PROVE  /\ Blank(r, c) = Blank(row, c)
               /\ r.cell[FilledFrom[c]].text = "" <=> row.cell[FilledFrom[c]].text = ""
    <3>1. c \in CellColumns /\ FilledFrom[c] \in CellColumns
      BY ColumnFacts
    <3>. QED
      BY <3>1, <1>3, <1>7 DEF SameCell
  <2>. QED
    BY <1>1, <1>2, <2>1 DEF Filled
<1>5. /\ Scrubbed(row) => Scrubbed(r)
      /\ NothingAbsent(row) => NothingAbsent(r)
  BY <1>7 DEF Scrubbed, NothingAbsent, CellColumns, SameCell
<1>6. Compact(row) => Compact(r)
  BY <1>7 DEF Compact, CompactCell, CellColumns, SameCell
<1>. QED
  BY <1>2, <1>3, <1>4, <1>5, <1>6, <1>8

-------------------------------------------------------------------------------
(***************************************************************************)
(* What a reader sees of a row, with its parts named.                      *)
(***************************************************************************)
SeenCode(v, row, n) == IF v < 4 /\ n = 0 THEN row.status ELSE n

FilledText(v, row, c) ==
  IF v < 4 /\ Unfilled(row) /\ c \in DOMAIN FilledFrom /\ Blank(row, c)
    THEN row.cell[FilledFrom[c]].text ELSE row.cell[c].text

SeenText(v, row, c) ==
  IF v < 4 /\ c \in HeaderColumns THEN Redacted[FilledText(v, row, c)]
                                  ELSE FilledText(v, row, c)

LEMMA SeenParts == ASSUME NEW v, NEW row \in Row
                   PROVE  Seen(v, row) = [client |-> SeenCode(v, row, row.client),
                                          upstream |-> SeenCode(v, row, row.upstream),
                                          at |-> row.at.text,
                                          text |-> [c \in CellColumns |-> SeenText(v, row, c)]]
<1>1. DOMAIN row.cell = CellColumns
  BY RowFacts
<1>. QED
  BY <1>1 DEF Seen, SeenCode, SeenText, FilledText

LEMMA SameSeen == ASSUME NEW v, NEW row \in Row, NEW r, RowSame(row, r), v < 4
                  PROVE  Seen(v, r) = Seen(v, row)
<1>1. /\ r.status = row.status /\ r.client = row.client /\ r.upstream = row.upstream
      /\ r.at.text = row.at.text
      /\ r \in Row
  BY DEF RowSame, Same
<1>2. ASSUME NEW c \in CellColumns
      PROVE  /\ Redacted[r.cell[c].text] = Redacted[row.cell[c].text]
             /\ c \notin HeaderColumns => r.cell[c].text = row.cell[c].text
  BY DEF RowSame, Same, SameCell
<1>3. ASSUME NEW c \in CellColumns
      PROVE  SeenText(v, r, c) = SeenText(v, row, c)
  <2>1. Unfilled(r) = Unfilled(row) /\ Blank(r, c) = Blank(row, c)
    BY SameKeeps
  <2>2. CASE Unfilled(row) /\ c \in DOMAIN FilledFrom /\ Blank(row, c)
    <3>1. /\ FilledFrom[c] \in CellColumns
          /\ c \in HeaderColumns <=> FilledFrom[c] \in HeaderColumns
      BY <2>2, ColumnFacts
    <3>2. /\ FilledText(v, r, c) = r.cell[FilledFrom[c]].text
          /\ FilledText(v, row, c) = row.cell[FilledFrom[c]].text
      BY <2>1, <2>2 DEF FilledText
    <3>. QED
      BY <1>2, <3>1, <3>2 DEF SeenText
  <2>3. CASE ~(Unfilled(row) /\ c \in DOMAIN FilledFrom /\ Blank(row, c))
    <3>1. /\ FilledText(v, r, c) = r.cell[c].text
          /\ FilledText(v, row, c) = row.cell[c].text
      BY <2>1, <2>3 DEF FilledText
    <3>. QED
      BY <1>2, <3>1 DEF SeenText
  <2>. QED
    BY <2>2, <2>3
<1>. QED
  BY <1>1, <1>3, SeenParts DEF SeenCode

(***************************************************************************)
(* The back-fill.                                                          *)
(***************************************************************************)
LEMMA FillInRow == ASSUME NEW v, NEW row \in Row, v < 4
                   PROVE  /\ fillIn(row) \in Row
                          /\ Seen(v, fillIn(row)) = Seen(v, row)
                          /\ Filled(fillIn(row))
                          /\ Compact(row) => Compact(fillIn(row))
                          /\ \A c \in CellColumns : c \notin DOMAIN FilledFrom =>
                               fillIn(row).cell[c] = row.cell[c]
<1>. DEFINE r == fillIn(row)
            From(c) == c \in DOMAIN FilledFrom /\ Blank(row, c)
<1>1. CASE ~Unfilled(row)
  BY <1>1 DEF fillIn, Filled, Unfilled
<1>2. CASE Unfilled(row)
  <2>1. /\ r.status = row.status
        /\ r.client = IF row.client = 0 THEN row.status ELSE row.client
        /\ r.upstream = IF row.upstream = 0 THEN row.status ELSE row.upstream
        /\ r.at = row.at
        /\ r.cell = [c \in CellColumns |-> IF From(c) THEN row.cell[FilledFrom[c]]
                                                      ELSE row.cell[c]]
    BY <1>2, RowFacts DEF fillIn, Row
  <2>2. \A c \in DOMAIN FilledFrom : c \in CellColumns /\ FilledFrom[c] \in CellColumns
    BY ColumnFacts
  <2>3. r.cell \in [CellColumns -> Cell]
    BY <2>1, <2>2, RowFacts
  <2>4. r \in Row
    <3>1. r = [row EXCEPT !.client = r.client, !.upstream = r.upstream, !.cell = r.cell]
      BY <1>2, <2>1 DEF fillIn, Row
    <3>2. r.client \in Codes /\ r.upstream \in Codes
      BY <2>1, RowFacts
    <3>. QED
      BY <3>1, <3>2, <2>3, ColumnFacts DEF Row
  <2>5. ASSUME NEW c \in DOMAIN FilledFrom
        PROVE  /\ r.cell[FilledFrom[c]] = row.cell[FilledFrom[c]]
               /\ Blank(row, c) => r.cell[c] = row.cell[FilledFrom[c]]
               /\ ~Blank(row, c) => r.cell[c] = row.cell[c] /\ ~Blank(r, c)
    <3>1. FilledFrom[c] \notin DOMAIN FilledFrom
      BY ColumnFacts
    <3>. QED
      BY <2>1, <2>2, <3>1 DEF Blank
  <2>6. \A c \in CellColumns : c \notin DOMAIN FilledFrom => r.cell[c] = row.cell[c]
    BY <2>1
  <2>. HIDE DEF r
  <2>7. Filled(r)
    <3>1. r.client = 0 \/ r.upstream = 0 => r.status = 0
      BY <2>1
    <3>2. ASSUME NEW c \in DOMAIN FilledFrom, Blank(r, c)
          PROVE  r.cell[FilledFrom[c]].text = ""
      <4>1. r.cell[c] = row.cell[FilledFrom[c]]
        BY <2>5, <3>2
      <4>2. r.cell[c].text = ""
        BY <3>2, EmptyTextSaysNothing DEF Blank
      <4>. QED
        BY <2>5, <4>1, <4>2
    <3>. QED
      BY <3>1, <3>2 DEF Filled
  <2>8. ASSUME NEW c \in CellColumns
        PROVE  FilledText(v, r, c) = FilledText(v, row, c)
    <3>1. CASE c \notin DOMAIN FilledFrom
      BY <2>6, <3>1 DEF FilledText
    <3>2. CASE c \in DOMAIN FilledFrom /\ Blank(row, c)
      BY <1>2, <2>5, <3>2 DEF FilledText
    <3>3. CASE c \in DOMAIN FilledFrom /\ ~Blank(row, c)
      BY <2>5, <3>3 DEF FilledText
    <3>. QED
      BY <3>1, <3>2, <3>3
  <2>9. Seen(v, r) = Seen(v, row)
    <3>1. \A c \in CellColumns : SeenText(v, r, c) = SeenText(v, row, c)
      BY <2>8 DEF SeenText
    <3>2. /\ SeenCode(v, r, r.client) = SeenCode(v, row, row.client)
          /\ SeenCode(v, r, r.upstream) = SeenCode(v, row, row.upstream)
      BY <2>1 DEF SeenCode
    <3>. QED
      BY <2>1, <2>4, <3>1, <3>2, SeenParts
  <2>10. Compact(row) => Compact(r)
    <3>1. SUFFICES ASSUME Compact(row), NEW c \in CapturedColumns
                   PROVE  CompactCell(r.cell[c])
      BY DEF Compact, CompactCell
    <3>2. c \in CellColumns /\ CompactCell(row.cell[c])
      BY <3>1 DEF CellColumns, Compact, CompactCell
    <3>3. CASE c \notin DOMAIN FilledFrom
      BY <2>6, <3>2, <3>3
    <3>4. CASE c \in DOMAIN FilledFrom
      <4>1. FilledFrom[c] \in CapturedColumns
        BY <3>4, ColumnFacts
      <4>2. CompactCell(row.cell[FilledFrom[c]])
        BY <3>1, <4>1 DEF Compact, CompactCell
      <4>. QED
        BY <2>5, <3>2, <3>4, <4>2
    <3>. QED
      BY <3>3, <3>4
  <2>. QED
    BY <2>4, <2>6, <2>7, <2>9, <2>10 DEF r
<1>. QED
  BY <1>1, <1>2

(***************************************************************************)
(* Behind the marker a row is read as it is.                               *)
(***************************************************************************)
LEMMA SettledSeen == ASSUME NEW v, NEW row \in Row, Filled(row), Scrubbed(row), v < 4
                     PROVE  Seen(4, row) = Seen(v, row)
<1>1. ASSUME NEW c \in CellColumns
      PROVE  FilledText(v, row, c) = row.cell[c].text
  <2>1. CASE Unfilled(row) /\ c \in DOMAIN FilledFrom /\ Blank(row, c)
    <3>1. row.cell[FilledFrom[c]].text = ""
      BY <2>1 DEF Filled
    <3>2. row.cell[c].text = ""
      BY <2>1, EmptyTextSaysNothing DEF Blank
    <3>. QED
      BY <2>1, <3>1, <3>2 DEF FilledText
  <2>. QED
    BY <2>1 DEF FilledText
<1>2. ASSUME NEW c \in CellColumns
      PROVE  SeenText(4, row, c) = SeenText(v, row, c)
  <2>1. row.cell[c].text \in Texts
    BY RowFacts
  <2>2. c \in HeaderColumns => Redacted[row.cell[c].text] = row.cell[c].text
    BY <2>1, TextFacts DEF Scrubbed
  <2>3. SeenText(4, row, c) = row.cell[c].text
    BY DEF SeenText, FilledText
  <2>. QED
    BY <1>1, <2>2, <2>3 DEF SeenText
<1>3. \A n \in {row.client, row.upstream} : SeenCode(4, row, n) = SeenCode(v, row, n)
  BY DEF Filled, SeenCode
<1>. QED
  BY <1>2, <1>3, SeenParts

-------------------------------------------------------------------------------
(***************************************************************************)
(* The steps.                                                              *)
(***************************************************************************)
Kept == \A i \in DOMAIN rows : /\ i \in DOMAIN rows'
                               /\ Seen(version', rows'[i]) = Seen(version, rows[i])

LEMMA RowsAreRows == ASSUME IsTable(rows) PROVE \A i \in DOMAIN rows : i \in Ids /\ rows[i] \in Row
BY DEF IsTable

LEMMA IdsAreNumbers == \A i \in Ids : i \in Nat \ {0}
BY MigrationAssumption

LEMMA InitIInv == Init => IInv
<1>. SUFFICES ASSUME Init PROVE IInv
  OBVIOUS
<1>1. PICK db \in InitialDBs : version = db.version /\ present = db.present /\ rows = db.rows
  BY DEF Init
<1>2. /\ db.version \in 0..4
      /\ db.present \subseteq Columns
      /\ db.present = {} \/ CapturedColumns \ AddedColumns \subseteq db.present
      /\ IsTable(db.rows)
      /\ \A i \in DOMAIN db.rows : /\ Meets(db.rows[i], db.version)
                                   /\ \A c \in Columns \ db.present : Absent(db.rows[i], c)
  BY MigrationAssumption
<1>3. TypeOK
  BY <1>1, <1>2 DEF Init, TypeOK, Passes
<1>4. Versions
  BY <1>1, <1>2 DEF Init, Versions, PassColumns, Passes
<1>5. Done
  <2>1. SUFFICES ASSUME NEW i \in DOMAIN rows PROVE RowDone(i, rows[i])
    BY DEF Done
  <2>2. NothingAbsent(rows[i])
    <3>1. SUFFICES ASSUME NEW c \in CellColumns, c \notin present
                   PROVE  rows[i].cell[c].text = ""
      BY DEF NothingAbsent, CellColumns
    <3>2. c \in Columns /\ c # StartedAt
      BY ColumnFacts
    <3>3. Blank(rows[i], c)
      BY <1>1, <1>2, <3>1, <3>2 DEF Absent
    <3>. QED
      BY <3>3, EmptyTextSaysNothing DEF Blank
  <2>3. Settled(rows[i]) /\ PassColumns = {}
    BY DEF Init, Settled, PassColumns, Passes
  <2>. QED
    BY <1>1, <1>2, <2>2, <2>3 DEF RowDone
<1>. QED
  BY <1>3, <1>4, <1>5 DEF IInv

(***************************************************************************)
(* One batch: whether it ends its column or not, it suffices that what is  *)
(* newly treated was in the batch or nothing of it was left to do.         *)
(***************************************************************************)
LEMMA BatchKeeps ==
  ASSUME IInv, pc \in Passes, NEW c \in todo, col \in {c, NoColumn},
         NEW batch \in SUBSET Remaining(c), rewriteAll(batch, c),
         UNCHANGED <<version, present, pc>>,
         \A i \in DOMAIN rows, d \in PassColumns :
           Treated(i, d)' => \/ d # c /\ Treated(i, d)
                             \/ d = c /\ (i \in batch \/ i \notin Remaining(c))
  PROVE  IsTable(rows)' /\ Done' /\ Kept
<1>0. last \in Nat /\ (last # 0 => col = c) /\ \A i \in DOMAIN rows : i \in Nat \ {0}
  BY IdsAreNumbers DEF IInv, TypeOK, IsTable
<1>1. IsTable(rows) /\ \A i \in DOMAIN rows : i \in Ids /\ rows[i] \in Row
  BY RowsAreRows DEF IInv, TypeOK
<1>2. c \in PassColumns /\ PassColumns' = PassColumns /\ version < 4
  BY DEF IInv, Versions, PassColumns
<1>3. DOMAIN rows' = DOMAIN rows
  BY DEF rewriteAll
<1>4. ASSUME NEW i \in DOMAIN rows
      PROVE  /\ RowSame(rows[i], rows'[i])
             /\ \A d \in PassColumns : d # c /\ ColumnDone(rows[i], d) => ColumnDone(rows'[i], d)
             /\ i \in batch => ColumnDone(rows'[i], c)
  <2>1. CASE i \in batch
    <3>1. rows'[i] = rewrite(rows[i], c)
      BY <2>1 DEF rewriteAll
    <3>. QED
      BY <1>1, <1>2, <3>1, PassRow
  <2>2. CASE i \notin batch
    <3>1. rows'[i] = rows[i]
      BY <2>2 DEF rewriteAll
    <3>. QED
      BY <1>1, <2>2, <3>1, SameReflexive
  <2>. QED
    BY <2>1, <2>2
<1>5. ASSUME NEW i \in DOMAIN rows, i \notin batch, i \notin Remaining(c)
      PROVE  ColumnDone(rows'[i], c)
  <2>1. rows'[i] = rows[i] /\ RowDone(i, rows[i])
    BY <1>5 DEF rewriteAll, IInv, Done
  <2>2. CASE i <= last
    <3>1. Treated(i, c)
      <4>1. last # 0
        BY <1>0, <2>2
      <4>. QED
        BY <1>0, <2>2, <4>1 DEF Treated
    <3>. QED
      BY <1>2, <2>1, <3>1 DEF RowDone
  <2>3. CASE ~(i <= last)
    <3>1. i > last
      BY <1>0, <2>3
    <3>2. ~Selected(rows[i], c)
      BY <1>5, <3>1 DEF Remaining
    <3>. QED
      BY <1>1, <1>2, <2>1, <3>2, PassRow
  <2>. QED
    BY <2>2, <2>3
<1>6. IsTable(rows)'
  <2>1. rows' = [i \in DOMAIN rows |-> rows'[i]]
    BY DEF rewriteAll
  <2>. QED
    BY <1>1, <1>3, <1>4, <2>1 DEF IsTable, RowSame
<1>7. ASSUME NEW i \in DOMAIN rows
      PROVE  RowDone(i, rows[i])'
  <2>1. RowDone(i, rows[i])
    BY DEF IInv, Done
  <2>2. /\ Filled(rows[i]) => Filled(rows'[i])
        /\ Scrubbed(rows[i]) => Scrubbed(rows'[i])
        /\ Compact(rows[i]) => Compact(rows'[i])
        /\ Normal(rows[i]) => Normal(rows'[i])
        /\ NothingAbsent(rows[i]) => NothingAbsent(rows'[i])
    BY <1>1, <1>4, SameKeeps
  <2>3. Meets(rows'[i], version)
    BY <2>1, <2>2 DEF RowDone, Meets
  <2>4. Settled(rows'[i]) /\ NothingAbsent(rows'[i])
    BY <2>1, <2>2 DEF RowDone, Settled
  <2>5. ASSUME NEW d \in PassColumns, Treated(i, d)'
        PROVE  ColumnDone(rows'[i], d)
    <3>1. CASE d # c /\ Treated(i, d)
      BY <1>4, <2>1, <3>1 DEF RowDone
    <3>2. CASE d = c /\ i \in batch
      BY <1>4, <3>2
    <3>3. CASE d = c /\ i \notin batch /\ i \notin Remaining(c)
      BY <1>5, <3>3
    <3>. QED
      BY <2>5, <3>1, <3>2, <3>3
  <2>. QED
    BY <1>2, <2>3, <2>4, <2>5 DEF RowDone, Settled, NothingAbsent, ColumnDone
<1>8. Done'
  BY <1>3, <1>7 DEF Done
<1>9. Kept
  BY <1>1, <1>2, <1>3, <1>4, SameSeen DEF Kept
<1>. QED
  BY <1>6, <1>8, <1>9


LEMMA RewriteKeeps ==
  ASSUME IInv, NEW c \in Columns, RewriteBatch(c) \/ RewriteLastBatch(c)
  PROVE  IInv' /\ Kept
<1>1. pc \in Passes /\ c \in todo /\ col \in {c, NoColumn} /\ UNCHANGED <<version, present, pc>>
  BY DEF RewriteBatch, RewriteLastBatch, current
<1>2. NoColumn \notin Columns /\ BatchSize \in Nat
  <2>1. NoColumn \notin Columns
    BY MigrationAssumption
  <2>2. BatchSize \in Nat
    BY MigrationAssumption
  <2>. QED
    BY <2>1, <2>2
<1>3. /\ DOMAIN rows \subseteq Ids
      /\ todo \subseteq PassColumns
      /\ todo \subseteq Columns
  BY DEF IInv, TypeOK, IsTable, Versions
<1>4. CASE RewriteBatch(c)
  <2>1. PICK batch \in SUBSET Remaining(c) :
          /\ IsBatch(batch, c)
          /\ rewriteAll(batch, c)
          /\ last' \in batch
          /\ \A i \in batch : i <= last'
    BY <1>4 DEF RewriteBatch
  <2>2. col' = c /\ todo' = todo
    BY <1>4 DEF RewriteBatch
  <2>3. last' \in Ids
    BY <1>3, <2>1 DEF Remaining
  <2>4. ASSUME NEW i \in DOMAIN rows, NEW d \in PassColumns, Treated(i, d)'
        PROVE  \/ d # c /\ Treated(i, d)
               \/ d = c /\ (i \in batch \/ i \notin Remaining(c))
    <3>1. CASE d \notin todo
      BY <1>1, <3>1 DEF Treated
    <3>2. CASE d \in todo /\ i <= last' /\ d = c
      <4>1. i \in Remaining(c) \ batch => last' < i
        BY <2>1 DEF IsBatch
      <4>2. i \in Nat /\ last' \in Nat
        BY <1>3, <2>3, IdsAreNumbers
      <4>. QED
        BY <3>2, <4>1, <4>2
    <3>. QED
      BY <2>2, <2>4, <3>1, <3>2 DEF Treated
  <2>5. IsTable(rows)' /\ Done' /\ Kept
    BY <1>1, <2>1, <2>4, BatchKeeps
  <2>6. TypeOK'
    BY <1>1, <1>2, <2>2, <2>3, <2>5 DEF IInv, TypeOK
  <2>7. Versions'
    BY <1>1, <2>2 DEF IInv, Versions, PassColumns
  <2>. QED
    BY <2>5, <2>6, <2>7 DEF IInv
<1>5. CASE RewriteLastBatch(c)
  <2>1. PICK batch \in SUBSET Remaining(c) :
          /\ IsBatch(batch, c)
          /\ Cardinality(batch) < BatchSize
          /\ rewriteAll(batch, c)
    BY <1>5 DEF RewriteLastBatch
  <2>2. batch = Remaining(c)
    BY <1>2, <2>1 DEF IsBatch
  <2>3. todo' = todo \ {c} /\ col' = NoColumn /\ last' = 0
    BY <1>5 DEF RewriteLastBatch
  <2>4. ASSUME NEW i \in DOMAIN rows, NEW d \in PassColumns, Treated(i, d)'
        PROVE  \/ d # c /\ Treated(i, d)
               \/ d = c /\ (i \in batch \/ i \notin Remaining(c))
    <3>1. d \notin todo \ {c}
      BY <1>2, <1>3, <2>3, <2>4 DEF Treated
    <3>. QED
      BY <2>2, <3>1 DEF Treated
  <2>5. IsTable(rows)' /\ Done' /\ Kept
    BY <1>1, <2>1, <2>4, BatchKeeps
  <2>6. TypeOK'
    BY <1>1, <2>3, <2>5 DEF IInv, TypeOK
  <2>7. Versions'
    BY <1>1, <2>3 DEF IInv, Versions, PassColumns
  <2>. QED
    BY <2>5, <2>6, <2>7 DEF IInv
<1>. QED
  BY <1>4, <1>5


LEMMA FillInKeeps == ASSUME IInv, FillIn PROVE IInv' /\ Kept
<1>1. /\ pc = "fill" /\ pc' = "scrub"
      /\ todo' = HeaderColumns \cap present
      /\ UNCHANGED <<version, present, col, last>>
      /\ rows' = [i \in DOMAIN rows |-> fillIn(rows[i])]
  BY DEF FillIn
<1>2. \A i \in DOMAIN rows : i \in Ids /\ rows[i] \in Row
  BY RowsAreRows DEF IInv, TypeOK
<1>3. version < 4 /\ CapturedColumns \subseteq present /\ todo = {} /\ PassColumns' = HeaderColumns
  BY <1>1 DEF IInv, Versions, PassColumns, Passes
<1>4. col' = NoColumn /\ last' = 0 /\ NoColumn \notin Columns
  <2>1. NoColumn \notin Columns
    BY MigrationAssumption
  <2>. QED
    BY <1>1, <1>3, <2>1 DEF IInv, TypeOK
<1>5. ASSUME NEW i \in DOMAIN rows
      PROVE  /\ fillIn(rows[i]) \in Row
             /\ Seen(version, fillIn(rows[i])) = Seen(version, rows[i])
             /\ Filled(fillIn(rows[i]))
             /\ Compact(rows[i]) => Compact(fillIn(rows[i]))
             /\ \A c \in CellColumns : c \notin DOMAIN FilledFrom =>
                  fillIn(rows[i]).cell[c] = rows[i].cell[c]
  BY <1>2, <1>3, FillInRow
<1>6. Kept
  BY <1>1, <1>5 DEF Kept
<1>7. TypeOK'
  <2>1. IsTable(rows)'
    BY <1>1, <1>2, <1>5 DEF IsTable
  <2>2. HeaderColumns \cap present \subseteq Columns
    BY DEF Columns
  <2>. QED
    BY <1>1, <1>4, <2>1, <2>2 DEF IInv, TypeOK, Passes
<1>8. Versions'
  BY <1>1, <1>3 DEF IInv, Versions, Passes
<1>9. ASSUME NEW i \in DOMAIN rows
      PROVE  RowDone(i, rows[i])'
  <2>1. rows'[i] = fillIn(rows[i]) /\ RowDone(i, rows[i])
    BY <1>1 DEF IInv, Done
  <2>2. Meets(rows'[i], version)
    BY <1>3, <1>5, <2>1 DEF RowDone, Meets, IInv, TypeOK
  <2>3. NothingAbsent(rows'[i])
    <3>1. SUFFICES ASSUME NEW c \in CellColumns, c \notin present
                   PROVE  rows'[i].cell[c].text = ""
      BY DEF NothingAbsent, CellColumns
    <3>2. c \notin DOMAIN FilledFrom
      BY <1>3, <3>1, ColumnFacts
    <3>3. rows[i].cell[c].text = ""
      BY <2>1, <3>1 DEF RowDone, NothingAbsent, CellColumns
    <3>. QED
      BY <1>5, <2>1, <3>2, <3>3
  <2>5. ASSUME NEW c \in HeaderColumns, Treated(i, c)'
        PROVE  rows'[i].cell[c].text \notin Credentials
    <3>1. c \in CellColumns /\ c \in Columns
      BY DEF CellColumns, Columns
    <3>2. c \notin present
      BY <1>1, <1>4, <2>5, <3>1 DEF Treated
    <3>. QED
      BY <2>3, <3>1, <3>2, TextFacts DEF NothingAbsent, CellColumns
  <2>6. /\ Meets(rows[i], version)'
        /\ Settled(rows[i])'
        /\ NothingAbsent(rows[i])'
    BY <1>1, <1>5, <2>1, <2>2, <2>3 DEF Meets, NothingAbsent, Settled, Filled, Passes
  <2>7. (\A c \in PassColumns : Treated(i, c) => ColumnDone(rows[i], c))'
    BY <1>1, <1>3, <2>5 DEF ColumnDone
  <2>. QED
    BY <2>6, <2>7 DEF RowDone
<1>10. Done'
  BY <1>1, <1>9 DEF Done
<1>. QED
  BY <1>6, <1>7, <1>8, <1>10 DEF IInv

(***************************************************************************)
(* Steps that leave the rows as they are.                                  *)
(***************************************************************************)
LEMMA NextPassKeeps == ASSUME IInv, NextPass PROVE IInv'
<1>1. todo = {} /\ UNCHANGED <<version, present, rows, col, last>>
  BY DEF NextPass
<1>2. pc \in Passes /\ version < 4 /\ CapturedColumns \subseteq present
  BY DEF NextPass, IInv, Versions, Passes
<1>3. col = NoColumn /\ last = 0 /\ NoColumn \notin Columns
  <2>1. NoColumn \notin Columns
    BY MigrationAssumption
  <2>. QED
    BY <1>1, <2>1 DEF IInv, TypeOK
<1>4. \A i \in DOMAIN rows, c \in PassColumns : ColumnDone(rows[i], c)
  BY <1>1 DEF IInv, Done, RowDone, Treated
<1>5. ASSUME pc' \in {"compress", "normalize", "mark"},
             pc' = "compress" => todo' = CapturedColumns \cap present /\ pc = "scrub",
             pc' = "normalize" => todo' = {StartedAt}
                                  /\ (pc = "compress" \/ (pc = "scrub" /\ version >= 3)),
             pc' = "mark" => todo' = {} /\ pc = "normalize"
      PROVE  IInv'
  <2>1. todo' \subseteq Columns /\ todo' = PassColumns'
    BY <1>2, <1>5 DEF Columns, PassColumns
  <2>2. TypeOK'
    BY <1>1, <1>3, <1>5, <2>1 DEF IInv, TypeOK, Passes
  <2>3. Versions'
    BY <1>1, <1>2, <1>5, <2>1 DEF IInv, Versions, Passes
  <2>4. ASSUME NEW i \in DOMAIN rows
        PROVE  RowDone(i, rows[i])'
    <3>1. RowDone(i, rows[i]) /\ rows'[i] = rows[i]
      BY <1>1 DEF IInv, Done
    <3>2. Filled(rows[i])
      BY <1>2, <3>1 DEF RowDone, Settled
    <3>3. Scrubbed(rows[i])
      <4>1. CASE pc = "scrub"
        BY <1>4, <4>1 DEF Scrubbed, ColumnDone, PassColumns
      <4>. QED
        BY <1>2, <3>1, <4>1 DEF RowDone, Settled, Passes
    <3>4. pc' \in {"normalize", "mark"} => Compact(rows[i])
      <4>1. CASE pc = "compress"
        BY <1>4, <4>1 DEF Compact, ColumnDone, CompactCell, PassColumns
      <4>2. CASE pc = "scrub" /\ version >= 3
        BY <3>1, <4>2 DEF RowDone, Meets
      <4>3. CASE pc = "normalize"
        BY <3>1, <4>3 DEF RowDone, Settled
      <4>. QED
        BY <1>5, <4>1, <4>2, <4>3
    <3>5. pc' = "mark" => Normal(rows[i])
      BY <1>4, <1>5 DEF ColumnDone, PassColumns
    <3>6. Settled(rows[i])'
      BY <1>1, <1>5, <3>1, <3>2, <3>3, <3>4, <3>5
      DEF Settled, Filled, Unfilled, Blank, Scrubbed, Compact, Normal
    <3>7. (\A c \in PassColumns : ~Treated(i, c))'
      BY <1>1, <1>3, <2>1 DEF Treated
    <3>. QED
      BY <1>1, <3>1, <3>6, <3>7 DEF RowDone, Meets, NothingAbsent, Compact, Scrubbed, Normal
  <2>5. Done'
    BY <1>1, <2>4 DEF Done
  <2>. QED
    BY <2>2, <2>3, <2>5 DEF IInv
<1>. QED
  BY <1>1, <1>5 DEF NextPass

LEMMA OpenKeeps ==
  ASSUME IInv, Open \/ CreateTable \/ AddColumn \/ ReadVersion \/ Crash
  PROVE  IInv'
<1>1. /\ UNCHANGED <<version, rows>>
      /\ pc' \in {"down", "alter", "fill", "up"}
      /\ present \subseteq present'
  BY DEF Open, CreateTable, AddColumn, ReadVersion, Crash
<1>2. todo' = {} /\ col' = NoColumn /\ last' = 0 /\ PassColumns' = {}
  <2>1. CASE Crash
    BY <2>1 DEF Crash, PassColumns
  <2>2. CASE Open \/ CreateTable \/ AddColumn \/ ReadVersion
    <3>1. pc \in {"down", "alter"} /\ pc' \notin Passes /\ UNCHANGED <<todo, col, last>>
      BY <2>2 DEF Open, CreateTable, AddColumn, ReadVersion, walk, Passes
    <3>2. todo = {} /\ PassColumns' = {}
      BY <3>1 DEF IInv, Versions, PassColumns, Passes
    <3>3. col = NoColumn /\ last = 0
      BY <3>2 DEF IInv, TypeOK
    <3>. QED
      BY <3>1, <3>2, <3>3
  <2>. QED
    BY <2>1, <2>2
<1>3. AddedColumns \subseteq CapturedColumns /\ CapturedColumns \subseteq Columns
  <2>1. AddedColumns \subseteq CapturedColumns
    BY MigrationAssumption
  <2>. QED
    BY <2>1 DEF Columns
<1>4. present' \subseteq Columns
  BY <1>3 DEF Open, CreateTable, AddColumn, ReadVersion, Crash, IInv, TypeOK, Columns
<1>5. TypeOK'
  BY <1>1, <1>2, <1>4 DEF IInv, TypeOK
<1>6. Versions'
  <2>1. present' = {} \/ CapturedColumns \ AddedColumns \subseteq present'
    BY <1>3 DEF Open, CreateTable, AddColumn, ReadVersion, Crash, IInv, Versions
  <2>2. pc' \notin {"down", "alter"} => ReadVersion
    BY DEF Open, CreateTable, AddColumn, Crash
  <2>3. ASSUME ReadVersion
        PROVE  /\ CapturedColumns \subseteq present'
               /\ pc' = "up" => version' = 4
               /\ pc' # "up" => pc' = "fill" /\ version' < 4
    BY <1>3, <2>3 DEF ReadVersion, IInv, Versions, TypeOK
  <2>. QED
    BY <1>1, <1>2, <2>1, <2>2, <2>3 DEF Versions, Passes
<1>7. ASSUME NEW i \in DOMAIN rows
      PROVE  RowDone(i, rows[i])'
  <2>1. RowDone(i, rows[i])
    BY DEF IInv, Done
  <2>2. Settled(rows[i])'
    BY <1>1 DEF Settled, Passes
  <2>. QED
    BY <1>1, <1>2, <2>1, <2>2 DEF RowDone, Meets, NothingAbsent, Compact, Scrubbed, Normal
<1>8. Done'
  BY <1>1, <1>7 DEF Done
<1>. QED
  BY <1>5, <1>6, <1>8 DEF IInv


LEMMA WriteVersionKeeps == ASSUME IInv, WriteVersion PROVE IInv' /\ Kept
<1>1. /\ pc = "mark" /\ pc' = "up" /\ version' = 4
      /\ UNCHANGED <<present, rows, todo, col, last>>
      /\ version < 4
  BY DEF WriteVersion, walk, IInv, Versions
<1>2. TypeOK'
  BY <1>1 DEF IInv, TypeOK
<1>3. Versions'
  BY <1>1 DEF IInv, Versions, PassColumns, Passes
<1>4. ASSUME NEW i \in DOMAIN rows
      PROVE  RowDone(i, rows[i])' /\ Seen(version', rows'[i]) = Seen(version, rows[i])
  <2>1. RowDone(i, rows[i]) /\ rows[i] \in Row /\ rows'[i] = rows[i]
    BY <1>1, RowsAreRows DEF IInv, TypeOK, Done
  <2>2. Filled(rows[i]) /\ Scrubbed(rows[i]) /\ Compact(rows[i]) /\ Normal(rows[i])
    BY <1>1, <2>1 DEF RowDone, Settled
  <2>3. Settled(rows[i])' /\ PassColumns' = {}
    BY <1>1 DEF Settled, PassColumns, Passes
  <2>4. RowDone(i, rows[i])'
    BY <1>1, <2>1, <2>2, <2>3 DEF RowDone, Meets, NothingAbsent, Compact, Scrubbed, Normal
  <2>. QED
    BY <1>1, <2>1, <2>2, <2>4, SettledSeen
<1>5. Done' /\ Kept
  BY <1>1, <1>4 DEF Done, Kept
<1>. QED
  BY <1>2, <1>3, <1>5 DEF IInv

LEMMA InsertKeeps == ASSUME IInv, Insert PROVE IInv' /\ Kept
<1>1. PICK n \in Ids \ DOMAIN rows, row \in NewRows :
        rows' = [j \in DOMAIN rows \cup {n} |-> IF j = n THEN row ELSE rows[j]]
  BY DEF Insert
<1>2. pc = "up" /\ version = 4 /\ UNCHANGED <<version, present, pc, todo, col, last>>
  BY DEF Insert, walk, IInv, Versions
<1>3. row \in Row /\ insertValues(row)
  BY MigrationAssumption
<1>4. \A j \in DOMAIN rows : rows'[j] = rows[j]
  BY <1>1
<1>5. IsTable(rows)'
  <2>1. IsTable(rows) /\ \A i \in DOMAIN rows : i \in Ids /\ rows[i] \in Row
    BY RowsAreRows DEF IInv, TypeOK
  <2>. QED
    BY <1>1, <1>3, <2>1 DEF IsTable
<1>6. TypeOK' /\ Versions'
  BY <1>2, <1>5 DEF IInv, TypeOK, Versions, PassColumns
<1>7. Settled(row)' /\ PassColumns' = {}
  BY <1>2 DEF Settled, PassColumns, Passes
<1>8. Meets(row, version)
  <2>1. Scrubbed(row) /\ Normal(row)
    BY <1>3 DEF insertValues, Normal
  <2>2. ASSUME NEW c \in CapturedColumns PROVE CompactCell(row.cell[c])
    <3>1. row.cell[c] = gzip(row.cell[c].text) /\ row.cell[c].text \in Texts
      BY <1>3, RowFacts DEF insertValues, CellColumns
    <3>2. CASE row.cell[c].text = ""
      BY <3>2, TextFacts DEF CompactCell
    <3>3. CASE row.cell[c].text # ""
      BY <3>1, <3>3, GzipCell
    <3>. QED
      BY <3>2, <3>3
  <2>. QED
    BY <2>1, <2>2 DEF Meets, Compact, CompactCell
<1>9. NothingAbsent(row)
  <2>1. CapturedColumns \subseteq present
    BY <1>2 DEF IInv, Versions
  <2>. QED
    BY <1>3, <2>1, EmptyTextSaysNothing DEF NothingAbsent, insertValues
<1>10. ASSUME NEW i \in DOMAIN rows'
       PROVE  RowDone(i, rows[i])'
  <2>1. CASE i = n
    <3>1. rows'[i] = row
      BY <1>1, <2>1
    <3>. QED
      BY <1>2, <1>7, <1>8, <1>9, <3>1
      DEF RowDone, Meets, Settled, NothingAbsent, Compact, Scrubbed, Normal, Passes
  <2>2. CASE i # n
    <3>1. i \in DOMAIN rows /\ rows'[i] = rows[i]
      BY <1>1, <1>4, <2>2
    <3>2. RowDone(i, rows[i])
      BY <3>1 DEF IInv, Done
    <3>. QED
      BY <1>2, <1>7, <3>1, <3>2
      DEF RowDone, Meets, Settled, NothingAbsent, Compact, Scrubbed, Normal, Passes
  <2>. QED
    BY <2>1, <2>2
<1>11. Done'
  BY <1>10 DEF Done
<1>12. Kept
  BY <1>1, <1>2, <1>4 DEF Kept
<1>. QED
  BY <1>6, <1>5, <1>11, <1>12 DEF IInv

LEMMA StepKeeps == IInv /\ [Next]_vars => IInv' /\ Kept
<1>. SUFFICES ASSUME IInv, [Next]_vars PROVE IInv' /\ Kept
  OBVIOUS
<1>1. ASSUME UNCHANGED <<version, rows>> PROVE Kept
  BY <1>1 DEF Kept
<1>2. CASE Open \/ CreateTable \/ AddColumn \/ ReadVersion \/ Crash
  <2>1. UNCHANGED <<version, rows>>
    BY <1>2 DEF Open, CreateTable, AddColumn, ReadVersion, Crash
  <2>. QED
    BY <1>1, <1>2, <2>1, OpenKeeps
<1>3. CASE FillIn
  BY <1>3, FillInKeeps
<1>4. ASSUME NEW c \in Columns, RewriteBatch(c) \/ RewriteLastBatch(c)
      PROVE  IInv' /\ Kept
  BY <1>4, RewriteKeeps
<1>5. CASE NextPass
  <2>1. UNCHANGED <<version, rows>>
    BY <1>5 DEF NextPass
  <2>. QED
    BY <1>1, <1>5, <2>1, NextPassKeeps
<1>6. CASE WriteVersion
  BY <1>6, WriteVersionKeeps
<1>7. CASE Insert
  BY <1>7, InsertKeeps
<1>8. CASE UNCHANGED vars
  <2>1. UNCHANGED <<version, rows>>
    BY <1>8 DEF vars
  <2>2. IInv'
    BY <1>8 DEF vars, IInv, TypeOK, Versions, PassColumns, Passes, Done, RowDone, Meets, Settled,
                NothingAbsent, Treated, ColumnDone
  <2>. QED
    BY <1>1, <2>1, <2>2
<1>. QED
  BY <1>2, <1>3, <1>4, <1>5, <1>6, <1>7, <1>8 DEF Next, OpenStep
-------------------------------------------------------------------------------
LEMMA Inductive == SafetySpec => []IInv
<1>1. IInv /\ [Next]_vars => IInv'
  BY StepKeeps
<1>. QED
  BY InitIInv, <1>1, PTL DEF SafetySpec

(***************************************************************************)
(* The types, whatever is found and whenever the program is interrupted    *)
(* (storage_migrate.go).                                                   *)
(***************************************************************************)
THEOREM TypeCorrect == SafetySpec => []TypeOK
<1>1. IInv => TypeOK
  BY DEF IInv
<1>. QED
  BY Inductive, <1>1, PTL

(***************************************************************************)
(* The marker is only ever written over finished work, for tables of any   *)
(* size and any batch size (storage_migrate.go:91-126).                    *)
(***************************************************************************)
THEOREM NoMarkerWithoutWork == SafetySpec => []MarkedIsMigrated
<1>1. IInv => MarkedIsMigrated
  BY DEF IInv, Versions, Done, RowDone, MarkedIsMigrated
<1>. QED
  BY Inductive, <1>1, PTL

(***************************************************************************)
(* Whatever order the columns are taken in and wherever the program is     *)
(* interrupted, no step changes what will be read of a row in the end      *)
(* (storage_migrate.go:91-141, storage_compress.go:96-135).                *)
(***************************************************************************)
THEOREM NothingIsChanged == SafetySpec => Transparent
<1>1. IInv /\ [Next]_vars => Kept
  BY StepKeeps
<1>2. SafetySpec => [][Kept]_vars
  BY Inductive, <1>1, PTL DEF SafetySpec
<1>. QED
  BY <1>2 DEF Transparent, Kept
===============================================================================
