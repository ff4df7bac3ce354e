-------------------------------- MODULE Migration --------------------------------
(***************************************************************************)
(* Opening the log database (internal/store/storage_migrate.go and         *)
(* storage_compress.go): columns are added, rows of older builds are       *)
(* filled in, their credentials redacted, their payloads compressed and    *)
(* their timestamps normalised, in transactions of BatchSize rows, and     *)
(* only then the version marker is written. A crash or an error may come   *)
(* between any two statements; the next start begins again, on rows that   *)
(* are partly converted.                                                   *)
(*                                                                         *)
(* A cell is kept as the text a reader gets from it and the form it is     *)
(* stored in. The columns of a pass are taken in any order.                *)
(***************************************************************************)
EXTENDS Integers, FiniteSets

CONSTANTS Ids,              \* primary keys, as numbers in the order of their text
          BatchSize,        \* rows read in one transaction
          HeaderColumns,    \* storedHeaderColumns
          CapturedColumns,  \* capturedColumns
          AddedColumns,     \* columns that earlier builds did not have
          Codes,            \* status codes, 0 for none
          Texts,            \* what a cell can say
          Credentials,      \* texts of headers with a credential in them
          Redacted,         \* what redaction makes of each text
          Shrinks,          \* texts that gzip makes shorter
          Magic,            \* texts that begin like a gzip stream but are none
          Archive,          \* what is read of a text that was compressed twice
          InitialDBs,       \* databases the program may find
          NewRows           \* rows this build inserts

StartedAt == "started_at"
Columns == HeaderColumns \cup CapturedColumns \cup {StartedAt}

(***************************************************************************)
(* Forms. A captured cell is "plain", "gzip", or "prefixed" as an early    *)
(* build wrote gzip; an empty one is a text or a "blob", which SQL does    *)
(* not take for equal. A timestamp is "fixed" (dbTimeFormat), in any       *)
(* "other" readable format, "odd" if that happens to have the length of    *)
(* the fixed one, or "unreadable".                                         *)
(***************************************************************************)
EmptyText == [form |-> "plain", text |-> ""]
EmptyBlob == [form |-> "blob", text |-> ""]
Cell == {EmptyText, EmptyBlob}
          \cup [form : {"plain", "gzip", "prefixed"}, text : Texts \ {""}]
Timestamp == [form : {"fixed", "other", "odd", "unreadable"}, text : Texts]
Row == [status : Codes, client : Codes, upstream : Codes,
        cell : [Columns \ {StartedAt} -> Cell], at : Timestamp]
IsTable(t) == DOMAIN t \subseteq Ids /\ t \in [DOMAIN t -> Row]

VARIABLES version,  \* schema_version, 0 for none
          present,  \* the columns of request_logs, none if there is no table
          rows,     \* its rows, by id
          pc,       \* where OpenStore is; "up" once it returned
          todo,     \* columns the pass has still to finish
          col,      \* the column it is in
          last      \* the last id it read there

vars == <<version, present, rows, pc, todo, col, last>>
walk == <<todo, col, last>>

Passes == {"scrub", "compress", "normalize"}
NoColumn == "none"
-------------------------------------------------------------------------------
(***************************************************************************)
(* What each pass does to one cell.                                        *)
(***************************************************************************)
gzip(text) == IF text = "" THEN EmptyBlob ELSE [form |-> "gzip", text |-> text]

gzipBytes(v) == IF v.form \in {"gzip", "prefixed"} THEN gzip(Archive) ELSE gzip(v.text)

compressed(v) == v.form \in {"gzip", "prefixed"} \/ v.text \in Magic

RedactStoredHeaders(raw) == Redacted[raw]

scrub(v) == IF RedactStoredHeaders(v.text) = v.text THEN v
            ELSE gzip(RedactStoredHeaders(v.text))

\* Mutant of compress: what is compressed already is compressed again.
compressAgain(v) == IF v.text \notin Shrinks THEN v ELSE gzipBytes(v)

compress(v) == IF compressed(v) \/ v.text \notin Shrinks THEN v ELSE gzipBytes(v)

normalize(v) == IF v.form = "unreadable" THEN v ELSE [v EXCEPT !.form = "fixed"]

rewrite(row, c) ==
  CASE pc = "scrub" -> [row EXCEPT !.cell[c] = scrub(@)]
    [] pc = "compress" -> [row EXCEPT !.cell[c] = compress(@)]
    [] OTHER -> [row EXCEPT !.at = normalize(@)]

\* The WHERE of each pass.
Selected(row, c) ==
  CASE pc = "scrub" -> row.cell[c] # EmptyText
    [] pc = "compress" -> row.cell[c].text # ""
    [] OTHER -> row.at.form \notin {"fixed", "odd"}

(***************************************************************************)
(* The UPDATE that gives rows of older builds what they had no columns     *)
(* for: the client's and upstream's status and upstream's response.        *)
(***************************************************************************)
FilledFrom == [c \in {"upstream_response_headers", "upstream_response_body"} |->
                 IF c = "upstream_response_body" THEN "response_body" ELSE "response_headers"]

Blank(row, c) == IF c \in HeaderColumns THEN row.cell[c] = EmptyText
                                        ELSE row.cell[c].text = ""

Unfilled(row) == row.client = 0 \/ row.upstream = 0

fillIn(row) ==
  IF ~Unfilled(row) THEN row
  ELSE [row EXCEPT
          !.client = IF @ = 0 THEN row.status ELSE @,
          !.upstream = IF @ = 0 THEN row.status ELSE @,
          !.cell = [c \in DOMAIN @ |-> IF c \in DOMAIN FilledFrom /\ Blank(row, c)
                                         THEN @[FilledFrom[c]] ELSE @[c]]]

(***************************************************************************)
(* What a row has to look like under each version marker, and what this    *)
(* build writes.                                                           *)
(***************************************************************************)
Scrubbed(row) == \A c \in HeaderColumns : row.cell[c].text \notin Credentials
Compact(row) == \A c \in CapturedColumns :
                  compressed(row.cell[c]) \/ row.cell[c].text \notin Shrinks
Normal(row) == row.at.form # "other"

Meets(row, v) == /\ v >= 3 => Compact(row)
                 /\ v >= 4 => Scrubbed(row) /\ Normal(row)

\* What a column that is missing will be added with.
Absent(row, c) == c # StartedAt => Blank(row, c)

insertValues(row) ==
  /\ Scrubbed(row)
  /\ row.at.form = "fixed"
  /\ \A c \in CapturedColumns : row.cell[c] = gzip(row.cell[c].text)
  /\ \A c \in HeaderColumns \ CapturedColumns : row.cell[c] = EmptyText

ASSUME MigrationAssumption ==
  /\ Ids \subseteq Nat \ {0} /\ IsFiniteSet(Ids)
  /\ BatchSize \in Nat \ {0}
  /\ {"upstream_response_headers", "response_headers"} \subseteq HeaderColumns \cap CapturedColumns
  /\ {"upstream_response_body", "response_body"} \subseteq CapturedColumns \ HeaderColumns
  /\ StartedAt \notin HeaderColumns \cup CapturedColumns
  /\ NoColumn \notin Columns
  /\ DOMAIN FilledFrom \subseteq AddedColumns /\ AddedColumns \subseteq CapturedColumns
  /\ 0 \in Codes
  /\ "" \in Texts \ (Credentials \cup Shrinks \cup Magic)
  /\ Archive \in Texts
  /\ Redacted \in [Texts -> Texts]
  /\ \A t \in Texts : /\ Redacted[t] \notin Credentials
                      /\ t \notin Credentials => Redacted[t] = t
                      /\ Redacted[t] = "" => t = ""
  /\ \A db \in InitialDBs :
       /\ db.version \in 0..4
       /\ db.present \subseteq Columns
       /\ db.present = {} \/ CapturedColumns \ AddedColumns \subseteq db.present
       /\ IsTable(db.rows)
       /\ \A i \in DOMAIN db.rows : /\ Meets(db.rows[i], db.version)
                                    /\ \A c \in Columns \ db.present : Absent(db.rows[i], c)
  /\ \A row \in NewRows : row \in Row /\ insertValues(row)
-------------------------------------------------------------------------------
Init == /\ \E db \in InitialDBs : /\ version = db.version
                                  /\ present = db.present
                                  /\ rows = db.rows
        /\ pc = "down"
        /\ todo = {} /\ col = NoColumn /\ last = 0

Open == /\ pc = "down"
        /\ pc' = "alter"
        /\ UNCHANGED <<version, present, rows, walk>>

CreateTable == /\ pc = "alter"
               /\ present = {}
               /\ present' = CapturedColumns \cup {StartedAt}
               /\ UNCHANGED <<version, rows, pc, walk>>

AddColumn == /\ pc = "alter"
             /\ present # {}
             /\ \E c \in AddedColumns \ present : present' = present \cup {c}
             /\ UNCHANGED <<version, rows, pc, walk>>

\* Mutant of ReadVersion: the marker is not looked at before the back-fill.
ReadVersionNever == /\ pc = "alter"
                    /\ present # {} /\ AddedColumns \subseteq present
                    /\ pc' = "fill"
                    /\ UNCHANGED <<version, present, rows, walk>>

ReadVersion == /\ pc = "alter"
               /\ present # {} /\ AddedColumns \subseteq present
               /\ pc' = IF version >= 4 THEN "up" ELSE "fill"
               /\ UNCHANGED <<version, present, rows, walk>>

FillIn == /\ pc = "fill"
          /\ rows' = [i \in DOMAIN rows |-> fillIn(rows[i])]
          /\ pc' = "scrub"
          /\ todo' = HeaderColumns \cap present
          /\ UNCHANGED <<version, present, col, last>>

(***************************************************************************)
(* rewriteColumnBatch: the first BatchSize rows after the last id that the *)
(* WHERE selects; fewer than that end the column.                          *)
(***************************************************************************)
Remaining(c) == {i \in DOMAIN rows : i > last /\ Selected(rows[i], c)}

IsBatch(batch, c) ==
  /\ batch \subseteq Remaining(c)
  /\ \A i \in batch, j \in Remaining(c) \ batch : i < j
  /\ \/ Cardinality(batch) = BatchSize
     \/ Cardinality(batch) < BatchSize /\ batch = Remaining(c)

current(c) == c \in todo /\ col \in {c, NoColumn}

rewriteAll(batch, c) ==
  rows' = [i \in DOMAIN rows |-> IF i \in batch THEN rewrite(rows[i], c) ELSE rows[i]]

\* Mutant of RewriteBatch: the batch is read again and again.
RewriteBatchAgain(c) ==
  /\ pc \in Passes /\ current(c)
  /\ \E batch \in SUBSET Remaining(c) :
       /\ IsBatch(batch, c)
       /\ Cardinality(batch) = BatchSize
       /\ rewriteAll(batch, c)
  /\ col' = c
  /\ UNCHANGED <<version, present, pc, todo, last>>

RewriteBatch(c) ==
  /\ pc \in Passes /\ current(c)
  /\ \E batch \in SUBSET Remaining(c) :
       /\ IsBatch(batch, c)
       /\ Cardinality(batch) = BatchSize
       /\ rewriteAll(batch, c)
       /\ last' \in batch
       /\ \A i \in batch : i <= last'
  /\ col' = c
  /\ UNCHANGED <<version, present, pc, todo>>

\* Mutant of RewriteLastBatch: a batch that had a row left as it was is the last.
RewriteLastBatchByUpdates(c) ==
  /\ pc \in Passes /\ current(c)
  /\ \E batch \in SUBSET Remaining(c) :
       /\ IsBatch(batch, c)
       /\ Cardinality({i \in batch : rewrite(rows[i], c) # rows[i]}) < BatchSize
       /\ rewriteAll(batch, c)
  /\ todo' = todo \ {c}
  /\ col' = NoColumn /\ last' = 0
  /\ UNCHANGED <<version, present, pc>>

RewriteLastBatch(c) ==
  /\ pc \in Passes /\ current(c)
  /\ \E batch \in SUBSET Remaining(c) :
       /\ IsBatch(batch, c)
       /\ Cardinality(batch) < BatchSize
       /\ rewriteAll(batch, c)
  /\ todo' = todo \ {c}
  /\ col' = NoColumn /\ last' = 0
  /\ UNCHANGED <<version, present, pc>>

(***************************************************************************)
(* The next pass, as far as the version asks for it.                       *)
(***************************************************************************)
NextPass ==
  /\ todo = {}
  /\ \/ /\ pc = "scrub" /\ version < 3
        /\ pc' = "compress"
        /\ todo' = CapturedColumns \cap present
     \/ /\ pc = "compress" \/ (pc = "scrub" /\ version >= 3)
        /\ pc' = "normalize"
        /\ todo' = {StartedAt}
     \/ pc = "normalize" /\ pc' = "mark" /\ UNCHANGED todo
  /\ UNCHANGED <<version, present, rows, col, last>>

WriteVersion == /\ pc = "mark"
                /\ version' = 4
                /\ pc' = "up"
                /\ UNCHANGED <<present, rows, walk>>

(***************************************************************************)
(* Anything that ends the program: a crash, an error of a statement (its   *)
(* transaction is rolled back), or an orderly end.                         *)
(***************************************************************************)
Crash == /\ pc # "down"
         /\ pc' = "down"
         /\ todo' = {} /\ col' = NoColumn /\ last' = 0
         /\ UNCHANGED <<version, present, rows>>

Insert == /\ pc = "up"
          /\ \E i \in Ids \ DOMAIN rows, row \in NewRows :
               rows' = [j \in DOMAIN rows \cup {i} |-> IF j = i THEN row ELSE rows[j]]
          /\ UNCHANGED <<version, present, pc, walk>>

OpenStep == \/ CreateTable \/ AddColumn \/ ReadVersion
            \/ FillIn
            \/ \E c \in Columns : RewriteBatch(c) \/ RewriteLastBatch(c)
            \/ NextPass
            \/ WriteVersion

Next == Open \/ OpenStep \/ Crash \/ Insert

SafetySpec == Init /\ [][Next]_vars
Spec == SafetySpec /\ WF_vars(OpenStep)
-------------------------------------------------------------------------------
(***************************************************************************)
(* The types, and where the walk over a column may be.                     *)
(***************************************************************************)
TypeOK == /\ version \in 0..4
          /\ present \subseteq Columns
          /\ IsTable(rows)
          /\ pc \in {"down", "alter", "fill", "mark", "up"} \cup Passes
          /\ todo \subseteq Columns
          /\ col \in todo \cup {NoColumn}
          /\ last \in Ids \cup {0}
          /\ last # 0 => col # NoColumn

(***************************************************************************)
(* No marker without the work: however often it was interrupted, a         *)
(* database marked with a version has no row that this version's passes    *)
(* should have changed, beyond the first batch too                         *)
(* (storage_migrate.go:91-126).                                            *)
(***************************************************************************)
MarkedIsMigrated ==
  /\ \A i \in DOMAIN rows : Meets(rows[i], version)
  /\ pc = "up" => version = 4

(***************************************************************************)
(* What a reader will make of a row once the store is open.                *)
(***************************************************************************)
Seen(v, row) ==
  LET filled(c) == IF v < 4 /\ Unfilled(row) /\ c \in DOMAIN FilledFrom /\ Blank(row, c)
                     THEN row.cell[FilledFrom[c]].text ELSE row.cell[c].text
      code(n) == IF v < 4 /\ n = 0 THEN row.status ELSE n
  IN [client |-> code(row.client),
      upstream |-> code(row.upstream),
      at |-> row.at.text,
      text |-> [c \in DOMAIN row.cell |->
                  IF v < 4 /\ c \in HeaderColumns THEN Redacted[filled(c)] ELSE filled(c)]]

(***************************************************************************)
(* No step, crash or repetition changes what will be read of a row in the  *)
(* end, or loses one: every pass is idempotent, also on what later passes  *)
(* made of a row, and rows of this build, whose missing statuses mean that *)
(* there was no answer, are never back-filled (storage_migrate.go:91-120). *)
(***************************************************************************)
Transparent ==
  [][\A i \in DOMAIN rows : /\ i \in DOMAIN rows'
                            /\ Seen(version', rows'[i]) = Seen(version, rows[i])]_vars

(***************************************************************************)
(* A start ends with an open store, unless it is interrupted: no pass goes *)
(* round for ever (storage_migrate.go:128-141).                            *)
(***************************************************************************)
StartEnds == pc = "alter" ~> pc \in {"up", "down"}
===============================================================================
