------------------------------- MODULE MCMigration -------------------------------
(***************************************************************************)
(* Databases of up to three rows, read in batches of two: of the columns,  *)
(* the two pairs the back-fill connects and one that only earlier builds   *)
(* had. The rows are one of each age: before the statuses and upstream's   *)
(* response had columns of their own; before compression, interrupted,     *)
(* with nothing in it; with early compression; as the last version left a  *)
(* request that upstream never answered.                                   *)
(***************************************************************************)
EXTENDS Migration

Actual == "response_headers_actual"
MCHeaderColumns == {"upstream_response_headers", "response_headers", Actual}
MCCapturedColumns == {"upstream_response_headers", "response_headers",
                      "upstream_response_body", "response_body"}
MCAddedColumns == {"upstream_response_headers", "upstream_response_body"}
MCTexts == {"", "clean", "secret", "redacted", "long", "zipped", "archive"}
MCRedacted == [t \in MCTexts |-> IF t = "secret" THEN "redacted" ELSE t]

Stored(form, text) == [form |-> form, text |-> text]

MCRow(codes, headers, upstreamHeaders, body, upstreamBody, actual, form) ==
  [status |-> codes[1], client |-> codes[2], upstream |-> codes[3],
   cell |-> [c \in MCHeaderColumns \cup MCCapturedColumns |->
               CASE c = "response_headers" -> headers
                 [] c = "upstream_response_headers" -> upstreamHeaders
                 [] c = "response_body" -> body
                 [] c = "upstream_response_body" -> upstreamBody
                 [] OTHER -> actual],
   at |-> Stored(form, "clean")]

Oldest == MCRow(<<200, 0, 0>>, Stored("plain", "secret"), EmptyText,
                Stored("plain", "long"), EmptyBlob, EmptyText, "other")
Interrupted == MCRow(<<0, 0, 0>>, EmptyText, EmptyText, EmptyBlob, EmptyBlob,
                     Stored("plain", "secret"), "unreadable")
Early == MCRow(<<200, 200, 0>>, Stored("prefixed", "secret"), Stored("plain", "clean"),
               Stored("plain", "zipped"), Stored("prefixed", "long"), EmptyText, "odd")
Unanswered == MCRow(<<502, 502, 0>>, Stored("gzip", "secret"), EmptyBlob,
                    Stored("gzip", "long"), EmptyBlob, EmptyText, "other")
Current == MCRow(<<502, 502, 0>>, Stored("gzip", "clean"), EmptyBlob,
                 Stored("gzip", "long"), EmptyBlob, EmptyText, "fixed")

MCNewRows == {Current}

OldColumns == {"response_headers", "response_body", StartedAt, Actual}

Database(v, columns, table) == [version |-> v, present |-> columns, rows |-> table]
NoRows == [i \in {} |-> Current]

MCInitialDBs ==
  {Database(0, {}, NoRows)}
    \cup {Database(0, OldColumns, table) : table \in [{1, 2, 3} -> {Oldest, Interrupted}]}
    \cup {Database(2, Columns, table) : table \in [{1, 2, 3} -> {Oldest, Interrupted, Early, Unanswered}]}
    \cup {Database(3, Columns, table) : table \in [{1, 2, 3} -> {Unanswered, Current, Interrupted}]}
    \cup {Database(4, Columns \ {Actual}, table) : table \in [{1, 2} -> {Current}]}
===============================================================================
