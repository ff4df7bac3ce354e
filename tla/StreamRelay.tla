------------------------------ MODULE StreamRelay ------------------------------
(***************************************************************************)
(* One streamed answer on its way to the client: forwardUpstreamResponse's *)
(* event-stream branch (internal/proxy/proxy.go). copyStream reads chunks  *)
(* from the adapter's reader, shows each to the usage tracker (usage.go)   *)
(* and writes it; what comes from upstream is teed into a capped buffer    *)
(* (capture.go). The adapter is the Responses filter or hands the stream   *)
(* on as it is, in whatever chunks the network makes.                      *)
(***************************************************************************)
EXTENDS SSEFilter, SequencesExt

CONSTANTS Buffer,    \* units copyStream reads at once
          MaxTail,   \* maxUsageTailBytes
          Limit,     \* the capture's limit, 0 for none
          MaxLines   \* bound on the lines upstream sends

ASSUME RelayAssumption == /\ Buffer \in Nat \ {0}
                          /\ MaxTail \in Nat
                          /\ Limit \in Nat
                          /\ MaxLines \in Nat

VARIABLES filtered,  \* the adapter filters (Responses)
          lines,     \* how many lines upstream sent
          tail,      \* units of an unfinished line the tracker keeps
          skipping,  \* the tracker is inside a line it gave up
          last,      \* the usage it reports
          possible,  \* the usages it may report, by what the client was sent
          kept,      \* units in the capture
          truncated, \* the capture's flag
          arrived,   \* units read from upstream
          outcome    \* copyStream: "copying", "complete" or "failed"

trackerVars == <<tail, skipping, last, possible>>
captureVars == <<kept, truncated, arrived>>
vars == <<filterVars, filtered, lines, trackerVars, captureVars, outcome>>

Init == /\ FilterInit
        /\ filtered \in BOOLEAN
        /\ lines = 0
        /\ tail = 0 /\ skipping = FALSE /\ last = 0 /\ possible = {0}
        /\ kept = 0 /\ truncated = FALSE /\ arrived = 0
        /\ outcome = "copying"
-------------------------------------------------------------------------------
(***************************************************************************)
(* cappedBuffer.Write of n units to a buffer [kept, truncated]. The tee    *)
(* writes nothing of length 0.                                             *)
(***************************************************************************)
\* Mutant of cappedBufferWrite: filling the buffer to the brim truncates.
cappedBufferWriteBrim(b, n) ==
  IF n = 0 \/ b.truncated THEN b
  ELSE IF Limit > 0 /\ n >= Limit - b.kept THEN [kept |-> Limit, truncated |-> TRUE]
  ELSE [b EXCEPT !.kept = @ + n]

cappedBufferWrite(b, n) ==
  IF n = 0 \/ b.truncated THEN b
  ELSE IF Limit > 0 /\ n > Limit - b.kept THEN [kept |-> Limit, truncated |-> TRUE]
  ELSE [b EXCEPT !.kept = @ + n]

\* n units arrive, in one write or two.
Tee(n) ==
  /\ \E k \in 1..n :
       LET b == cappedBufferWrite(cappedBufferWrite([kept |-> kept, truncated |-> truncated], k),
                                  n - k)
       IN kept' = b.kept /\ truncated' = b.truncated
  /\ arrived' = arrived + n

Copying == outcome = "copying" /\ lines < MaxLines

Line(n) == /\ Copying
           /\ lines' = lines + 1
           /\ Tee(n)
           /\ UNCHANGED <<filtered, trackerVars, outcome>>

FilterLine ==
  /\ filtered
  /\ \/ \E t \in Types : ReadEventLine(t) /\ Line(1)
     \/ \E p \in Payloads : (ReadData(p) \/ ReadCut(p)) /\ Line(p.size)
     \/ (ReadOther \/ ReadBlank \/ ReadCutOther) /\ Line(1)

(***************************************************************************)
(* Without a filter a line is pending as it arrives, and more lines may    *)
(* arrive before the next read.                                            *)
(***************************************************************************)
PlainLine ==
  /\ ~filtered /\ feed = "open" /\ Len(pending) < Buffer
  /\ \E n \in Sizes, u \in Usages, ended \in BOOLEAN :
       /\ Line(n)
       /\ pending' = pending \o Units(n, u, ended)
       /\ IF ended THEN UNCHANGED feed ELSE feed' \in {"eof", "failed"}
  /\ UNCHANGED <<eventLine, skipBlank, done, up, want, down, got>>

PlainEnd ==
  /\ ~filtered /\ outcome = "copying"
  /\ \/ feed = "open" /\ feed' \in {"eof", "failed"} /\ UNCHANGED done
     \/ feed # "open" /\ pending = <<>> /\ ~done /\ done' = TRUE /\ UNCHANGED feed
  /\ UNCHANGED <<eventLine, skipBlank, pending, up, want, down, got>>
  /\ UNCHANGED <<filtered, lines, trackerVars, captureVars, outcome>>

FilterEnd ==
  /\ filtered /\ outcome = "copying"
  /\ UpstreamEnds \/ ReadEnd
  /\ UNCHANGED <<filtered, lines, trackerVars, captureVars, outcome>>
-------------------------------------------------------------------------------
(***************************************************************************)
(* usageTracker.observe, unit by unit: a line is looked at when it ends,   *)
(* and only the whole of one can be read. After the chunk, an unfinished   *)
(* line beyond the limit is forgotten and the rest of it skipped.          *)
(***************************************************************************)
observeUnit(t, unit) ==
  IF unit.ends
    THEN [tail |-> 0,
          skipping |-> FALSE,
          last |-> IF ~t.skipping /\ unit.usage # 0 /\ t.tail + 1 = unit.size
                     THEN unit.usage ELSE t.last]
    ELSE [t EXCEPT !.tail = @ + 1]

\* Mutant of observe: a line that was given up is never over.
observeSkippingOn(t, chunk) ==
  LET r == FoldLeft(observeUnit, t, chunk)
  IN [r EXCEPT !.skipping = t.skipping \/ r.tail > MaxTail,
               !.tail = IF @ > MaxTail THEN 0 ELSE @,
               !.last = IF t.skipping THEN t.last ELSE @]

\* Mutant of observe: no bound on what is kept of a line.
observeUnbounded(t, chunk) == FoldLeft(observeUnit, t, chunk)

observe(t, chunk) ==
  LET r == FoldLeft(observeUnit, t, chunk)
  IN IF r.tail > MaxTail THEN [r EXCEPT !.tail = 0, !.skipping = TRUE] ELSE r

(***************************************************************************)
(* What the tracker may say after the chunk: the last usage in a line of   *)
(* no more than MaxTail units before its end, or in a longer one after it. *)
(***************************************************************************)
allow(set, unit) ==
  IF ~unit.ends \/ unit.usage = 0 THEN set
  ELSE IF unit.size - 1 <= MaxTail THEN {unit.usage}
  ELSE set \cup {unit.usage}

(***************************************************************************)
(* copyStream passes on a chunk: the filter's reader gives all it has up   *)
(* to the buffer, the network what has come. The write may fail.           *)
(***************************************************************************)
copyStream ==
  /\ outcome = "copying" /\ pending # <<>>
  /\ LET most == IF Len(pending) < Buffer THEN Len(pending) ELSE Buffer
     IN \E k \in (IF filtered THEN {most} ELSE 1..most) :
          LET chunk == SubSeq(pending, 1, k)
              t == observe([tail |-> tail, skipping |-> skipping, last |-> last], chunk)
          IN /\ tail' = t.tail /\ skipping' = t.skipping /\ last' = t.last
             /\ possible' = FoldLeft(allow, possible, chunk)
             /\ pending' = SubSeq(pending, k + 1, Len(pending))
  /\ outcome' \in {"copying", "failed"}
  /\ UNCHANGED <<eventLine, skipBlank, feed, done, up, want, down, got>>
  /\ UNCHANGED <<filtered, lines, captureVars>>

\* Mutant of copyEnds: any end of upstream is a good end.
copyEndsWell ==
  /\ outcome = "copying" /\ done /\ pending = <<>>
  /\ outcome' = "complete"
  /\ UNCHANGED <<filterVars, filtered, lines, trackerVars, captureVars>>

copyEnds ==
  /\ outcome = "copying" /\ done /\ pending = <<>>
  /\ outcome' = IF feed = "eof" THEN "complete" ELSE "failed"
  /\ UNCHANGED <<filterVars, filtered, lines, trackerVars, captureVars>>

Next == FilterLine \/ PlainLine \/ FilterEnd \/ PlainEnd \/ copyStream \/ copyEnds

Spec == Init /\ [][Next]_vars
-------------------------------------------------------------------------------
(***************************************************************************)
(* The types; the tracker keeps no more of a line than its limit.          *)
(***************************************************************************)
TypeOK ==
  /\ FilterTypeOK
  /\ filtered \in BOOLEAN
  /\ lines \in 0..MaxLines
  /\ tail \in 0..MaxTail
  /\ skipping \in BOOLEAN
  /\ last \in Usages
  /\ possible \subseteq Usages
  /\ kept \in Nat /\ truncated \in BOOLEAN /\ arrived \in Nat
  /\ outcome \in {"copying", "complete", "failed"}

(***************************************************************************)
(* The usage of the row is that of the last report in a line the client    *)
(* was sent: wherever chunks cut the lines, no line within the limit is    *)
(* missed or read in part, also after one that was given up; and between   *)
(* chunks no more than the limit is kept of a line (usage.go:60-110).      *)
(***************************************************************************)
UsageIsLast == last \in possible /\ tail <= MaxTail

(***************************************************************************)
(* The audit row's copy of the stream is a beginning of it, as long as the *)
(* limit allows, and is marked truncated exactly when it is not all of it. *)
(***************************************************************************)
CaptureHonest ==
  /\ kept = IF Limit > 0 /\ arrived > Limit THEN Limit ELSE arrived
  /\ truncated <=> kept < arrived

(***************************************************************************)
(* A stream counts as copied (the row as successful) only if upstream      *)
(* ended it well and the client was written all there was to write, the    *)
(* event line held back included.                                          *)
(***************************************************************************)
CompleteMeansAll ==
  outcome = "complete" => feed = "eof" /\ pending = <<>> /\ eventLine = NoName
===============================================================================
