------------------------------- MODULE SSEFilter -------------------------------
(***************************************************************************)
(* The line filter of Responses streams: sseLineTransformer (internal/     *)
(* proxy/sse.go) as newResponsesSSEFilter sets it up. It reads upstream    *)
(* line by line, holds an event line back until it knows whether the data  *)
(* line under it stays, and drops a dropped line's blank line with it.     *)
(*                                                                         *)
(* Read goes on only when it has handed out what it had pending, so every  *)
(* line replaces pending. The content is not kept, only what a parser at   *)
(* each end makes of it: up and want upstream of the filter, down and got  *)
(* downstream. pending is in units, for the relay that hands it on.        *)
(***************************************************************************)
EXTENDS EventStream

CONSTANT Tidy  \* upstream sends at most one event and one data line an event

ASSUME TidyAssumption == Tidy \in BOOLEAN

VARIABLES eventLine,  \* the name on the event line held back, or NoName
          skipBlank,  \* the next line is dropped if it is blank
          pending,    \* units of the lines not handed out yet
          feed,       \* what upstream does: "open", "eof" or "failed"
          done,       \* the end was passed on
          up,         \* a parser reading what upstream sends
          want,       \* the events upstream sent that should arrive, renamed
          down,       \* a parser reading what the filter puts out
          got         \* the events it made of that

filterVars == <<eventLine, skipBlank, pending, feed, done, up, want, down, got>>

(***************************************************************************)
(* A line of n units; the last one carries the newline if it has one.      *)
(***************************************************************************)
Units(n, usage, ended) ==
  [i \in 1..n |-> [ends |-> i = n /\ ended, size |-> n, usage |-> usage]]

Short == Units(1, 0, TRUE)

FilterInit == /\ eventLine = NoName
              /\ skipBlank = FALSE
              /\ pending = <<>>
              /\ feed = "open"
              /\ done = FALSE
              /\ up = Between
              /\ want = <<>>
              /\ down = Between
              /\ got = <<>>

Reading == pending = <<>> /\ ~done

(***************************************************************************)
(* flushEventLine: the held event line goes out before what follows it.    *)
(***************************************************************************)
Held == IF eventLine = NoName THEN <<>> ELSE Short

Flushed == IF eventLine = NoName THEN down ELSE NameLine(down, eventLine)

(***************************************************************************)
(* A ping is looked for in the payload as it came, an unknown event in the *)
(* renamed one.                                                            *)
(***************************************************************************)
\* Mutant of Dropped: a payload is judged before it is renamed.
DroppedByOldName(p) == isPingPayload(p) \/ dropUnknownResponsesEvent(p)

Dropped(p) == isPingPayload(p) \/ dropUnknownResponsesEvent(renameLegacyReasoningPayload(p))

(***************************************************************************)
(* What a client should get: text, and objects of a type it knows under    *)
(* the name it knows it by.                                                *)
(***************************************************************************)
Wanted(p) ==
  \/ p.form = "text"
  \/ /\ p.form = "object"
     /\ p.type # "ping"
     /\ rewriteLegacyReasoningEventNames(p.type) \in StreamTypes

Kept(parser) == \E i \in DOMAIN parser.data : Wanted(parser.data[i])

Renamed(parser) ==
  [name |-> rewriteLegacyReasoningEventNames(parser.name),
   data |-> [i \in DOMAIN parser.data |-> renameLegacyReasoningPayload(parser.data[i])]]
-------------------------------------------------------------------------------
\* Mutant of ReadEventLine: the event line is not held back.
ReadEventLineAtOnce(name) ==
  /\ Reading /\ feed = "open"
  /\ Tidy => up = Between
  /\ up' = NameLine(up, name)
  /\ pending' = Short
  /\ down' = NameLine(down, rewriteLegacyReasoningEventNames(name))
  /\ skipBlank' = FALSE
  /\ UNCHANGED <<eventLine, feed, done, want, got>>

ReadEventLine(name) ==
  /\ Reading /\ feed = "open"
  /\ Tidy => up = Between
  /\ up' = NameLine(up, name)
  /\ pending' = Held
  /\ down' = Flushed
  /\ eventLine' = rewriteLegacyReasoningEventNames(name)
  /\ skipBlank' = FALSE
  /\ UNCHANGED <<feed, done, want, got>>

(***************************************************************************)
(* A data line: a ping is dropped as it came, anything else is judged      *)
(* after renaming. The event line held back shares its fate.               *)
(***************************************************************************)
ReadData(p) ==
  /\ Reading /\ feed = "open"
  /\ Tidy => up.data = <<>>
  /\ up' = DataLine(up, p)
  /\ IF Dropped(p)
       THEN skipBlank' = TRUE /\ UNCHANGED <<pending, down>>
       ELSE /\ pending' = Held \o Units(p.size, p.usage, TRUE)
            /\ down' = DataLine(Flushed, renameLegacyReasoningPayload(p))
            /\ skipBlank' = FALSE
  /\ eventLine' = NoName
  /\ UNCHANGED <<feed, done, want, got>>

(***************************************************************************)
(* Comments and id or retry lines go through.                              *)
(***************************************************************************)
ReadOther ==
  /\ Reading /\ feed = "open"
  /\ Tidy => up.name = NoName \/ up.data # <<>>
  /\ pending' = Held \o Short
  /\ down' = Flushed
  /\ eventLine' = NoName
  /\ skipBlank' = FALSE
  /\ UNCHANGED <<feed, done, up, want, got>>

ReadBlank ==
  /\ Reading /\ feed = "open"
  /\ up' = Between
  /\ want' = IF Kept(up) THEN BlankLine(want, Renamed(up)) ELSE want
  /\ IF skipBlank
       THEN UNCHANGED <<pending, down, got, eventLine>>
       ELSE /\ pending' = Held \o Short
            /\ down' = Between
            /\ got' = BlankLine(got, Flushed)
            /\ eventLine' = NoName
  /\ skipBlank' = FALSE
  /\ UNCHANGED <<feed, done>>

(***************************************************************************)
(* Upstream ends, well or not, perhaps in the middle of a line. A parser   *)
(* makes nothing of a line that does not end; the filter treats it as any. *)
(***************************************************************************)
UpstreamEnds ==
  /\ Reading /\ feed = "open"
  /\ feed' \in {"eof", "failed"}
  /\ UNCHANGED <<eventLine, skipBlank, pending, done, up, want, down, got>>

ReadCut(p) ==
  /\ Reading /\ feed = "open"
  /\ feed' \in {"eof", "failed"}
  /\ IF Dropped(p)
       THEN UNCHANGED <<pending, down>>
       ELSE /\ pending' = Held \o Units(p.size, p.usage, FALSE)
            /\ down' = Flushed
  /\ skipBlank' = Dropped(p)
  /\ eventLine' = NoName
  /\ UNCHANGED <<done, up, want, got>>

ReadCutOther ==
  /\ Reading /\ feed = "open"
  /\ feed' \in {"eof", "failed"}
  /\ pending' = Held \o Units(1, 0, FALSE)
  /\ down' = Flushed
  /\ skipBlank' = FALSE
  /\ eventLine' = NoName
  /\ UNCHANGED <<done, up, want, got>>

ReadEnd ==
  /\ Reading /\ feed # "open"
  /\ pending' = Held
  /\ down' = Flushed
  /\ eventLine' = NoName
  /\ done' = TRUE
  /\ UNCHANGED <<skipBlank, feed, up, want, got>>
-------------------------------------------------------------------------------
FilterTypeOK ==
  /\ eventLine \in Types \cup {NoName}
  /\ skipBlank \in BOOLEAN
  /\ feed \in {"open", "eof", "failed"}
  /\ done \in BOOLEAN
  /\ up \in [name : Types \cup {NoName}, data : Seq(AllPayloads)]
  /\ down \in [name : Types \cup {NoName}, data : Seq(AllPayloads)]

(***************************************************************************)
(* A client that parses what the filter puts out gets, at every moment,    *)
(* exactly the events upstream has ended, in order: without pings and      *)
(* unknown events, the legacy reasoning events under their new names, and  *)
(* no event under the name of a dropped one.                               *)
(***************************************************************************)
EventsFaithful == got = want

(***************************************************************************)
(* responsesanitize_test.go line 26, "kept event lost its terminating      *)
(* blank line": where upstream has ended its event, nothing of it is left  *)
(* open on the client's side to be joined to the next one.                 *)
(***************************************************************************)
KeptEventTerminated == up.data = <<>> => down.data = <<>>
===============================================================================
