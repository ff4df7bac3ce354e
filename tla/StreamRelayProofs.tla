--------------------------- MODULE StreamRelayProofs ---------------------------
(***************************************************************************)
(* What holds of every stream, of any length and in any chunks. For the    *)
(* events, where upstream keeps to one data line an event, the invariant   *)
(* says what the filter and the client's parser know of the event upstream *)
(* is in the middle of: nothing but the held name before its data line,    *)
(* and after it all of it or nothing. For the usage, TrackInv says of the  *)
(* units not handed on yet that they are lines, the first perhaps begun in *)
(* an earlier chunk, and of the tracker that it has what came of that one, *)
(* or gave it up because it was too long.                                  *)
(***************************************************************************)
EXTENDS StreamRelay, FiniteSetTheorems, WellFoundedInduction, TLAPS

RenamedName(n) == rewriteLegacyReasoningEventNames(n)
RenamedPayload(p) == renameLegacyReasoningPayload(p)

BeforeData == \E n \in Types \cup {NoName} :
  /\ up = [name |-> n, data |-> <<>>]
  /\ down = Between
  /\ eventLine = RenamedName(n)
  /\ skipBlank = FALSE

AfterData == \E n \in Types \cup {NoName}, p \in Payloads :
  /\ up = [name |-> n, data |-> <<p>>]
  /\ eventLine = NoName
  /\ IF Wanted(p)
       THEN down = [name |-> RenamedName(n), data |-> <<RenamedPayload(p)>>] /\ skipBlank = FALSE
       ELSE down = Between

FilterInv == /\ got = want
             /\ feed = "open" => BeforeData \/ AfterData

(***************************************************************************)
(* The filter drops a payload exactly when a client should not get it.     *)
(***************************************************************************)
LEMMA DroppedIsUnwanted == \A p \in Payloads : Dropped(p) <=> ~Wanted(p)
<1> SUFFICES ASSUME NEW p \in Payloads PROVE Dropped(p) <=> ~Wanted(p)
  OBVIOUS
<1>1. p \in AllPayloads
  BY StreamAssumption
<1>2. p.form # "object" => renameLegacyReasoningPayload(p) = p
  BY DEF renameLegacyReasoningPayload
<1>3. p.form = "object" =>
        /\ renameLegacyReasoningPayload(p).form = "object"
        /\ renameLegacyReasoningPayload(p).type = rewriteLegacyReasoningEventNames(p.type)
  BY <1>1 DEF renameLegacyReasoningPayload, AllPayloads
<1>4. CASE p.form = "object"
  BY <1>3, <1>4 DEF Dropped, Wanted, isPingPayload, dropUnknownResponsesEvent,
                    isUnknownResponsesEventPayload
<1>5. CASE p.form # "object"
  BY <1>1, <1>2, <1>5 DEF Dropped, Wanted, isPingPayload, dropUnknownResponsesEvent,
                          isUnknownResponsesEventPayload, AllPayloads, Forms
<1> QED
  BY <1>4, <1>5

LEMMA RenamedNames ==
  /\ RenamedName(NoName) = NoName
  /\ \A n \in Types : RenamedName(n) # NoName
  BY StreamAssumption DEF RenamedName, rewriteLegacyReasoningEventNames, NoName

(***************************************************************************)
(* The steps of the filter.                                                *)
(***************************************************************************)
LEMMA EventLineKeeps == ASSUME Tidy, FilterInv, NEW t \in Types, ReadEventLine(t)
                        PROVE  FilterInv'
<1>1. up = Between /\ feed = "open"
  BY DEF ReadEventLine
<1>2. BeforeData /\ eventLine = NoName /\ down = Between
  <2>1. up.data = <<>> /\ up.name = NoName
    BY <1>1 DEF Between
  <2>2. ~AfterData
    BY <2>1 DEF AfterData
  <2> QED
    BY <1>1, <2>1, <2>2, RenamedNames DEF FilterInv, BeforeData
<1>3. up' = [name |-> t, data |-> <<>>]
  BY <1>1 DEF ReadEventLine, NameLine, Between
<1>4. down' = Between
  BY <1>2 DEF ReadEventLine, Flushed
<1>5. BeforeData'
  BY <1>3, <1>4 DEF ReadEventLine, BeforeData, RenamedName
<1> QED
  BY <1>5 DEF FilterInv, ReadEventLine

LEMMA DataKeeps == ASSUME Tidy, FilterInv, NEW p \in Payloads, ReadData(p)
                   PROVE  FilterInv'
<1>1. up.data = <<>> /\ feed = "open"
  BY DEF ReadData
<1>2. BeforeData
  <2>1. ASSUME AfterData PROVE FALSE
    <3>1. PICK n \in Types \cup {NoName}, q \in Payloads : up = [name |-> n, data |-> <<q>>]
      BY <2>1 DEF AfterData
    <3> QED
      BY <1>1, <3>1
  <2> QED
    BY <1>1, <2>1 DEF FilterInv
<1>3. PICK n \in Types \cup {NoName} : /\ up = [name |-> n, data |-> <<>>]
                                       /\ down = Between
                                       /\ eventLine = RenamedName(n)
                                       /\ skipBlank = FALSE
  BY <1>2 DEF BeforeData
<1>4. up' = [name |-> n, data |-> <<p>>]
  BY <1>3 DEF ReadData, DataLine
<1>5. Flushed = [name |-> RenamedName(n), data |-> <<>>]
  BY <1>3, RenamedNames DEF Flushed, Between, NameLine
<1>6. CASE Dropped(p)
  BY <1>3, <1>4, <1>6, DroppedIsUnwanted DEF FilterInv, AfterData, ReadData
<1>7. CASE ~Dropped(p)
  <2>1. down' = [name |-> RenamedName(n), data |-> <<RenamedPayload(p)>>]
    BY <1>5, <1>7 DEF ReadData, DataLine, RenamedPayload
  <2> QED
    BY <1>4, <1>7, <2>1, DroppedIsUnwanted DEF FilterInv, AfterData, ReadData
<1> QED
  BY <1>6, <1>7

LEMMA OtherKeeps == ASSUME Tidy, FilterInv, ReadOther
                    PROVE  FilterInv'
<1>1. CASE BeforeData
  <2>1. PICK n \in Types \cup {NoName} : /\ up = [name |-> n, data |-> <<>>]
                                         /\ down = Between
                                         /\ eventLine = RenamedName(n)
    BY <1>1 DEF BeforeData
  <2>2. n = NoName
    BY <2>1 DEF ReadOther
  <2>3. eventLine = NoName /\ down' = Between
    BY <2>1, <2>2, RenamedNames DEF ReadOther, Flushed
  <2> QED
    BY <2>1, <2>2, <2>3, RenamedNames DEF FilterInv, BeforeData, ReadOther
<1>2. CASE AfterData
  BY <1>2 DEF FilterInv, AfterData, ReadOther, Flushed
<1> QED
  BY <1>1, <1>2 DEF FilterInv, ReadOther

LEMMA BlankKeeps == ASSUME FilterInv, ReadBlank
                    PROVE  FilterInv'
<1>1. CASE BeforeData
  <2>1. PICK n \in Types \cup {NoName} : /\ up = [name |-> n, data |-> <<>>]
                                         /\ down = Between
                                         /\ skipBlank = FALSE
    BY <1>1 DEF BeforeData
  <2>2. want' = want
    BY <2>1 DEF ReadBlank, Kept, BlankLine, Renamed
  <2>3. Flushed.data = <<>>
    BY <2>1 DEF Flushed, NameLine, Between
  <2>4. got' = got
    BY <2>1, <2>3 DEF ReadBlank, BlankLine
  <2>5. BeforeData'
    BY <2>1, RenamedNames DEF ReadBlank, BeforeData, Between
  <2> QED
    BY <2>2, <2>4, <2>5 DEF FilterInv
<1>2. CASE AfterData
  <2>1. PICK n \in Types \cup {NoName}, p \in Payloads :
          /\ up = [name |-> n, data |-> <<p>>]
          /\ eventLine = NoName
          /\ IF Wanted(p)
               THEN /\ down = [name |-> RenamedName(n), data |-> <<RenamedPayload(p)>>]
                    /\ skipBlank = FALSE
               ELSE down = Between
    BY <1>2 DEF AfterData
  <2>2. Kept(up) <=> Wanted(p)
    BY <2>1 DEF Kept
  <2>3. eventLine' = NoName /\ up' = Between /\ skipBlank' = FALSE
    BY <2>1 DEF ReadBlank
  <2>4. Flushed = down
    BY <2>1 DEF Flushed
  <2>5. CASE Wanted(p)
    <3>1. Renamed(up) = down
      BY <2>1, <2>5 DEF Renamed, RenamedName, RenamedPayload
    <3>2. down.data # <<>>
      BY <2>1, <2>5
    <3>3. got' = Append(got, down) /\ want' = Append(want, down)
      BY <2>1, <2>2, <2>4, <2>5, <3>1, <3>2 DEF ReadBlank, BlankLine
    <3> QED
      BY <2>1, <2>3, <2>5, <3>3, RenamedNames DEF FilterInv, BeforeData, ReadBlank, Between
  <2>6. CASE ~Wanted(p)
    <3>1. want' = want
      BY <2>2, <2>6 DEF ReadBlank
    <3>2. down.data = <<>>
      BY <2>1, <2>6 DEF Between
    <3>3. got' = got /\ down' = Between
      BY <2>1, <2>4, <2>6, <3>2 DEF ReadBlank, BlankLine
    <3> QED
      BY <2>3, <3>1, <3>3, RenamedNames DEF FilterInv, BeforeData, Between
  <2> QED
    BY <2>5, <2>6
<1> QED
  BY <1>1, <1>2 DEF FilterInv, ReadBlank

LEMMA EndKeeps ==
  ASSUME FilterInv,
         \/ UpstreamEnds \/ ReadEnd \/ ReadCutOther
         \/ \E p \in Payloads : ReadCut(p)
  PROVE  FilterInv'
  BY DEF FilterInv, UpstreamEnds, ReadEnd, ReadCutOther, ReadCut

(***************************************************************************)
(* Of a stream whose events have one data line each, the client gets       *)
(* exactly the events it should, renamed, each as soon as upstream has     *)
(* ended it, whatever pings, unknown events and comments come in between.  *)
(***************************************************************************)
THEOREM StreamFaithful == Tidy /\ Spec => []EventsFaithful
<1> SUFFICES ASSUME Tidy PROVE Spec => []EventsFaithful
  OBVIOUS
<1>1. Init => FilterInv
  BY RenamedNames DEF Init, FilterInit, FilterInv, BeforeData, Between
<1>2. FilterInv /\ [Next]_vars => FilterInv'
  <2> SUFFICES ASSUME FilterInv, [Next]_vars PROVE FilterInv'
    OBVIOUS
  <2>1. CASE FilterLine
    BY <2>1, EventLineKeeps, DataKeeps, OtherKeeps, BlankKeeps, EndKeeps DEF FilterLine
  <2>2. CASE FilterEnd
    BY <2>2, EndKeeps DEF FilterEnd
  <2>3. CASE PlainLine
    BY <2>3 DEF PlainLine, FilterInv, BeforeData, AfterData
  <2>4. CASE PlainEnd
    BY <2>4 DEF PlainEnd, FilterInv, BeforeData, AfterData
  <2>5. CASE copyStream
    BY <2>5 DEF copyStream, FilterInv, BeforeData, AfterData
  <2>6. CASE copyEnds
    BY <2>6 DEF copyEnds, filterVars, FilterInv, BeforeData, AfterData
  <2>7. CASE UNCHANGED vars
    BY <2>7 DEF vars, filterVars, FilterInv, BeforeData, AfterData
  <2> QED
    BY <2>1, <2>2, <2>3, <2>4, <2>5, <2>6, <2>7 DEF Next
<1>3. FilterInv => EventsFaithful
  BY DEF FilterInv, EventsFaithful
<1> QED
  BY <1>1, <1>2, <1>3, PTL DEF Spec

(***************************************************************************)
(* The capture, by arithmetic alone.                                       *)
(***************************************************************************)
Honest(b, total) == /\ b \in [kept : Nat, truncated : BOOLEAN]
                    /\ b.kept = IF Limit > 0 /\ total > Limit THEN Limit ELSE total
                    /\ b.truncated = (b.kept < total)

Buffered == [kept |-> kept, truncated |-> truncated]

CaptureInv == arrived \in Nat /\ Honest(Buffered, arrived)

LEMMA WriteIsHonest == ASSUME NEW b, NEW total \in Nat, NEW n \in Nat, Honest(b, total)
                       PROVE  Honest(cappedBufferWrite(b, n), total + n)
<1> DEFINE c == cappedBufferWrite(b, n)
<1>1. CASE n = 0
  BY <1>1 DEF Honest, cappedBufferWrite
<1>2. CASE n # 0 /\ b.truncated
  <2>1. c = b /\ b.kept = Limit /\ Limit > 0 /\ total > Limit
    BY <1>2, RelayAssumption DEF Honest, cappedBufferWrite
  <2> QED
    BY <1>2, <2>1, RelayAssumption DEF Honest
<1>3. CASE n # 0 /\ ~b.truncated
  <2>1. b.kept = total /\ (Limit > 0 => total <= Limit)
    BY <1>3, RelayAssumption DEF Honest
  <2>2. CASE Limit > 0 /\ n > Limit - b.kept
    <3>1. c = [kept |-> Limit, truncated |-> TRUE]
      BY <1>3, <2>2 DEF cappedBufferWrite
    <3>2. Limit < total + n /\ Limit > 0
      BY <2>1, <2>2, RelayAssumption
    <3>3. c.kept = Limit /\ c.truncated = TRUE /\ c \in [kept : Nat, truncated : BOOLEAN]
      BY <3>1, RelayAssumption
    <3>4. (c.kept < total + n) = TRUE
      BY <3>2, <3>3
    <3> QED
      BY <3>2, <3>3, <3>4, RelayAssumption DEF Honest
  <2>3. CASE ~(Limit > 0 /\ n > Limit - b.kept)
    <3>1. c = [b EXCEPT !.kept = @ + n]
      BY <1>3, <2>3 DEF cappedBufferWrite
    <3>2. c = [kept |-> total + n, truncated |-> FALSE]
      BY <1>3, <2>1, <3>1 DEF Honest
    <3>3. /\ c.kept = total + n /\ c.truncated = FALSE
          /\ c \in [kept : Nat, truncated : BOOLEAN]
      BY <3>2
    <3>4. (c.kept < total + n) = FALSE
      BY <3>3
    <3>5. ~(Limit > 0 /\ total + n > Limit)
      BY <2>1, <2>3, RelayAssumption
    <3> QED
      BY <3>3, <3>4, <3>5 DEF Honest
  <2> QED
    BY <2>2, <2>3
<1> QED
  BY <1>1, <1>2, <1>3 DEF Honest

LEMMA LineKeepsCapture == ASSUME CaptureInv, NEW n \in Nat \ {0}, Tee(n)
                          PROVE  CaptureInv'
<1>1. PICK k \in 1..n :
        LET b == cappedBufferWrite(cappedBufferWrite(Buffered, k), n - k)
        IN kept' = b.kept /\ truncated' = b.truncated
  BY DEF Tee, Buffered
<1> DEFINE first == cappedBufferWrite(Buffered, k)
           second == cappedBufferWrite(first, n - k)
<1>2. Honest(first, arrived + k) /\ arrived + k \in Nat
  BY WriteIsHonest DEF CaptureInv
<1>3. Honest(second, (arrived + k) + (n - k))
  <2> HIDE DEF first
  <2>1. n - k \in Nat
    OBVIOUS
  <2> QED
    BY <1>2, <2>1, WriteIsHonest
<1>4. (arrived + k) + (n - k) = arrived + n
  BY DEF CaptureInv
<1>5. arrived' = arrived + n
  BY DEF Tee
<1>6. Buffered' = second
  <2>1. kept' = second.kept /\ truncated' = second.truncated
    BY <1>1
  <2> HIDE DEF second
  <2> QED
    BY <1>3, <2>1 DEF Honest, Buffered
<1> QED
  BY <1>3, <1>4, <1>5, <1>6 DEF CaptureInv, Honest

LEMMA CaptureInvariant == Spec => []CaptureInv
<1>1. Init => CaptureInv
  <2> SUFFICES ASSUME Init PROVE CaptureInv
    OBVIOUS
  <2>1. arrived = 0 /\ Buffered = [kept |-> 0, truncated |-> FALSE]
    BY DEF Init, Buffered
  <2>2. (0 < 0) = FALSE /\ ~(Limit > 0 /\ 0 > Limit)
    BY RelayAssumption
  <2> QED
    BY <2>1, <2>2 DEF CaptureInv, Honest
<1>2. CaptureInv /\ [Next]_vars => CaptureInv'
  <2> SUFFICES ASSUME CaptureInv, [Next]_vars PROVE CaptureInv'
    OBVIOUS
  <2>1. ASSUME NEW n \in Nat \ {0}, Line(n) PROVE CaptureInv'
    BY <2>1, LineKeepsCapture DEF Line
  <2>2. CASE FilterLine
    <3>1. \A p \in Payloads : p.size \in Nat \ {0}
      BY StreamAssumption DEF AllPayloads
    <3> QED
      BY <2>1, <2>2, <3>1 DEF FilterLine
  <2>3. CASE PlainLine
    BY <2>1, <2>3, StreamAssumption DEF PlainLine
  <2>4. CASE UNCHANGED captureVars
    BY <2>4 DEF captureVars, CaptureInv, Honest, Buffered
  <2> QED
    BY <2>2, <2>3, <2>4 DEF Next, FilterEnd, PlainEnd, copyStream, copyEnds, vars
<1> QED
  BY <1>1, <1>2, PTL DEF Spec

(***************************************************************************)
(* For every limit, and however the stream is cut into writes, the capture *)
(* is a beginning of the stream and flagged exactly if it is not all.      *)
(***************************************************************************)
THEOREM CaptureIsHonest == Spec => []CaptureHonest
<1>1. CaptureInv => CaptureHonest
  BY DEF CaptureInv, Honest, Buffered, CaptureHonest
<1> QED
  BY <1>1, CaptureInvariant, PTL

(***************************************************************************)
(* Without a filter no event line is held; once the end was passed on      *)
(* upstream has ended and none is held either; and nothing moves after     *)
(* copyStream returned.                                                    *)
(***************************************************************************)
EndInv == /\ ~filtered => eventLine = NoName
          /\ done => feed # "open" /\ eventLine = NoName
          /\ outcome = "complete" => feed = "eof" /\ pending = <<>> /\ done

(***************************************************************************)
(* A stream that counts as copied was ended well by upstream and handed to *)
(* the client down to the event line held back.                            *)
(***************************************************************************)
THEOREM CompletionMeansAll == Spec => []CompleteMeansAll
<1>1. Init => EndInv
  BY DEF Init, FilterInit, EndInv
<1>2. EndInv /\ [Next]_vars => EndInv'
  <2> SUFFICES ASSUME EndInv, [Next]_vars PROVE EndInv'
    OBVIOUS
  <2>1. CASE FilterLine
    <3>1. filtered' = filtered /\ filtered
      BY <2>1 DEF FilterLine, Line
    <3>2. outcome = "copying" /\ outcome' = outcome
      BY <2>1 DEF FilterLine, Line, Copying
    <3>3. ~done /\ done' = done
      BY <2>1 DEF FilterLine, Reading, ReadEventLine, ReadData, ReadCut, ReadOther, ReadBlank,
                  ReadCutOther
    <3> QED
      BY <3>1, <3>2, <3>3 DEF EndInv
  <2>2. CASE FilterEnd
    BY <2>2 DEF FilterEnd, EndInv, Reading, UpstreamEnds, ReadEnd
  <2>3. CASE PlainLine
    BY <2>3 DEF PlainLine, Line, Copying, EndInv
  <2>4. CASE PlainEnd
    BY <2>4 DEF PlainEnd, EndInv
  <2>5. CASE copyStream
    BY <2>5 DEF copyStream, EndInv
  <2>6. CASE copyEnds
    BY <2>6 DEF copyEnds, filterVars, EndInv
  <2>7. CASE UNCHANGED vars
    BY <2>7 DEF vars, filterVars, EndInv
  <2> QED
    BY <2>1, <2>2, <2>3, <2>4, <2>5, <2>6, <2>7 DEF Next
<1>3. EndInv => CompleteMeansAll
  BY DEF EndInv, CompleteMeansAll
<1> QED
  BY <1>1, <1>2, <1>3, PTL DEF Spec

-------------------------------------------------------------------------------
(***************************************************************************)
(* The usage tracker. It and what it may say are folds over a chunk: a     *)
(* recursive function over the subsets of the chunk's indices, of which    *)
(* only the beginnings 1..i are of use. That there is such a function is   *)
(* shown by a least counterexample.                                        *)
(***************************************************************************)
LEMMA LeastExists == ASSUME NEW S \in SUBSET Nat, S # {}
                     PROVE  \E m \in S : \A y \in S : m <= y
<1>1. PICK x \in S : \A y \in S : <<y, x>> \notin OpToRel(<, Nat)
  BY NatLessThanWellFounded, WFMin
<1>2. ASSUME NEW y \in S
      PROVE  x <= y
  <2>1. <<y, x>> \in Nat \X Nat /\ <<y, x>>[1] = y /\ <<y, x>>[2] = x
    OBVIOUS
  <2>2. y < x => <<y, x>> \in OpToRel(<, Nat)
    BY <2>1 DEF OpToRel
  <2>3. ~(y < x)
    BY <1>1, <2>2, Zenon
  <2> QED
    BY <2>3
<1> QED
  BY <1>2

\* What holds at the beginning of a chunk and from one unit to the next.
LEMMA UnitByUnit ==
  ASSUME NEW n \in Nat, NEW P, 0 \in P, \A i \in 1..n : i - 1 \in P => i \in P
  PROVE  \A i \in 0..n : i \in P
<1> DEFINE Bad == (0..n) \ P
<1> SUFFICES ASSUME Bad # {} PROVE FALSE
  OBVIOUS
<1>1. PICK m \in Bad : \A k \in Bad : m <= k
  <2>1. Bad \in SUBSET Nat
    OBVIOUS
  <2> HIDE DEF Bad
  <2> QED
    BY <2>1, LeastExists
<1>2. m \in 1..n /\ m - 1 \in 0..n
  OBVIOUS
<1>3. m - 1 \notin Bad
  BY <1>1, <1>2
<1> QED
  BY <1>2, <1>3

\* g folds step over every subset of 1..m, the highest index last.
Folding(g, m, base, step) ==
  \A s \in SUBSET (1..m) :
    g[s] = IF s = {} THEN base ELSE step[<<Max(s), g[s \ {Max(s)}]>>]

LEMMA HighestIs ==
  ASSUME NEW m \in Nat, NEW s \in SUBSET (1..m), m \in s
  PROVE  Max(s) = m
<1>1. \A y \in s : m >= y
  OBVIOUS
<1>2. \E x \in s : \A y \in s : x >= y
  BY <1>1
<1>3. Max(s) \in s /\ \A y \in s : Max(s) >= y
  BY <1>2, Zenon DEF Max
<1>4. Max(s) \in 1..m /\ Max(s) >= m
  BY <1>3
<1> QED
  BY <1>4

LEMMA HighestIn ==
  ASSUME NEW m \in Nat, NEW s \in SUBSET (1..m), s # {}
  PROVE  Max(s) \in s
<1> DEFINE Above == {k \in 0..m : \A y \in s : y <= k}
<1>1. Above \in SUBSET Nat /\ m \in Above
  OBVIOUS
<1>2. PICK x \in Above : \A k \in Above : x <= k
  <2> HIDE DEF Above
  <2> QED
    BY <1>1, LeastExists
<1>3. x \in s
  <2> SUFFICES ASSUME x \notin s PROVE FALSE
    OBVIOUS
  <2>1. \A y \in s : y <= x - 1
    OBVIOUS
  <2>2. x - 1 \in 0..m
    <3>1. PICK y \in s : TRUE
      OBVIOUS
    <3>2. y \in 1..m /\ y <= x - 1 /\ x \in 0..m
      BY <2>1
    <3> QED
      BY <3>2
  <2>3. x - 1 \in Above
    BY <2>1, <2>2
  <2> QED
    BY <1>2, <2>3
<1>4. \E z \in s : \A y \in s : z >= y
  BY <1>3
<1> QED
  BY <1>4, Zenon DEF Max

LEMMA FoldingExists ==
  ASSUME NEW n \in Nat, NEW V, NEW base \in V, NEW step,
         \A x \in 1..n, v \in V : step[<<x, v>>] \in V
  PROVE  \E g \in [SUBSET (1..n) -> V] : Folding(g, n, base, step)
<1> DEFINE Good(m) == \E g \in [SUBSET (1..m) -> V] : Folding(g, m, base, step)
           P == {m \in 0..n : Good(m)}
<1>1. 0 \in P
  <2> DEFINE g == [s \in SUBSET (1..0) |-> base]
  <2>1. g \in [SUBSET (1..0) -> V] /\ Folding(g, 0, base, step)
    BY DEF Folding
  <2> QED
    BY <2>1
<1>2. ASSUME NEW i \in 1..n, i - 1 \in P
      PROVE  i \in P
  <2> DEFINE m == i - 1
             D == SUBSET (1..m)
             E == SUBSET (1..i)
  <2>1. PICK g \in [D -> V] : Folding(g, m, base, step)
    BY <1>2
  <2> DEFINE h == [s \in E |-> IF i \in s THEN step[<<i, g[s \ {i}]>>] ELSE g[s]]
  <2>2. /\ \A s \in E : i \in s => s \ {i} \in D
        /\ \A s \in E : i \notin s => s \in D
        /\ \A s \in D : s \in E /\ i \notin s
    OBVIOUS
  <2>3. h \in [E -> V]
    BY <2>2
  <2>4. ASSUME NEW s \in E
        PROVE  h[s] = IF s = {} THEN base ELSE step[<<Max(s), h[s \ {Max(s)}]>>]
    <3>1. \A u \in D : h[u] = g[u]
      BY <2>2
    <3>2. CASE i \in s
      <4>1. Max(s) = i
        BY <3>2, HighestIs
      <4>2. h[s] = step[<<i, g[s \ {i}]>>]
        BY <3>2
      <4>3. h[s \ {i}] = g[s \ {i}]
        BY <2>2, <3>1, <3>2
      <4> HIDE DEF h
      <4> QED
        BY <3>2, <4>1, <4>2, <4>3
    <3>3. CASE i \notin s
      <4>1. s \in D /\ h[s] = g[s]
        BY <2>2, <3>1, <3>3
      <4>2. g[s] = IF s = {} THEN base ELSE step[<<Max(s), g[s \ {Max(s)}]>>]
        BY <2>1, <4>1 DEF Folding
      <4>3. s \ {Max(s)} \in D
        BY <4>1
      <4>4. h[s \ {Max(s)}] = g[s \ {Max(s)}]
        BY <3>1, <4>3
      <4> HIDE DEF h, D
      <4> QED
        BY <4>1, <4>2, <4>4
    <3> QED
      BY <3>2, <3>3
  <2>5. Folding(h, i, base, step)
    <3> HIDE DEF h
    <3> QED
      BY <2>4 DEF Folding
  <2> HIDE DEF h
  <2> QED
    BY <2>3, <2>5
<1>3. \A i \in 0..n : i \in P
  <2> HIDE DEF P
  <2> QED
    BY <1>1, <1>2, UnitByUnit
<1>4. n \in P
  <2>1. n \in 0..n
    OBVIOUS
  <2> HIDE DEF P
  <2> QED
    BY <1>3, <2>1
<1> HIDE DEF Good
<1>5. Good(n)
  BY <1>4
<1> QED
  BY <1>5 DEF Good

(***************************************************************************)
(* The two folds of the relay, unit by unit.                               *)
(***************************************************************************)
Unit == [ends : BOOLEAN, size : Nat, usage : Usages]

Tracker == [tail : Nat, skipping : BOOLEAN, last : Usages]

\* A tracker after a chunk, but for what it forgets then; and what it may say.
Observed(t, chunk) == FoldLeft(observeUnit, t, chunk)

Allowed(set, chunk) == FoldLeft(allow, set, chunk)

LEMMA ObserveUnitType ==
  ASSUME NEW t \in Tracker, NEW unit \in Unit
  PROVE  observeUnit(t, unit) \in Tracker
  BY DEF observeUnit, Tracker, Unit

LEMMA AllowType ==
  ASSUME NEW set \in SUBSET Usages, NEW unit \in Unit
  PROVE  allow(set, unit) \in SUBSET Usages
  BY DEF allow, Unit

LEMMA ObserveFolds ==
  ASSUME NEW chunk \in Seq(Unit), NEW t \in Tracker
  PROVE  \E r : /\ r[0] = t
                /\ \A i \in 1..Len(chunk) : r[i] = observeUnit(r[i - 1], chunk[i])
                /\ Observed(t, chunk) = r[Len(chunk)]
<1> DEFINE n == Len(chunk)
           step == [p \in (1..n) \X Tracker |-> observeUnit(p[2], chunk[p[1]])]
           Iterates(g) ==
             g = [s \in SUBSET DOMAIN chunk |->
                    IF s = {} THEN t ELSE observeUnit(g[s \ {Max(s)}], chunk[Max(s)])]
           h == CHOOSE g : Iterates(g)
<1>1. n \in Nat /\ DOMAIN chunk = 1..n /\ \A i \in 1..n : chunk[i] \in Unit
  OBVIOUS
<1>2. \A x \in 1..n, v \in Tracker : step[<<x, v>>] = observeUnit(v, chunk[x])
  OBVIOUS
<1>3. \A x \in 1..n, v \in Tracker : step[<<x, v>>] \in Tracker
  BY <1>1, <1>2, ObserveUnitType
<1>4. \E g : Iterates(g)
  <2>1. PICK g \in [SUBSET (1..n) -> Tracker] : Folding(g, n, t, step)
    <3> HIDE DEF n, step
    <3> QED
      BY <1>1, <1>3, FoldingExists
  <2>2. ASSUME NEW s \in SUBSET (1..n)
        PROVE  g[s] = IF s = {} THEN t ELSE observeUnit(g[s \ {Max(s)}], chunk[Max(s)])
    <3>1. g[s] = IF s = {} THEN t ELSE step[<<Max(s), g[s \ {Max(s)}]>>]
      BY <2>1 DEF Folding
    <3>2. s # {} => Max(s) \in 1..n /\ g[s \ {Max(s)}] \in Tracker
      BY <1>1, HighestIn
    <3> HIDE DEF step
    <3> QED
      BY <1>2, <3>1, <3>2
  <2>3. g = [s \in SUBSET (1..n) |->
               IF s = {} THEN t ELSE observeUnit(g[s \ {Max(s)}], chunk[Max(s)])]
    <3> HIDE DEF n
    <3> QED
      BY <2>2
  <2>4. Iterates(g)
    <3> HIDE DEF n
    <3> QED
      BY <1>1, <2>3
  <2> QED
    BY <2>4
<1>5. Iterates(h)
  <2> HIDE DEF Iterates
  <2> QED
    BY <1>4, Zenon
<1>6. Observed(t, chunk) = h[DOMAIN chunk]
  BY Zenon DEF Observed, FoldLeft, MapThenFoldSet, Max
<1> HIDE DEF h, step, n
<1> DEFINE r == [i \in 0..n |-> h[1..i]]
<1>7. r[0] = t
  <2>1. 1..0 = {}
    OBVIOUS
  <2>2. h[{}] = t
    BY <1>5, Zenon
  <2> QED
    BY <1>1, <2>1, <2>2
<1>8. ASSUME NEW i \in 1..n
      PROVE  r[i] = observeUnit(r[i - 1], chunk[i])
  <2>1. i \in Nat /\ i \in 1..i /\ i - 1 \in 0..n /\ i \in 0..n
    BY <1>1
  <2>2. (1..i) \ {i} = 1..(i - 1)
    BY <2>1
  <2>3. 1..i \in SUBSET DOMAIN chunk /\ 1..i # {}
    <3>1. \A x \in 1..i : x \in 1..n
      BY <1>1
    <3> QED
      BY <1>1, <2>1, <3>1, Zenon
  <2>4. Max(1..i) = i
    BY <2>1, HighestIs
  <2>5. h[1..i] = observeUnit(h[(1..i) \ {Max(1..i)}], chunk[Max(1..i)])
    BY <1>5, <2>3, Zenon
  <2>6. h[1..i] = observeUnit(h[1..(i - 1)], chunk[i])
    BY <2>2, <2>4, <2>5
  <2>7. r[i] = h[1..i] /\ r[i - 1] = h[1..(i - 1)]
    BY <2>1
  <2> HIDE DEF r
  <2> QED
    BY <2>6, <2>7
<1>9. Observed(t, chunk) = r[n]
  BY <1>1, <1>6
<1> HIDE DEF r
<1> QED
  BY <1>7, <1>8, <1>9 DEF n

LEMMA AllowFolds ==
  ASSUME NEW chunk \in Seq(Unit), NEW set \in SUBSET Usages
  PROVE  \E r : /\ r[0] = set
                /\ \A i \in 1..Len(chunk) : r[i] = allow(r[i - 1], chunk[i])
                /\ Allowed(set, chunk) = r[Len(chunk)]
<1> DEFINE n == Len(chunk)
           step == [p \in (1..n) \X (SUBSET Usages) |-> allow(p[2], chunk[p[1]])]
           Iterates(g) ==
             g = [s \in SUBSET DOMAIN chunk |->
                    IF s = {} THEN set ELSE allow(g[s \ {Max(s)}], chunk[Max(s)])]
           h == CHOOSE g : Iterates(g)
<1>1. n \in Nat /\ DOMAIN chunk = 1..n /\ \A i \in 1..n : chunk[i] \in Unit
  OBVIOUS
<1>2. \A x \in 1..n, v \in SUBSET Usages : step[<<x, v>>] = allow(v, chunk[x])
  OBVIOUS
<1>3. \A x \in 1..n, v \in SUBSET Usages : step[<<x, v>>] \in SUBSET Usages
  BY <1>1, <1>2, AllowType
<1>4. \E g : Iterates(g)
  <2>1. PICK g \in [SUBSET (1..n) -> (SUBSET Usages)] : Folding(g, n, set, step)
    <3> HIDE DEF n, step
    <3> QED
      BY <1>1, <1>3, FoldingExists
  <2>2. ASSUME NEW s \in SUBSET (1..n)
        PROVE  g[s] = IF s = {} THEN set ELSE allow(g[s \ {Max(s)}], chunk[Max(s)])
    <3>1. g[s] = IF s = {} THEN set ELSE step[<<Max(s), g[s \ {Max(s)}]>>]
      BY <2>1 DEF Folding
    <3>2. s # {} => Max(s) \in 1..n /\ g[s \ {Max(s)}] \in SUBSET Usages
      BY <1>1, HighestIn
    <3> HIDE DEF step
    <3> QED
      BY <1>2, <3>1, <3>2
  <2>3. g = [s \in SUBSET (1..n) |->
               IF s = {} THEN set ELSE allow(g[s \ {Max(s)}], chunk[Max(s)])]
    <3> HIDE DEF n
    <3> QED
      BY <2>2
  <2>4. Iterates(g)
    <3> HIDE DEF n
    <3> QED
      BY <1>1, <2>3
  <2> QED
    BY <2>4
<1>5. Iterates(h)
  <2> HIDE DEF Iterates
  <2> QED
    BY <1>4, Zenon
<1>6. Allowed(set, chunk) = h[DOMAIN chunk]
  BY Zenon DEF Allowed, FoldLeft, MapThenFoldSet, Max
<1> HIDE DEF h, step, n
<1> DEFINE r == [i \in 0..n |-> h[1..i]]
<1>7. r[0] = set
  <2>1. 1..0 = {}
    OBVIOUS
  <2>2. h[{}] = set
    BY <1>5, Zenon
  <2> QED
    BY <1>1, <2>1, <2>2
<1>8. ASSUME NEW i \in 1..n
      PROVE  r[i] = allow(r[i - 1], chunk[i])
  <2>1. i \in Nat /\ i \in 1..i /\ i - 1 \in 0..n /\ i \in 0..n
    BY <1>1
  <2>2. (1..i) \ {i} = 1..(i - 1)
    BY <2>1
  <2>3. 1..i \in SUBSET DOMAIN chunk /\ 1..i # {}
    <3>1. \A x \in 1..i : x \in 1..n
      BY <1>1
    <3> QED
      BY <1>1, <2>1, <3>1, Zenon
  <2>4. Max(1..i) = i
    BY <2>1, HighestIs
  <2>5. h[1..i] = allow(h[(1..i) \ {Max(1..i)}], chunk[Max(1..i)])
    BY <1>5, <2>3, Zenon
  <2>6. h[1..i] = allow(h[1..(i - 1)], chunk[i])
    BY <2>2, <2>4, <2>5
  <2>7. r[i] = h[1..i] /\ r[i - 1] = h[1..(i - 1)]
    BY <2>1
  <2> HIDE DEF r
  <2> QED
    BY <2>6, <2>7
<1>9. Allowed(set, chunk) = r[n]
  BY <1>1, <1>6
<1> HIDE DEF r
<1> QED
  BY <1>7, <1>8, <1>9 DEF n

(***************************************************************************)
(* What is pending is lines, the first of them perhaps begun in an earlier *)
(* chunk. e is the last end up to j, 0 if there is none.                   *)
(***************************************************************************)
LastEnd(s, e, j) == (e = 0 \/ s[e].ends) /\ \A x \in (e + 1)..j : ~s[x].ends

(***************************************************************************)
(* Of the line that ends at i after the end e, all is pending; of the      *)
(* first one the tracker has kept what came before, or it gave that up     *)
(* because it was too long.                                                *)
(***************************************************************************)
LinesKnown(s, t, skip) ==
  \A i \in 1..Len(s) : \A e \in 0..(i - 1) :
    s[i].ends /\ LastEnd(s, e, i - 1)
      => IF e > 0 THEN s[i].size = i - e
         ELSE IF skip THEN s[i].size - i > MaxTail
         ELSE t = s[i].size - i

\* What is pending ends with a line, and nothing of the next one was read.
Aligned(s, t, skip) ==
  IF s = <<>> THEN t = 0 /\ ~skip ELSE s[Len(s)].ends

TrackInv ==
  /\ pending \in Seq(Unit)
  /\ tail \in 0..MaxTail /\ skipping \in BOOLEAN /\ last \in Usages
  /\ possible \in SUBSET Usages /\ last \in possible
  /\ LinesKnown(pending, tail, skipping)
  /\ (feed = "open" \/ eventLine # NoName) => Aligned(pending, tail, skipping)
  /\ ~filtered => eventLine = NoName

\* What a tracker has of the line that k units of s end in, and had before them.
CarriedOver(s, t, skip, rt, rs, k) ==
  \E e \in 0..k : /\ LastEnd(s, e, k)
                  /\ e = 0 => rt = t + k
                  /\ e > 0 => rt = k - e
                  /\ rs <=> e = 0 /\ skip

(***************************************************************************)
(* Over a chunk, the first k pending units: what the tracker reports is    *)
(* what it may, and what it has of a line began at the last end.           *)
(***************************************************************************)
LEMMA ChunkObserved ==
  ASSUME NEW s \in Seq(Unit), NEW t \in Tracker, NEW set \in SUBSET Usages, t.last \in set,
         LinesKnown(s, t.tail, t.skipping), NEW k \in 1..Len(s),
         NEW chunk, chunk = SubSeq(s, 1, k)
  PROVE  /\ Observed(t, chunk) \in Tracker
         /\ Allowed(set, chunk) \in SUBSET Usages
         /\ Observed(t, chunk).last \in Allowed(set, chunk)
         /\ CarriedOver(s, t.tail, t.skipping, Observed(t, chunk).tail,
                        Observed(t, chunk).skipping, k)
<1>1. /\ chunk \in Seq(Unit) /\ Len(chunk) = k /\ k \in Nat
      /\ \A i \in 1..k : chunk[i] = s[i] /\ s[i] \in Unit
  OBVIOUS
<1>2. PICK r : /\ r[0] = t
               /\ \A i \in 1..Len(chunk) : r[i] = observeUnit(r[i - 1], chunk[i])
               /\ Observed(t, chunk) = r[Len(chunk)]
  BY <1>1, ObserveFolds, Zenon
<1>3. PICK q : /\ q[0] = set
               /\ \A i \in 1..Len(chunk) : q[i] = allow(q[i - 1], chunk[i])
               /\ Allowed(set, chunk) = q[Len(chunk)]
  BY <1>1, AllowFolds, Zenon
<1> DEFINE Since(e, j) == /\ LastEnd(s, e, j)
                          /\ (e = 0 => r[j].tail = t.tail + j)
                          /\ (e > 0 => r[j].tail = j - e)
                          /\ (r[j].skipping <=> e = 0 /\ t.skipping)
           At(j) == /\ r[j] \in Tracker /\ q[j] \in SUBSET Usages /\ r[j].last \in q[j]
                    /\ \E e \in 0..j : Since(e, j)
           P == {j \in 0..k : At(j)}
<1>4. 0 \in P
  <2>1. Since(0, 0)
    BY <1>2 DEF LastEnd, Tracker
  <2>2. r[0] \in Tracker /\ q[0] \in SUBSET Usages /\ r[0].last \in q[0]
    BY <1>2, <1>3
  <2>3. 0 \in 0..0 /\ 0 \in 0..k
    BY <1>1
  <2> HIDE DEF Since
  <2> QED
    BY <2>1, <2>2, <2>3
<1>5. ASSUME NEW i \in 1..k, i - 1 \in P
      PROVE  i \in P
  <2> DEFINE j == i - 1
  <2>1. /\ i \in 0..k /\ j \in 0..k /\ j + 1 = i /\ i \in 1..Len(s) /\ s[i] \in Unit
        /\ i \in Nat /\ j \in Nat
    BY <1>1
  <2>2. r[j] \in Tracker /\ q[j] \in SUBSET Usages /\ r[j].last \in q[j]
    BY <1>5
  <2>3. PICK e \in 0..j : Since(e, j)
    BY <1>5
  <2>4. r[i] = observeUnit(r[j], s[i]) /\ q[i] = allow(q[j], s[i])
    BY <1>1, <1>2, <1>3
  <2> HIDE DEF j
  <2>5. r[i] \in Tracker /\ q[i] \in SUBSET Usages
    BY <2>1, <2>2, <2>4, ObserveUnitType, AllowType
  <2>6. CASE ~s[i].ends
    <3>1. /\ r[i].tail = r[j].tail + 1 /\ r[i].skipping = r[j].skipping
          /\ r[i].last = r[j].last /\ q[i] = q[j]
      BY <2>2, <2>4, <2>6 DEF observeUnit, allow, Tracker
    <3>2. LastEnd(s, e, i)
      BY <2>1, <2>3, <2>6 DEF LastEnd
    <3>3. (e = 0 => r[i].tail = t.tail + i) /\ (e > 0 => r[i].tail = i - e)
      <4>1. t.tail \in Nat /\ e \in 0..j
            /\ (e = 0 => r[j].tail = t.tail + j)
            /\ (e > 0 => r[j].tail = j - e)
        BY <2>3 DEF Tracker
      <4> QED
        BY <2>1, <3>1, <4>1
    <3>4. r[i].skipping <=> e = 0 /\ t.skipping
      BY <2>3, <3>1
    <3>5. e \in 0..i /\ r[i].last \in q[i]
      BY <2>1, <2>2, <2>3, <3>1
    <3> QED
      BY <2>1, <2>5, <3>2, <3>3, <3>4, <3>5
  <2>7. CASE s[i].ends
    <3>1. /\ r[i].tail = 0 /\ r[i].skipping = FALSE
          /\ r[i].last = IF ~r[j].skipping /\ s[i].usage # 0 /\ r[j].tail + 1 = s[i].size
                           THEN s[i].usage ELSE r[j].last
      BY <2>4, <2>7 DEF observeUnit
    <3>2. IF e > 0 THEN s[i].size = i - e
          ELSE IF t.skipping THEN s[i].size - i > MaxTail
          ELSE t.tail = s[i].size - i
      <4>1. LastEnd(s, e, i - 1) /\ e \in 0..(i - 1)
        BY <2>1, <2>3 DEF j
      <4> QED
        BY <2>1, <2>7, <4>1 DEF LinesKnown
    <3>3. r[i].last \in q[i]
      <4>1. CASE s[i].usage = 0
        BY <2>2, <2>4, <3>1, <4>1 DEF allow
      <4>2. CASE s[i].usage # 0 /\ r[j].skipping
        <5>1. e = 0 /\ t.skipping
          BY <2>3, <4>2
        <5>2. ~(s[i].size - 1 <= MaxTail)
          BY <2>1, <3>2, <5>1, RelayAssumption DEF Unit
        <5>3. q[i] = q[j] \cup {s[i].usage}
          BY <2>4, <2>7, <4>2, <5>2 DEF allow
        <5> QED
          BY <2>2, <3>1, <4>2, <5>3
      <4>3. CASE s[i].usage # 0 /\ ~r[j].skipping
        <5>1. r[j].tail + 1 = s[i].size
          <6>1. CASE e = 0
            <7>1. ~t.skipping
              BY <2>3, <4>3, <6>1
            <7>2. t.tail = s[i].size - i
              BY <3>2, <6>1, <7>1
            <7>3. r[j].tail = t.tail + j
              BY <2>3, <6>1
            <7>4. s[i].size \in Nat /\ t.tail \in Nat
              BY <2>1 DEF Unit, Tracker
            <7>5. j + 1 = i /\ i \in Nat /\ j \in Nat
              BY <2>1
            <7>6. (s[i].size - i) + j + 1 = s[i].size
              BY <7>4, <7>5
            <7> QED
              BY <7>2, <7>3, <7>6
          <6>2. CASE e > 0
            <7>1. s[i].size = i - e
              BY <3>2, <6>2
            <7>2. r[j].tail = j - e
              BY <2>3, <6>2
            <7> QED
              BY <2>1, <7>1, <7>2
          <6>3. e = 0 \/ e > 0
            BY <2>1
          <6> QED
            BY <6>1, <6>2, <6>3
        <5>2. r[i].last = s[i].usage
          BY <3>1, <4>3, <5>1
        <5>3. s[i].usage \in q[i]
          BY <2>4, <2>7, <4>3 DEF allow
        <5> QED
          BY <5>2, <5>3
      <4> QED
        BY <2>2, <4>1, <4>2, <4>3 DEF Tracker
    <3>4. LastEnd(s, i, i)
      BY <2>1, <2>7 DEF LastEnd
    <3>5. Since(i, i)
      <4>1. i # 0 /\ i - i = 0
        BY <2>1
      <4> QED
        BY <3>1, <3>4, <4>1
    <3> QED
      BY <2>1, <2>5, <3>3, <3>5
  <2> QED
    BY <2>1, <2>6, <2>7 DEF Unit
<1>6. \A i \in 0..k : i \in P
  <2> HIDE DEF P
  <2> QED
    BY <1>1, <1>4, <1>5, UnitByUnit
<1>7. At(k)
  <2>1. k \in P
    <3> HIDE DEF P
    <3> QED
      BY <1>1, <1>6
  <2> QED
    BY <2>1
<1>8. CarriedOver(s, t.tail, t.skipping, r[k].tail, r[k].skipping, k)
  BY <1>7 DEF CarriedOver
<1> QED
  BY <1>1, <1>2, <1>3, <1>7, <1>8

\* w is s and a line of n units after it.
Lengthened(s, n, ended, w) ==
  /\ Len(w) = Len(s) + n
  /\ \A x \in 1..Len(s) : w[x] = s[x]
  /\ \A x \in (Len(s) + 1)..(Len(s) + n) :
       (w[x].ends <=> x = Len(s) + n /\ ended) /\ w[x].size = n

LEMMA LineAppended ==
  ASSUME NEW s \in Seq(Unit), NEW t \in Nat, NEW skip \in BOOLEAN,
         LinesKnown(s, t, skip), Aligned(s, t, skip),
         NEW n \in Nat \ {0}, NEW ended \in BOOLEAN,
         NEW w \in Seq(Unit), Lengthened(s, n, ended, w)
  PROVE  /\ LinesKnown(w, t, skip)
         /\ ended => Aligned(w, t, skip)
<1> DEFINE m == Len(s)
<1>1. m \in Nat /\ Len(s) = m
  OBVIOUS
<1>2. Len(w) = m + n /\ \A x \in 1..m : w[x] = s[x]
  BY DEF Lengthened
<1>3. \A x \in (m + 1)..(m + n) : (w[x].ends <=> x = m + n /\ ended) /\ w[x].size = n
  BY DEF Lengthened
<1>4. m > 0 => s[m].ends
  BY DEF Aligned
<1>5. m = 0 => t = 0 /\ ~skip
  BY DEF Aligned
<1> HIDE DEF m
<1>6. ASSUME NEW i \in 1..(m + n), NEW e \in 0..(i - 1), w[i].ends, LastEnd(w, e, i - 1)
      PROVE  IF e > 0 THEN w[i].size = i - e
             ELSE IF skip THEN w[i].size - i > MaxTail
             ELSE t = w[i].size - i
  <2>1. CASE i <= m
    <3>1. i \in 1..m /\ w[i] = s[i]
      BY <1>1, <1>2, <2>1
    <3>2. LastEnd(s, e, i - 1)
      <4>1. ASSUME NEW x \in 1..(i - 1)
            PROVE  w[x] = s[x]
        <5>1. x \in 1..m
          BY <1>1, <2>1
        <5> QED
          BY <1>2, <5>1
      <4>2. ASSUME NEW x \in (e + 1)..(i - 1)
            PROVE  ~s[x].ends
        <5>1. x \in 1..(i - 1)
          OBVIOUS
        <5> QED
          BY <1>6, <4>1, <5>1 DEF LastEnd
      <4>3. e = 0 \/ s[e].ends
        <5>1. e # 0 => e \in 1..(i - 1)
          OBVIOUS
        <5> QED
          BY <1>6, <4>1, <5>1 DEF LastEnd
      <4> QED
        BY <4>2, <4>3 DEF LastEnd
    <3> QED
      BY <1>1, <1>6, <3>1, <3>2 DEF LinesKnown
  <2>2. CASE i > m
    <3>1. i = m + n /\ w[i].size = n
      <4>1. i \in (m + 1)..(m + n)
        BY <1>1, <2>2
      <4> QED
        BY <1>3, <1>6, <4>1
    <3>2. e = m
      <4>1. ~(e > m)
        <5> SUFFICES ASSUME e > m PROVE FALSE
          OBVIOUS
        <5>1. e \in (m + 1)..(m + n) /\ e # m + n /\ e # 0
          BY <1>1, <3>1
        <5>2. ~w[e].ends
          BY <1>3, <5>1
        <5> QED
          BY <1>6, <5>1, <5>2 DEF LastEnd
      <4>2. ~(e < m)
        <5> SUFFICES ASSUME e < m PROVE FALSE
          OBVIOUS
        <5>1. m \in (e + 1)..(i - 1) /\ m \in 1..m /\ m > 0
          BY <1>1, <3>1
        <5>2. w[m].ends
          BY <1>2, <1>4, <5>1
        <5> QED
          BY <1>6, <5>1, <5>2 DEF LastEnd
      <4> QED
        BY <1>1, <4>1, <4>2
    <3>3. w[i].size - i = 0 - m /\ i - e = n
      BY <1>1, <3>1, <3>2
    <3> QED
      BY <1>1, <1>5, <3>1, <3>2, <3>3
  <2> QED
    BY <1>1, <2>1, <2>2
<1>7. LinesKnown(w, t, skip)
  BY <1>2, <1>6 DEF LinesKnown
<1>8. ASSUME ended
      PROVE  Aligned(w, t, skip)
  <2>1. m + n \in (m + 1)..(m + n) /\ w # <<>>
    BY <1>1, <1>2
  <2>2. w[m + n].ends
    BY <1>3, <1>8, <2>1
  <2> QED
    BY <1>2, <2>1, <2>2 DEF Aligned
<1> QED
  BY <1>7, <1>8

\* What observe forgets of what it has, rt and rs, leaving qt and qs.
Forgets(rt, rs, qt, qs) ==
  /\ rt > MaxTail => qt = 0 /\ qs
  /\ ~(rt > MaxTail) => qt = rt /\ (qs <=> rs)

\* What is pending after k units were taken.
Rest(s, k, w) == /\ Len(w) = Len(s) - k
                 /\ \A x \in 1..(Len(s) - k) : w[x] = s[x + k]

(***************************************************************************)
(* After a chunk the rest is lines as well, and what is left of the line   *)
(* the chunk ends in has been kept or given up.                            *)
(***************************************************************************)
LEMMA RestKnown ==
  ASSUME NEW s \in Seq(Unit), NEW t \in Nat, NEW skip \in BOOLEAN, LinesKnown(s, t, skip),
         NEW k \in 1..Len(s), NEW rt \in Nat, NEW rs \in BOOLEAN,
         CarriedOver(s, t, skip, rt, rs, k),
         NEW qt \in Nat, NEW qs \in BOOLEAN, Forgets(rt, rs, qt, qs),
         NEW w \in Seq(Unit), Rest(s, k, w)
  PROVE  /\ LinesKnown(w, qt, qs)
         /\ Aligned(s, t, skip) => Aligned(w, qt, qs)
<1> DEFINE m == Len(s)
<1>1. PICK e \in 0..k : /\ LastEnd(s, e, k)
                        /\ e = 0 => rt = t + k
                        /\ e > 0 => rt = k - e
                        /\ rs <=> e = 0 /\ skip
  BY DEF CarriedOver
<1>2. /\ m \in Nat /\ k \in 1..m /\ k \in Nat /\ Len(w) = m - k
      /\ \A x \in 1..(m - k) : w[x] = s[x + k]
  BY DEF Rest
<1>3. rt > MaxTail => qt = 0 /\ qs
  BY DEF Forgets
<1>4. ~(rt > MaxTail) => qt = rt /\ (qs <=> rs)
  BY DEF Forgets
<1>5. \A x \in 1..m : s[x].size \in Nat
  <2>1. \A x \in 1..m : s[x] \in Unit
    OBVIOUS
  <2> QED
    BY <2>1 DEF Unit
<1>6. MaxTail \in Nat
  BY RelayAssumption
<1>7. Len(s) = m
  OBVIOUS
<1> HIDE DEF m
<1>8. ASSUME NEW i \in 1..(m - k), NEW f \in 0..(i - 1), w[i].ends, LastEnd(w, f, i - 1)
      PROVE  IF f > 0 THEN w[i].size = i - f
             ELSE IF qs THEN w[i].size - i > MaxTail
             ELSE qt = w[i].size - i
  <2> DEFINE z == w[i].size
  <2>1. i + k \in 1..m /\ s[i + k].size = z /\ s[i + k].ends
    <3>1. i + k \in 1..m /\ w[i] = s[i + k]
      BY <1>2
    <3> QED
      BY <1>8, <3>1
  <2>2. z \in Nat
    BY <1>5, <2>1
  <2> HIDE DEF z
  <2> SUFFICES IF f > 0 THEN z = i - f
               ELSE IF qs THEN z - i > MaxTail
               ELSE qt = z - i
    BY DEF z
  <2>3. ASSUME NEW g \in 0..(i + k - 1), LastEnd(s, g, i + k - 1)
        PROVE  IF g > 0 THEN z = i + k - g
               ELSE IF skip THEN z - (i + k) > MaxTail
               ELSE t = z - (i + k)
    <3>1. (i + k) - 1 = i + k - 1
      BY <1>2
    <3> QED
      <4>1. i + k \in 1..Len(s) /\ g \in 0..((i + k) - 1) /\ LastEnd(s, g, (i + k) - 1)
        BY <1>7, <2>1, <2>3, <3>1
      <4>2. IF g > 0 THEN s[i + k].size = (i + k) - g
            ELSE IF skip THEN s[i + k].size - (i + k) > MaxTail
            ELSE t = s[i + k].size - (i + k)
        BY <2>1, <4>1 DEF LinesKnown
      <4>3. s[i + k].size = z
        BY <2>1
      <4>4. CASE g > 0
        BY <4>2, <4>3, <4>4
      <4>5. CASE ~(g > 0) /\ skip
        BY <4>2, <4>3, <4>5
      <4>6. CASE ~(g > 0) /\ ~skip
        BY <4>2, <4>3, <4>6
      <4> QED
        BY <4>4, <4>5, <4>6
  <2>4. \A x \in 1..(i - 1) : w[x] = s[x + k]
    BY <1>2
  <2>5. CASE f > 0
    <3>1. f + k \in 1..(i + k - 1) /\ f \in 1..(i - 1)
      BY <1>2, <2>5
    <3>2. s[f + k].ends
      <4>1. w[f].ends
        BY <1>8, <2>5 DEF LastEnd
      <4> QED
        BY <2>4, <3>1, <4>1
    <3>3. \A x \in (f + k + 1)..(i + k - 1) : ~s[x].ends
      <4> SUFFICES ASSUME NEW x \in (f + k + 1)..(i + k - 1) PROVE ~s[x].ends
        OBVIOUS
      <4>1. x - k \in (f + 1)..(i - 1) /\ x - k \in 1..(i - 1) /\ (x - k) + k = x
        BY <1>2, <3>1
      <4> QED
        BY <1>8, <2>4, <4>1 DEF LastEnd
    <3>4. LastEnd(s, f + k, i + k - 1)
      BY <3>2, <3>3 DEF LastEnd
    <3>5. z = i + k - (f + k)
      BY <1>2, <2>3, <3>1, <3>4
    <3>6. z = i - f
      <4>1. k \in Nat /\ i \in Nat /\ f \in Nat
        BY <1>2
      <4> QED
        BY <3>5, <4>1
    <3> QED
      BY <2>5, <3>6
  <2>6. CASE f = 0
    <3>1. e \in 0..(i + k - 1)
      BY <1>2
    <3>2. \A x \in (e + 1)..(i + k - 1) : ~s[x].ends
      <4> SUFFICES ASSUME NEW x \in (e + 1)..(i + k - 1) PROVE ~s[x].ends
        OBVIOUS
      <4>1. CASE x <= k
        BY <1>1, <1>2, <4>1 DEF LastEnd
      <4>2. CASE x > k
        <5>1. x - k \in (f + 1)..(i - 1) /\ x - k \in 1..(i - 1) /\ (x - k) + k = x
          <6>1. k \in Nat /\ i \in Nat
            BY <1>2
          <6> QED
            BY <2>6, <4>2, <6>1
        <5> QED
          BY <1>8, <2>4, <5>1 DEF LastEnd
      <4> QED
        BY <1>2, <4>1, <4>2
    <3>3. LastEnd(s, e, i + k - 1)
      BY <1>1, <3>2 DEF LastEnd
    <3>4. IF e > 0 THEN z = i + k - e
          ELSE IF skip THEN z - (i + k) > MaxTail
          ELSE t = z - (i + k)
      BY <2>3, <3>1, <3>3
    <3>5. CASE e > 0
      <4>1. rt = z - i /\ ~rs
        <5>1. rt = k - e /\ z = i + k - e
          BY <1>1, <3>4, <3>5
        <5>2. ~rs
          BY <1>1, <3>5
        <5>3. k \in Nat /\ i \in Nat /\ e \in Nat
          BY <1>2
        <5> QED
          BY <5>1, <5>2, <5>3
      <4>2. CASE rt > MaxTail
        <5>1. qs /\ z - i > MaxTail
          BY <1>3, <4>1, <4>2
        <5> QED
          BY <2>6, <5>1
      <4>3. CASE ~(rt > MaxTail)
        <5>1. ~qs /\ qt = z - i
          BY <1>4, <4>1, <4>3
        <5>2. ~(f > 0)
          BY <2>6
        <5> QED
          BY <5>1, <5>2, Zenon
      <4> QED
        BY <4>2, <4>3
    <3>6. CASE e = 0 /\ skip
      <4>1. z - i > MaxTail
        <5>1. z - (i + k) > MaxTail
          BY <3>4, <3>6
        <5>2. k \in Nat /\ i \in Nat
          BY <1>2
        <5> QED
          BY <1>6, <2>2, <5>1, <5>2
      <4>2. qs
        BY <1>1, <1>3, <1>4, <3>6
      <4>3. ~(f > 0)
        BY <2>6
      <4> QED
        BY <4>1, <4>2, <4>3, Zenon
    <3>7. CASE e = 0 /\ ~skip
      <4>1. rt = z - i /\ ~rs
        <5>1. rt = t + k /\ t = z - (i + k)
          BY <1>1, <3>4, <3>7
        <5>2. k \in Nat /\ i \in Nat
          BY <1>2
        <5>3. rt = z - i
          BY <2>2, <5>1, <5>2
        <5>4. ~rs
          BY <1>1, <3>7
        <5> QED
          BY <5>3, <5>4
      <4>2. CASE rt > MaxTail
        <5>1. qs /\ z - i > MaxTail
          BY <1>3, <4>1, <4>2
        <5> QED
          BY <2>6, <5>1
      <4>3. CASE ~(rt > MaxTail)
        <5>1. ~qs /\ qt = z - i
          BY <1>4, <4>1, <4>3
        <5>2. ~(f > 0)
          BY <2>6
        <5> QED
          BY <5>1, <5>2, Zenon
      <4> QED
        BY <4>2, <4>3
    <3> QED
      BY <3>5, <3>6, <3>7
  <2> QED
    BY <2>5, <2>6
<1>9. LinesKnown(w, qt, qs)
  BY <1>2, <1>8 DEF LinesKnown
<1>10. ASSUME Aligned(s, t, skip)
      PROVE  Aligned(w, qt, qs)
  <2>1. s[m].ends
    BY <1>2, <1>10, <1>7 DEF Aligned
  <2>2. CASE k = m
    <3>1. w = <<>>
      BY <1>2, <2>2
    <3>2. e = k
      <4>1. ~(e < k)
        BY <1>1, <1>2, <2>1, <2>2 DEF LastEnd
      <4> QED
        BY <1>1, <1>2, <4>1
    <3>3. rt = 0 /\ ~rs
      BY <1>1, <1>2, <3>2
    <3>4. qt = 0 /\ ~qs
      BY <1>6, <1>4, <3>3
    <3> QED
      BY <3>1, <3>4 DEF Aligned
  <2>3. CASE k # m
    <3>1. m - k \in 1..(m - k) /\ (m - k) + k = m /\ w # <<>>
      BY <1>2, <2>3
    <3>2. w[m - k].ends
      BY <1>2, <2>1, <3>1
    <3> QED
      BY <1>2, <3>1, <3>2 DEF Aligned
  <2> QED
    BY <2>2, <2>3
<1> QED
  BY <1>2, <1>9, <1>10

LEMMA UnitsAppended ==
  ASSUME NEW s \in Seq(Unit), NEW t \in Nat, NEW skip \in BOOLEAN,
         LinesKnown(s, t, skip), Aligned(s, t, skip),
         NEW n \in Nat \ {0}, NEW u \in Usages, NEW ended \in BOOLEAN
  PROVE  /\ s \o Units(n, u, ended) \in Seq(Unit)
         /\ LinesKnown(s \o Units(n, u, ended), t, skip)
         /\ ended => Aligned(s \o Units(n, u, ended), t, skip)
<1> DEFINE new == Units(n, u, ended)
           w == s \o new
           m == Len(s)
<1>1. /\ new \in Seq(Unit) /\ Len(new) = n
      /\ \A x \in 1..n : (new[x].ends <=> x = n /\ ended) /\ new[x].size = n
  <2>1. new \in Seq(Unit) /\ Len(new) = n
    BY DEF Units, Unit
  <2>2. \A x \in 1..n : new[x].ends <=> x = n /\ ended
    BY DEF Units
  <2>3. \A x \in 1..n : new[x].size = n
    BY DEF Units
  <2> QED
    BY <2>1, <2>2, <2>3
<1> HIDE DEF new
<1>2. m \in Nat /\ w \in Seq(Unit) /\ Len(w) = m + n
  BY <1>1
<1>3. \A x \in 1..m : w[x] = s[x]
  BY <1>1
<1>4. \A x \in (m + 1)..(m + n) : w[x] = new[x - m] /\ x - m \in 1..n
  BY <1>1
<1> HIDE DEF w, m
<1>5. ASSUME NEW x \in (m + 1)..(m + n)
      PROVE  (w[x].ends <=> x = m + n /\ ended) /\ w[x].size = n
  <2>1. x - m \in 1..n /\ w[x] = new[x - m]
    BY <1>4
  <2>2. (w[x].ends <=> x - m = n /\ ended) /\ w[x].size = n
    BY <1>1, <2>1
  <2>3. x - m = n <=> x = m + n
    BY <1>2
  <2> QED
    BY <2>2, <2>3
<1>6. Lengthened(s, n, ended, w)
  BY <1>2, <1>3, <1>5 DEF Lengthened, m
<1>7. LinesKnown(w, t, skip) /\ (ended => Aligned(w, t, skip))
  BY <1>2, <1>6, LineAppended
<1> QED
  BY <1>2, <1>7 DEF w, new

\* What the filter puts out next: the event line it held, if any, then a line.
LEMMA HeldKnown ==
  ASSUME TrackInv, pending = <<>>
  PROVE  /\ Held \in Seq(Unit)
         /\ LinesKnown(Held, tail, skipping)
         /\ feed = "open" => Aligned(Held, tail, skipping)
<1>1. CASE eventLine = NoName
  <2>1. Held = pending
    BY <1>1 DEF Held
  <2> QED
    BY <2>1 DEF TrackInv
<1>2. CASE eventLine # NoName
  <2>1. pending \o Units(1, 0, TRUE) = Held
    <3>1. Units(1, 0, TRUE) \in Seq(Unit)
      BY StreamAssumption DEF Units, Unit
    <3> QED
      BY <1>2, <3>1 DEF Held, Short
  <2>2. /\ pending \in Seq(Unit) /\ tail \in Nat /\ skipping \in BOOLEAN
        /\ LinesKnown(pending, tail, skipping) /\ Aligned(pending, tail, skipping)
    BY <1>2, RelayAssumption DEF TrackInv
  <2>3. 1 \in Nat \ {0} /\ 0 \in Usages /\ TRUE \in BOOLEAN
    BY StreamAssumption
  <2> DEFINE w == pending \o Units(1, 0, TRUE)
  <2>4. /\ w \in Seq(Unit) /\ LinesKnown(w, tail, skipping)
        /\ Aligned(w, tail, skipping)
    BY <2>2, <2>3, UnitsAppended
  <2>5. w = Held
    BY <2>1
  <2> HIDE DEF w
  <2> QED
    BY <2>4, <2>5
<1> QED
  BY <1>1, <1>2

LEMMA HeldAndLineKnown ==
  ASSUME TrackInv, pending = <<>>, feed = "open",
         NEW n \in Nat \ {0}, NEW u \in Usages, NEW ended \in BOOLEAN
  PROVE  /\ Held \o Units(n, u, ended) \in Seq(Unit)
         /\ LinesKnown(Held \o Units(n, u, ended), tail, skipping)
         /\ ended => Aligned(Held \o Units(n, u, ended), tail, skipping)
<1>1. tail \in Nat /\ skipping \in BOOLEAN
  BY RelayAssumption DEF TrackInv
<1> QED
  BY <1>1, HeldKnown, UnitsAppended

(***************************************************************************)
(* The steps. What a line adds to pending leaves the tracker alone.        *)
(***************************************************************************)
LEMMA PendingKeeps ==
  ASSUME TrackInv, UNCHANGED <<filtered, trackerVars>>,
         pending' \in Seq(Unit), LinesKnown(pending', tail, skipping),
         feed' = "open" \/ eventLine' # NoName => Aligned(pending', tail, skipping),
         ~filtered => eventLine' = NoName
  PROVE  TrackInv'
  BY DEF TrackInv, trackerVars

LEMMA FilterLineKeeps == ASSUME TrackInv, FilterLine PROVE TrackInv'
<1>1. /\ filtered /\ UNCHANGED <<filtered, trackerVars>>
      /\ pending = <<>> /\ feed = "open"
  BY DEF FilterLine, Line, Reading, ReadEventLine, ReadData, ReadCut, ReadOther, ReadBlank,
         ReadCutOther
<1>2. /\ Held \in Seq(Unit) /\ LinesKnown(Held, tail, skipping)
      /\ Aligned(Held, tail, skipping)
  BY <1>1, HeldKnown
<1>3. /\ pending \in Seq(Unit) /\ LinesKnown(pending, tail, skipping)
      /\ Aligned(pending, tail, skipping)
  BY <1>1 DEF TrackInv
<1>4. 1 \in Nat \ {0} /\ 0 \in Usages /\ TRUE \in BOOLEAN /\ FALSE \in BOOLEAN
  BY StreamAssumption
<1>5. /\ Held \o Short \in Seq(Unit) /\ LinesKnown(Held \o Short, tail, skipping)
      /\ Aligned(Held \o Short, tail, skipping)
  BY <1>1, <1>4, HeldAndLineKnown DEF Short
<1>6. \A p \in Payloads : p.size \in Nat \ {0} /\ p.usage \in Usages
  BY StreamAssumption DEF AllPayloads
<1>7. CASE \E type \in Types : ReadEventLine(type)
  <2>1. pending' = Held
    BY <1>7 DEF ReadEventLine
  <2> QED
    BY <1>1, <1>2, <2>1, PendingKeeps
<1>8. ASSUME NEW p \in Payloads, ReadData(p)
      PROVE  TrackInv'
  <2>1. CASE Dropped(p)
    <3>1. pending' = pending
      BY <1>8, <2>1 DEF ReadData
    <3> QED
      BY <1>1, <1>3, <3>1, PendingKeeps
  <2>2. CASE ~Dropped(p)
    <3>1. pending' = Held \o Units(p.size, p.usage, TRUE)
      BY <1>8, <2>2 DEF ReadData
    <3>2. /\ pending' \in Seq(Unit) /\ LinesKnown(pending', tail, skipping)
          /\ Aligned(pending', tail, skipping)
      BY <1>1, <1>4, <1>6, <3>1, HeldAndLineKnown
    <3> QED
      BY <1>1, <3>2, PendingKeeps
  <2> QED
    BY <2>1, <2>2
<1>9. ASSUME NEW p \in Payloads, ReadCut(p)
      PROVE  TrackInv'
  <2>1. feed' # "open" /\ eventLine' = NoName
    BY <1>9 DEF ReadCut
  <2>2. CASE Dropped(p)
    <3>1. pending' = pending
      BY <1>9, <2>2 DEF ReadCut
    <3> QED
      BY <1>1, <1>3, <2>1, <3>1, PendingKeeps
  <2>3. CASE ~Dropped(p)
    <3>1. pending' = Held \o Units(p.size, p.usage, FALSE)
      BY <1>9, <2>3 DEF ReadCut
    <3>2. pending' \in Seq(Unit) /\ LinesKnown(pending', tail, skipping)
      BY <1>1, <1>4, <1>6, <3>1, HeldAndLineKnown
    <3> QED
      BY <1>1, <2>1, <3>2, PendingKeeps
  <2> QED
    BY <2>2, <2>3
<1>10. CASE ReadOther
  <2>1. pending' = Held \o Short
    BY <1>10 DEF ReadOther
  <2> QED
    BY <1>1, <1>5, <2>1, PendingKeeps
<1>11. CASE ReadBlank
  <2>1. pending' = pending \/ pending' = Held \o Short
    BY <1>11 DEF ReadBlank
  <2> QED
    BY <1>1, <1>3, <1>5, <2>1, PendingKeeps
<1>12. CASE ReadCutOther
  <2>1. feed' # "open" /\ eventLine' = NoName /\ pending' = Held \o Units(1, 0, FALSE)
    BY <1>12 DEF ReadCutOther
  <2>2. pending' \in Seq(Unit) /\ LinesKnown(pending', tail, skipping)
    BY <1>1, <1>4, <2>1, HeldAndLineKnown
  <2> QED
    BY <1>1, <2>1, <2>2, PendingKeeps
<1> QED
  BY <1>7, <1>8, <1>9, <1>10, <1>11, <1>12 DEF FilterLine

LEMMA PlainLineKeeps == ASSUME TrackInv, PlainLine PROVE TrackInv'
<1>1. /\ ~filtered /\ feed = "open" /\ UNCHANGED <<filtered, trackerVars, eventLine>>
  BY DEF PlainLine, Line
<1>2. PICK n \in Sizes, u \in Usages, ended \in BOOLEAN :
        /\ pending' = pending \o Units(n, u, ended)
        /\ ~ended => feed' # "open"
  BY DEF PlainLine
<1>3. /\ pending \in Seq(Unit) /\ LinesKnown(pending, tail, skipping)
      /\ Aligned(pending, tail, skipping) /\ eventLine = NoName
      /\ tail \in Nat /\ skipping \in BOOLEAN
  BY <1>1, RelayAssumption DEF TrackInv
<1>4. n \in Nat \ {0}
  BY StreamAssumption
<1>5. /\ pending' \in Seq(Unit) /\ LinesKnown(pending', tail, skipping)
      /\ ended => Aligned(pending', tail, skipping)
  BY <1>2, <1>3, <1>4, UnitsAppended
<1> QED
  BY <1>1, <1>2, <1>3, <1>5, PendingKeeps

LEMMA EndsKeep == ASSUME TrackInv, FilterEnd \/ PlainEnd PROVE TrackInv'
<1>1. UNCHANGED <<filtered, trackerVars>>
  BY DEF FilterEnd, PlainEnd
<1>2. CASE FilterEnd /\ UpstreamEnds
  BY <1>2 DEF FilterEnd, UpstreamEnds, TrackInv, trackerVars
<1>3. CASE FilterEnd /\ ReadEnd
  <2>1. /\ filtered /\ pending = <<>> /\ pending' = Held
        /\ feed' # "open" /\ eventLine' = NoName
    BY <1>3 DEF FilterEnd, ReadEnd, Reading
  <2> QED
    BY <1>1, <2>1, HeldKnown, PendingKeeps
<1>4. CASE PlainEnd
  BY <1>4 DEF PlainEnd, TrackInv, trackerVars
<1> QED
  BY <1>2, <1>3, <1>4 DEF FilterEnd

LEMMA CopyKeeps == ASSUME TrackInv, copyStream PROVE TrackInv'
<1> DEFINE t == [tail |-> tail, skipping |-> skipping, last |-> last]
           m == Len(pending)
<1>1. PICK k \in 1..m :
        /\ tail' = observe(t, SubSeq(pending, 1, k)).tail
        /\ skipping' = observe(t, SubSeq(pending, 1, k)).skipping
        /\ last' = observe(t, SubSeq(pending, 1, k)).last
        /\ possible' = FoldLeft(allow, possible, SubSeq(pending, 1, k))
        /\ pending' = SubSeq(pending, k + 1, m)
  <2> DEFINE most == IF m < Buffer THEN m ELSE Buffer
             Copied(k) == LET chunk == SubSeq(pending, 1, k)
                              o == observe(t, chunk)
                          IN /\ tail' = o.tail /\ skipping' = o.skipping /\ last' = o.last
                             /\ possible' = FoldLeft(allow, possible, chunk)
                             /\ pending' = SubSeq(pending, k + 1, m)
  <2>1. PICK k \in (IF filtered THEN {most} ELSE 1..most) : Copied(k)
    BY Zenon DEF copyStream
  <2>2. pending \in Seq(Unit) /\ pending # <<>>
    BY DEF TrackInv, copyStream
  <2>3. most \in 1..m /\ most \in Nat /\ m \in Nat
    BY <2>2, RelayAssumption
  <2>4. k \in 1..m
    <3> HIDE DEF most, Copied, m
    <3> QED
      BY <2>3
  <2> QED
    BY <2>1, <2>4, Zenon
<1> DEFINE chunk == SubSeq(pending, 1, k)
           r == Observed(t, chunk)
           q == observe(t, chunk)
<1>2. /\ pending \in Seq(Unit) /\ m \in Nat /\ pending # <<>>
      /\ tail \in Nat /\ skipping \in BOOLEAN /\ last \in Usages /\ MaxTail \in Nat
      /\ possible \in SUBSET Usages /\ last \in possible
      /\ LinesKnown(pending, tail, skipping)
      /\ (feed = "open" \/ eventLine # NoName) => Aligned(pending, tail, skipping)
      /\ ~filtered => eventLine = NoName
  BY RelayAssumption DEF TrackInv, copyStream
<1>3. t \in Tracker /\ t.tail = tail /\ t.skipping = skipping /\ t.last = last
  BY <1>2 DEF Tracker
<1> HIDE DEF t
<1>4. /\ r \in Tracker /\ Allowed(possible, chunk) \in SUBSET Usages
      /\ r.last \in Allowed(possible, chunk)
      /\ CarriedOver(pending, tail, skipping, r.tail, r.skipping, k)
  <2>1. /\ LinesKnown(pending, t.tail, t.skipping) /\ t.last \in possible
        /\ k \in 1..Len(pending) /\ chunk = SubSeq(pending, 1, k)
    BY <1>2, <1>3
  <2> HIDE DEF chunk, m
  <2> QED
    BY <1>2, <1>3, <2>1, ChunkObserved
<1>5. q = IF r.tail > MaxTail THEN [r EXCEPT !.tail = 0, !.skipping = TRUE] ELSE r
  BY Zenon DEF observe, Observed
<1>6. possible' = Allowed(possible, chunk)
  BY <1>1, Zenon DEF Allowed
<1>7. tail' = q.tail /\ skipping' = q.skipping /\ last' = q.last
  BY <1>1
<1>8. pending' \in Seq(Unit) /\ Rest(pending, k, pending')
  BY <1>1, <1>2 DEF Rest
<1> HIDE DEF r, q, chunk
<1>9. /\ q \in Tracker /\ q.last = r.last /\ q.tail \in 0..MaxTail
      /\ Forgets(r.tail, r.skipping, q.tail, q.skipping)
  <2>1. r.tail \in Nat /\ r.skipping \in BOOLEAN /\ r \in Tracker
    BY <1>4 DEF Tracker
  <2>2. CASE r.tail > MaxTail
    <3>1. q = [r EXCEPT !.tail = 0, !.skipping = TRUE]
      BY <1>5, <2>2
    <3>2. q \in Tracker /\ q.tail = 0 /\ q.skipping /\ q.last = r.last
      BY <2>1, <3>1 DEF Tracker
    <3> QED
      BY <1>2, <2>2, <3>2 DEF Forgets
  <2>3. CASE ~(r.tail > MaxTail)
    <3>1. q = r
      BY <1>5, <2>3
    <3> QED
      BY <1>2, <2>1, <2>3, <3>1 DEF Forgets
  <2> QED
    BY <2>2, <2>3
<1>10. /\ r.tail \in Nat /\ r.skipping \in BOOLEAN
       /\ q.tail \in Nat /\ q.skipping \in BOOLEAN /\ q.last \in Usages
  BY <1>4, <1>9 DEF Tracker
<1>11. /\ LinesKnown(pending', q.tail, q.skipping)
       /\ Aligned(pending, tail, skipping) => Aligned(pending', q.tail, q.skipping)
  <2>1. k \in 1..Len(pending)
    OBVIOUS
  <2> HIDE DEF m
  <2> QED
    BY <1>2, <1>4, <1>8, <1>9, <1>10, <2>1, RestKnown
<1>12. UNCHANGED <<filtered, feed, eventLine>>
  BY DEF copyStream
<1> QED
  BY <1>2, <1>4, <1>6, <1>7, <1>8, <1>9, <1>12, <1>10, <1>11 DEF TrackInv

LEMMA TrackInvariant == Spec => []TrackInv
<1>1. Init => TrackInv
  <2> SUFFICES ASSUME Init PROVE TrackInv
    OBVIOUS
  <2>1. pending = <<>> /\ tail = 0 /\ skipping = FALSE
    BY DEF Init, FilterInit
  <2>2. LinesKnown(pending, tail, skipping) /\ Aligned(pending, tail, skipping)
    BY <2>1 DEF LinesKnown, Aligned
  <2>3. pending \in Seq(Unit)
    BY <2>1
  <2> QED
    <3>1. tail \in 0..MaxTail
      BY <2>1, RelayAssumption
    <3>4. skipping \in BOOLEAN
      BY <2>1
    <3>2. last \in Usages /\ possible \in SUBSET Usages /\ last \in possible
      BY StreamAssumption DEF Init
    <3>3. eventLine = NoName
      BY DEF Init, FilterInit
    <3> QED
      BY <2>2, <2>3, <3>1, <3>2, <3>3, <3>4 DEF TrackInv
<1>2. TrackInv /\ [Next]_vars => TrackInv'
  <2> SUFFICES ASSUME TrackInv, [Next]_vars PROVE TrackInv'
    OBVIOUS
  <2>1. CASE FilterLine
    BY <2>1, FilterLineKeeps
  <2>2. CASE PlainLine
    BY <2>2, PlainLineKeeps
  <2>3. CASE FilterEnd \/ PlainEnd
    BY <2>3, EndsKeep
  <2>4. CASE copyStream
    BY <2>4, CopyKeeps
  <2>5. CASE copyEnds
    BY <2>5 DEF copyEnds, filterVars, trackerVars, TrackInv
  <2>6. CASE UNCHANGED vars
    BY <2>6 DEF vars, filterVars, trackerVars, TrackInv
  <2> QED
    BY <2>1, <2>2, <2>3, <2>4, <2>5, <2>6 DEF Next
<1> QED
  BY <1>1, <1>2, PTL DEF Spec

(***************************************************************************)
(* For any lines and limit and however chunks cut them, the row's usage is *)
(* the last report in what the client was sent, read in whole lines, and   *)
(* the tracker keeps no more of a line than the limit.                     *)
(***************************************************************************)
THEOREM UsageIsTheLast == Spec => []UsageIsLast
<1>1. TrackInv => UsageIsLast
  BY DEF TrackInv, UsageIsLast
<1> QED
  BY <1>1, TrackInvariant, PTL

(***************************************************************************)
(* The parsers at both ends, and the event line held back.                 *)
(***************************************************************************)
Parsers == [name : Types \cup {NoName}, data : Seq(AllPayloads)]

LEMMA RenamedTypes ==
  /\ \A t \in Types : rewriteLegacyReasoningEventNames(t) \in Types
  /\ \A p \in Payloads : renameLegacyReasoningPayload(p) \in AllPayloads
<1>1. \A t \in Types : rewriteLegacyReasoningEventNames(t) \in Types
  BY StreamAssumption DEF rewriteLegacyReasoningEventNames
<1>2. ASSUME NEW p \in Payloads
      PROVE  renameLegacyReasoningPayload(p) \in AllPayloads
  <2>1. p \in AllPayloads
    BY StreamAssumption
  <2>2. rewriteLegacyReasoningEventNames(p.type) \in Types
    BY <1>1, <2>1 DEF AllPayloads
  <2> QED
    BY <2>1, <2>2 DEF renameLegacyReasoningPayload, AllPayloads
<1> QED
  BY <1>1, <1>2

LEMMA ParserTypes ==
  /\ Between \in Parsers
  /\ \A b \in Parsers, t \in Types : NameLine(b, t) \in Parsers
  /\ \A b \in Parsers, p \in AllPayloads : DataLine(b, p) \in Parsers
<1>1. Between \in Parsers
  BY DEF Between, Parsers
<1>2. ASSUME NEW b \in Parsers, NEW t \in Types
      PROVE  NameLine(b, t) \in Parsers
  BY DEF NameLine, Parsers
<1>3. ASSUME NEW b \in Parsers, NEW p \in AllPayloads
      PROVE  DataLine(b, p) \in Parsers
  <2>1. Append(b.data, p) \in Seq(AllPayloads)
    BY DEF Parsers
  <2> QED
    BY <2>1 DEF DataLine, Parsers
<1> QED
  BY <1>1, <1>2, <1>3

LEMMA FlushedTypes == ASSUME FilterTypeOK
                      PROVE  Flushed \in Parsers
  BY ParserTypes DEF FilterTypeOK, Flushed, Parsers

RelayTypeOK == FilterTypeOK /\ filtered \in BOOLEAN /\ lines \in 0..MaxLines
               /\ outcome \in {"copying", "complete", "failed"}

LEMMA FilterLineTypes == ASSUME RelayTypeOK, FilterLine
                         PROVE  RelayTypeOK'
<1>1. filtered' = filtered /\ outcome' = outcome /\ lines' \in 0..MaxLines
  <2>1. filtered' = filtered /\ outcome' = outcome /\ lines' = lines + 1 /\ lines < MaxLines
    BY DEF FilterLine, Line, Copying
  <2> QED
    BY <2>1, RelayAssumption DEF RelayTypeOK
<1>2. up \in Parsers /\ down \in Parsers /\ Flushed \in Parsers
  BY FlushedTypes DEF RelayTypeOK, FilterTypeOK, Parsers
<1>3. FilterTypeOK'
  <2>1. ASSUME NEW t \in Types, ReadEventLine(t) PROVE FilterTypeOK'
    <3>1. up' \in Parsers /\ down' \in Parsers
      BY <1>2, <2>1, ParserTypes DEF ReadEventLine
    <3>2. eventLine' \in Types
      BY <2>1, RenamedTypes DEF ReadEventLine
    <3> QED
      BY <2>1, <3>1, <3>2 DEF ReadEventLine, RelayTypeOK, FilterTypeOK, Parsers
  <2>2. ASSUME NEW p \in Payloads, ReadData(p) PROVE FilterTypeOK'
    <3>1. p \in AllPayloads /\ renameLegacyReasoningPayload(p) \in AllPayloads
      BY StreamAssumption, RenamedTypes
    <3>2. up' \in Parsers
      BY <1>2, <2>2, <3>1, ParserTypes DEF ReadData
    <3>3. down' \in Parsers
      BY <1>2, <2>2, <3>1, ParserTypes DEF ReadData
    <3> QED
      BY <2>2, <3>2, <3>3 DEF ReadData, RelayTypeOK, FilterTypeOK, Parsers
  <2>3. ASSUME NEW p \in Payloads, ReadCut(p) PROVE FilterTypeOK'
    <3>1. up' \in Parsers /\ down' \in Parsers
      BY <1>2, <2>3 DEF ReadCut
    <3>2. skipBlank' \in BOOLEAN
      BY <2>3 DEF ReadCut, Dropped, isPingPayload, dropUnknownResponsesEvent,
                  isUnknownResponsesEventPayload
    <3> QED
      BY <2>3, <3>1, <3>2 DEF ReadCut, RelayTypeOK, FilterTypeOK, Parsers
  <2>4. CASE ReadOther \/ ReadCutOther
    BY <1>2, <2>4 DEF ReadOther, ReadCutOther, RelayTypeOK, FilterTypeOK, Parsers
  <2>5. CASE ReadBlank
    <3>1. up' \in Parsers /\ down' \in Parsers
      BY <1>2, <2>5, ParserTypes DEF ReadBlank
    <3> QED
      BY <2>5, <3>1 DEF ReadBlank, RelayTypeOK, FilterTypeOK, Parsers
  <2> QED
    BY <2>1, <2>2, <2>3, <2>4, <2>5 DEF FilterLine
<1> QED
  BY <1>1, <1>3 DEF RelayTypeOK

(***************************************************************************)
(* The types hold for every set of payloads and every bound: a parser at   *)
(* either end only ever has payloads the filter may let through, and the   *)
(* name held back is one of a type (sse.go:30-110).                        *)
(***************************************************************************)
THEOREM RelayTypes == Spec => []TypeOK
<1>1. Init => RelayTypeOK
  <2> SUFFICES ASSUME Init PROVE RelayTypeOK
    OBVIOUS
  <2>1. 0 \in 0..MaxLines
    BY RelayAssumption
  <2> QED
    BY <2>1, ParserTypes DEF Init, FilterInit, RelayTypeOK, FilterTypeOK, Parsers
<1>2. RelayTypeOK /\ [Next]_vars => RelayTypeOK'
  <2> SUFFICES ASSUME RelayTypeOK, [Next]_vars PROVE RelayTypeOK'
    OBVIOUS
  <2>1. CASE FilterLine
    BY <2>1, FilterLineTypes
  <2>2. CASE PlainLine
    <3>1. lines' = lines + 1 /\ lines < MaxLines /\ filtered' = filtered /\ outcome' = outcome
      BY <2>2 DEF PlainLine, Line, Copying
    <3>2. lines' \in 0..MaxLines
      BY <3>1, RelayAssumption DEF RelayTypeOK
    <3>3. FilterTypeOK'
      BY <2>2 DEF PlainLine, RelayTypeOK, FilterTypeOK
    <3> QED
      BY <3>1, <3>2, <3>3 DEF RelayTypeOK
  <2>3. CASE FilterEnd
    <3>1. Flushed \in Parsers
      BY FlushedTypes DEF RelayTypeOK
    <3>2. FilterTypeOK'
      BY <2>3, <3>1 DEF FilterEnd, UpstreamEnds, ReadEnd, RelayTypeOK, FilterTypeOK, Parsers
    <3> QED
      BY <2>3, <3>2 DEF FilterEnd, RelayTypeOK
  <2>4. CASE PlainEnd
    BY <2>4 DEF PlainEnd, RelayTypeOK, FilterTypeOK
  <2>5. CASE copyStream
    BY <2>5 DEF copyStream, RelayTypeOK, FilterTypeOK
  <2>6. CASE copyEnds
    BY <2>6 DEF copyEnds, filterVars, RelayTypeOK, FilterTypeOK
  <2>7. CASE UNCHANGED vars
    BY <2>7 DEF vars, filterVars, RelayTypeOK, FilterTypeOK
  <2> QED
    BY <2>1, <2>2, <2>3, <2>4, <2>5, <2>6, <2>7 DEF Next
<1>3. RelayTypeOK /\ TrackInv /\ CaptureInv => TypeOK
  BY DEF RelayTypeOK, TrackInv, CaptureInv, Honest, Buffered, TypeOK
<1> QED
  BY <1>1, <1>2, <1>3, TrackInvariant, CaptureInvariant, PTL DEF Spec
===============================================================================
