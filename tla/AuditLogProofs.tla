----------------------------- MODULE AuditLogProofs -----------------------------
(***************************************************************************)
(* The audit log, for every value of the constants: the row each request   *)
(* leaves tells how it ended, its body is charged as long as it is held,   *)
(* who pages through the rows misses none, a chart counts every row, and   *)
(* the parts of the metrics add up to the whole.                           *)
(*                                                                         *)
(* The first two are of ProxyRequest and follow from RequestInv, which     *)
(* ties the row being filled in, the status the capture has let through,   *)
(* and the status line the client got to the place of the handler, at      *)
(* every place. The charges held add up to what the budget lacks: the      *)
(* lemmas about SumFunctionOnSet, which is a recursive function over the   *)
(* subsets of a set, come first.                                           *)
(*                                                                         *)
(* The others are of LogStore. WalkMissesNothing speaks of the end of a    *)
(* walk. What holds all along is Behind: a row that was there from the     *)
(* beginning has been shown, or has as many newer ones as have been        *)
(* loaded, so it is still behind the offset. New rows can only add to the  *)
(* newer ones, and a deletion of old rows that spares a row spares all     *)
(* the newer ones. Between the statements of a chart its window stays      *)
(* around the rows it began with (InWindow), and between those of the      *)
(* metrics the total stays true as long as the table does (TotalStands);   *)
(* the rest is arithmetic of seconds and steps, and a sum over a           *)
(* partition.                                                              *)
(***************************************************************************)
EXTENDS LogStore, ProxyRequest, FiniteSetTheorems, WellFoundedInduction, TLAPS

-------------------------------------------------------------------------------
(***************************************************************************)
(* Sums over finite sets. The induction is by least counterexamples: a set *)
(* of natural numbers has a least one, and a set of finite sets one of     *)
(* which no member can be taken away.                                      *)
(***************************************************************************)
LEMMA LeastExists == ASSUME NEW S \in SUBSET Nat, S # {}
                  PROVE  \E m \in S : \A y \in S : m <= y
<1>1. PICK x \in S : \A y \in S : <<y, x>> \notin OpToRel(<, Nat)
  BY NatLessThanWellFounded, WFMin
<1>2. ASSUME NEW y \in S
      PROVE  x <= y
  <2>1. <<y, x>> \in Nat \X Nat /\ <<y, x>>[1] = y /\ <<y, x>>[2] = x
    OBVIOUS
  <2>2. y < x => <<y, x>> \in OpToRel(<, Nat)
    BY <2>1 DEF OpToRel
  <2>3. ~(y < x)
    BY <1>1, <2>2, Zenon
  <2> QED
    BY <2>3
<1> QED
  BY <1>2

\* The element the sum of s begins with.
Pick(s) == CHOOSE x \in s : TRUE

\* g gives each of the sets D the sum of f over it, as SumFunctionOnSet computes it.
Summing(g, f, D) ==
  g = [s \in D |-> IF s = {} THEN 0 ELSE f[Pick(s)] + g[s \ {Pick(s)}]]

AddsUp(g, f, S) == Summing(g, f, SUBSET S)

\* The subsets with at most n elements, over which g is built up.
UpTo(S, n) == {s \in SUBSET S : Cardinality(s) <= n}

LEMMA PickIn == ASSUME NEW s, s # {} PROVE Pick(s) \in s
  BY DEF Pick

\* One element less.
LEMMA OneLess ==
  ASSUME NEW S, IsFiniteSet(S), NEW s \in SUBSET S, NEW x \in s
  PROVE  /\ s \ {x} \in SUBSET S
         /\ IsFiniteSet(s)
         /\ Cardinality(s) \in Nat /\ Cardinality(s \ {x}) \in Nat
         /\ Cardinality(s \ {x}) = Cardinality(s) - 1
<1>1. IsFiniteSet(s)
  BY FS_Subset
<1> QED
  BY <1>1, FS_RemoveElement, FS_CardinalityType

\* Induction over the subsets of S: there is no smallest one of a bad kind.
LEMMA Smallest ==
  ASSUME NEW S, IsFiniteSet(S), NEW Bad \in SUBSET (SUBSET S), Bad # {}
  PROVE  \E s \in Bad : \A x \in s : s \ {x} \notin Bad
<1> DEFINE Sizes == {Cardinality(s) : s \in Bad}
<1>1. Sizes \in SUBSET Nat /\ Sizes # {}
  BY FS_Subset, FS_CardinalityType
<1>2. PICK m \in Sizes : \A k \in Sizes : m <= k
  <2> HIDE DEF Sizes
  <2> QED
    BY <1>1, LeastExists
<1>3. PICK s \in Bad : Cardinality(s) = m
  OBVIOUS
<1>4. ASSUME NEW x \in s, s \ {x} \in Bad
      PROVE  FALSE
  <2>1. /\ Cardinality(s) \in Nat /\ Cardinality(s \ {x}) \in Nat
        /\ Cardinality(s \ {x}) = Cardinality(s) - 1
    BY OneLess
  <2>2. m <= Cardinality(s \ {x})
    BY <1>2, <1>4
  <2> QED
    BY <1>3, <2>1, <2>2
<1> QED
  BY <1>4

LEMMA SummingStep ==
  ASSUME NEW S, IsFiniteSet(S), NEW f, NEW n \in Nat, NEW g, Summing(g, f, UpTo(S, n))
  PROVE  \E h : Summing(h, f, UpTo(S, n + 1))
<1> DEFINE D == UpTo(S, n)
           E == UpTo(S, n + 1)
           h == [s \in E |-> IF s = {} THEN 0 ELSE f[Pick(s)] + g[s \ {Pick(s)}]]
<1>1. \A s \in D : s \in E
  <2>1. \A s \in SUBSET S : Cardinality(s) \in Nat
    BY FS_Subset, FS_CardinalityType
  <2> QED
    BY <2>1 DEF UpTo
<1>2. \A s \in D : g[s] = IF s = {} THEN 0 ELSE f[Pick(s)] + g[s \ {Pick(s)}]
  BY DEF AddsUp, Summing
<1>3. \A s \in D : h[s] = g[s]
  BY <1>1, <1>2
<1>4. \A s \in E : s # {} => s \ {Pick(s)} \in D
  BY OneLess, PickIn DEF UpTo
<1>5. \A s \in E : s # {} => h[s \ {Pick(s)}] = g[s \ {Pick(s)}]
  BY <1>3, <1>4
<1>6. h = [s \in E |-> IF s = {} THEN 0 ELSE f[Pick(s)] + h[s \ {Pick(s)}]]
  <2> HIDE DEF E, D
  <2> QED
    BY <1>5
<1>7. Summing(h, f, E)
  BY <1>6, Zenon DEF AddsUp, Summing
<1> HIDE DEF h
<1> QED
  BY <1>7

\* There is such a g, so the CHOOSE of the recursive definition finds one.
LEMMA SummingExists ==
  ASSUME NEW S, IsFiniteSet(S), NEW f
  PROVE  \E g : AddsUp(g, f, S)
<1> DEFINE Good(n) == \E g : Summing(g, f, UpTo(S, n))
           Bad == {n \in Nat : ~Good(n)}
<1>1. Good(0)
  <2> DEFINE g == [s \in UpTo(S, 0) |-> 0]
  <2>1. \A s \in UpTo(S, 0) : s = {}
    BY FS_Subset, FS_EmptySet, FS_CardinalityType DEF UpTo
  <2>2. Summing(g, f, UpTo(S, 0))
    BY <2>1 DEF AddsUp, Summing
  <2> QED
    BY <2>2
<1>2. \A n \in Nat : Good(n) => Good(n + 1)
  BY SummingStep
<1>3. Bad = {}
  <2> SUFFICES ASSUME Bad # {} PROVE FALSE
    OBVIOUS
  <2>1. PICK m \in Bad : \A k \in Bad : m <= k
    <3>1. Bad \in SUBSET Nat
      OBVIOUS
    <3> HIDE DEF Bad
    <3> QED
      BY <3>1, LeastExists
  <2>2. m \in Nat /\ ~Good(m)
    OBVIOUS
  <2>3. m # 0
    BY <1>1, <2>2
  <2>4. m - 1 \in Nat /\ (m - 1) + 1 = m
    BY <2>2, <2>3
  <2>5. Good(m - 1)
    <3>1. m - 1 \notin Bad
      BY <2>1, <2>2
    <3> HIDE DEF Good
    <3> QED
      BY <3>1, <2>4
  <2> HIDE DEF Good
  <2>6. Good((m - 1) + 1)
    BY <1>2, <2>4, <2>5
  <2> QED
    BY <2>2, <2>4, <2>6
<1>4. Cardinality(S) \in Nat
  BY FS_CardinalityType
<1>5. UpTo(S, Cardinality(S)) = SUBSET S
  BY FS_Subset DEF UpTo
<1>6. Good(Cardinality(S))
  BY <1>3, <1>4
<1> QED
  BY <1>5, <1>6 DEF AddsUp

\* What adds up f over S is unique, and the same on what it has in common.
LEMMA SummingAgrees ==
  ASSUME NEW S, NEW T, T \subseteq S, IsFiniteSet(S), NEW f, NEW e, \A x \in T : e[x] = f[x],
         NEW g, AddsUp(g, f, S), NEW h, AddsUp(h, e, T)
  PROVE  h[T] = g[T]
<1> DEFINE Bad == {s \in SUBSET T : h[s] # g[s]}
<1>1. ASSUME Bad # {}
      PROVE  FALSE
  <2>1. Bad \in SUBSET (SUBSET T) /\ IsFiniteSet(T)
    BY FS_Subset
  <2>2. PICK s \in Bad : \A x \in s : s \ {x} \notin Bad
    <3> HIDE DEF Bad
    <3> QED
      BY <1>1, <2>1, Smallest
  <2>3. s \in SUBSET T /\ s \in SUBSET S /\ h[s] # g[s]
    OBVIOUS
  <2>4. g[s] = IF s = {} THEN 0 ELSE f[Pick(s)] + g[s \ {Pick(s)}]
    BY <2>3, Zenon DEF AddsUp, Summing
  <2>5. h[s] = IF s = {} THEN 0 ELSE e[Pick(s)] + h[s \ {Pick(s)}]
    BY <2>3, Zenon DEF AddsUp, Summing
  <2>6. s # {} /\ Pick(s) \in s
    BY <2>3, <2>4, <2>5, PickIn
  <2>7. h[s \ {Pick(s)}] = g[s \ {Pick(s)}]
    BY <2>2, <2>3, <2>6
  <2> QED
    BY <2>3, <2>4, <2>5, <2>6, <2>7
<1> QED
  BY <1>1

\* What the community module computes is such a g, applied to the whole of S.
LEMMA SumIsSumming ==
  ASSUME NEW f, NEW S, IsFiniteSet(S)
  PROVE  \E g : AddsUp(g, f, S) /\ SumFunctionOnSet(f, S) = g[S]
<1> DEFINE h == CHOOSE g : AddsUp(g, f, S)
<1>1. AddsUp(h, f, S)
  BY SummingExists, Zenon
<1>2. SumFunctionOnSet(f, S) = h[S]
  BY Zenon DEF SumFunctionOnSet, FoldFunctionOnSet, MapThenFoldSet, AddsUp, Summing, Pick
<1> QED
  BY <1>1, <1>2

LEMMA SumEmpty == ASSUME NEW f PROVE SumFunctionOnSet(f, {}) = 0
<1>1. PICK g : AddsUp(g, f, {}) /\ SumFunctionOnSet(f, {}) = g[{}]
  BY FS_EmptySet, SumIsSumming
<1>2. g[{}] = 0
  BY <1>1 DEF AddsUp, Summing
<1> QED
  BY <1>1, <1>2

LEMMA SumSame ==
  ASSUME NEW e, NEW f, NEW S, IsFiniteSet(S), \A x \in S : e[x] = f[x]
  PROVE  SumFunctionOnSet(e, S) = SumFunctionOnSet(f, S)
<1>1. PICK g : AddsUp(g, f, S) /\ SumFunctionOnSet(f, S) = g[S]
  BY SumIsSumming
<1>2. PICK h : AddsUp(h, e, S) /\ SumFunctionOnSet(e, S) = h[S]
  BY SumIsSumming
<1>3. S \subseteq S
  OBVIOUS
<1>4. h[S] = g[S]
  BY <1>1, <1>2, <1>3, SummingAgrees
<1> QED
  BY <1>1, <1>2, <1>4

LEMMA SummingType ==
  ASSUME NEW S, IsFiniteSet(S), NEW f, \A x \in S : f[x] \in Int,
         NEW g, AddsUp(g, f, S)
  PROVE  \A s \in SUBSET S : g[s] \in Int
<1> DEFINE Bad == {s \in SUBSET S : g[s] \notin Int}
<1> SUFFICES ASSUME Bad # {} PROVE FALSE
  OBVIOUS
<1>1. PICK s \in Bad : \A x \in s : s \ {x} \notin Bad
  <2>1. Bad \in SUBSET (SUBSET S)
    OBVIOUS
  <2> HIDE DEF Bad
  <2> QED
    BY <2>1, Smallest
<1>2. s \in SUBSET S /\ g[s] \notin Int
  OBVIOUS
<1>3. g[s] = IF s = {} THEN 0 ELSE f[Pick(s)] + g[s \ {Pick(s)}]
  BY <1>2, Zenon DEF AddsUp, Summing
<1>4. s # {} /\ Pick(s) \in s
  BY <1>2, <1>3, PickIn
<1>5. g[s \ {Pick(s)}] \in Int /\ f[Pick(s)] \in Int
  BY <1>1, <1>2, <1>4
<1> QED
  BY <1>2, <1>3, <1>4, <1>5

Without(s, x) == s \ {x}

\* Whichever element is taken first.
LEMMA SummingAny ==
  ASSUME NEW S, IsFiniteSet(S), NEW f, \A x \in S : f[x] \in Int,
         NEW g, AddsUp(g, f, S)
  PROVE  \A s \in SUBSET S : \A x \in s : g[s] = f[x] + g[Without(s, x)]
<1> USE DEF Without
<1> DEFINE Bad == {s \in SUBSET S : \E x \in s : g[s] # f[x] + g[s \ {x}]}
<1> SUFFICES ASSUME Bad # {} PROVE FALSE
  OBVIOUS
<1>1. PICK s \in Bad : \A x \in s : s \ {x} \notin Bad
  <2>1. Bad \in SUBSET (SUBSET S)
    OBVIOUS
  <2> HIDE DEF Bad
  <2> QED
    BY <2>1, Smallest
<1>2. PICK x \in s : g[s] # f[x] + g[s \ {x}]
  OBVIOUS
<1>3. s \in SUBSET S /\ s # {}
  OBVIOUS
<1> DEFINE p == Pick(s)
           rest == s \ {x, p}
<1>4. p \in s
  BY <1>3, PickIn
<1>5. g[s] = f[p] + g[s \ {p}]
  BY <1>3, Zenon DEF AddsUp, Summing
<1>6. x # p
  BY <1>2, <1>5
<1>7. ASSUME NEW y \in s, NEW z \in s, y # z
      PROVE  g[s \ {y}] = f[z] + g[s \ {y, z}]
  <2>1. s \ {y} \notin Bad
    BY <1>1
  <2>2. g[s \ {y}] = f[z] + g[(s \ {y}) \ {z}]
    BY <1>3, <1>7, <2>1
  <2>3. (s \ {y}) \ {z} = s \ {y, z}
    OBVIOUS
  <2> QED
    BY <2>2, <2>3
<1> HIDE DEF Bad, p
<1>8. g[s \ {p}] = f[x] + g[rest]
  <2>1. s \ {p, x} = rest
    OBVIOUS
  <2> QED
    BY <1>4, <1>6, <1>7, <2>1
<1>9. g[s \ {x}] = f[p] + g[rest]
  BY <1>4, <1>6, <1>7
<1>10. f[x] \in Int /\ f[p] \in Int
  BY <1>3, <1>4
<1>11. g[rest] \in Int
  BY <1>3, SummingType
<1> QED
  BY <1>2, <1>5, <1>8, <1>9, <1>10, <1>11

\* One element may be taken out of a sum, whichever it is.
LEMMA SumRemove ==
  ASSUME NEW S, IsFiniteSet(S), NEW f, \A x \in S : f[x] \in Int, NEW x \in S
  PROVE  /\ SumFunctionOnSet(f, S) \in Int
         /\ SumFunctionOnSet(f, S \ {x}) \in Int
         /\ SumFunctionOnSet(f, S) = f[x] + SumFunctionOnSet(f, S \ {x})
<1> DEFINE T == S \ {x}
<1>1. PICK g : AddsUp(g, f, S) /\ SumFunctionOnSet(f, S) = g[S]
  BY SumIsSumming
<1>2. IsFiniteSet(T) /\ T \subseteq S
  BY FS_RemoveElement
<1>3. PICK h : AddsUp(h, f, T) /\ SumFunctionOnSet(f, T) = h[T]
  BY <1>2, SumIsSumming
<1>4. h[T] = g[T]
  BY <1>1, <1>2, <1>3, SummingAgrees
<1>5. g[S] = f[x] + g[T]
  <2>1. Without(S, x) = T
    BY DEF Without
  <2>2. g[S] = f[x] + g[Without(S, x)]
    BY <1>1, SummingAny
  <2> QED
    BY <2>1, <2>2
<1>6. g[S] \in Int /\ g[T] \in Int
  BY <1>1, <1>2, SummingType
<1> QED
  BY <1>1, <1>3, <1>4, <1>5, <1>6

\* One summand changes.
LEMMA SumChange ==
  ASSUME NEW S, IsFiniteSet(S), NEW f, NEW e, NEW x \in S,
         \A y \in S : f[y] \in Int /\ e[y] \in Int,
         \A y \in S : y # x => e[y] = f[y]
  PROVE  SumFunctionOnSet(e, S) = SumFunctionOnSet(f, S) + e[x] - f[x]
<1>1. IsFiniteSet(S \ {x})
  BY FS_RemoveElement
<1>2. SumFunctionOnSet(e, S \ {x}) = SumFunctionOnSet(f, S \ {x})
  BY <1>1, SumSame
<1> QED
  BY <1>2, SumRemove

LEMMA SumZero ==
  ASSUME NEW S, IsFiniteSet(S), NEW f, \A x \in S : f[x] = 0
  PROVE  SumFunctionOnSet(f, S) = 0
<1>1. PICK g : AddsUp(g, f, S) /\ SumFunctionOnSet(f, S) = g[S]
  BY SumIsSumming
<1> DEFINE Bad == {s \in SUBSET S : g[s] # 0}
<1>2. ASSUME Bad # {}
      PROVE  FALSE
  <2>1. PICK s \in Bad : \A x \in s : s \ {x} \notin Bad
    <3>1. Bad \in SUBSET (SUBSET S)
      OBVIOUS
    <3> HIDE DEF Bad
    <3> QED
      BY <1>2, <3>1, Smallest
  <2>2. s \in SUBSET S /\ g[s] # 0
    OBVIOUS
  <2>3. g[s] = IF s = {} THEN 0 ELSE f[Pick(s)] + g[s \ {Pick(s)}]
    BY <1>1, <2>2, Zenon DEF AddsUp, Summing
  <2>4. s # {} /\ Pick(s) \in s
    BY <2>2, <2>3, PickIn
  <2>5. g[s \ {Pick(s)}] = 0 /\ f[Pick(s)] = 0
    BY <2>1, <2>2, <2>4
  <2> QED
    BY <2>2, <2>3, <2>4, <2>5
<1> QED
  BY <1>1, <1>2

-------------------------------------------------------------------------------
(***************************************************************************)
(* The invariant of ProxyRequest (proxy.go:60-144, 343-458). A handler     *)
(* holds its charge in some places and is free of it in others.            *)
(***************************************************************************)
Held == {"read", "resolve", "build", "do", "relay", "copy", "release"}
Free == {"idle", "audit", "recover"}

Entries == [status : Nat, client : Nat, upstream : Nat,
            error : BOOLEAN, success : BOOLEAN, usage : BOOLEAN]

RequestTypeOK ==
  /\ avail \in Int
  /\ phase \in [Requests -> Bodies!Phases]
  /\ size \in [Requests -> Nat]
  /\ overdue \in [Requests -> BOOLEAN]
  /\ pc \in [Requests -> {"admit"} \cup Held \cup Free]
  /\ length \in [Requests -> Int]
  /\ stream \in [Requests -> BOOLEAN]
  /\ entry \in [Requests -> Entries]
  /\ sent \in [Requests -> Nat]
  /\ seen \in [Requests -> Nat]
  /\ whole \in [Requests -> BOOLEAN]
  /\ panicked \in [Requests -> BOOLEAN]
  /\ row \in [Requests -> Entries \cup {NoRow}]

\* Where the budget has the request of a handler that is at pc.
PhaseOf(r) == IF pc[r] = "admit" THEN "asking"
              ELSE IF pc[r] \in Held THEN "holding" ELSE "out"

BudgetInv ==
  /\ \A r \in Requests : phase[r] = PhaseOf(r)
  /\ \A r \in Requests : phase[r] # "out" => size[r] = Bodies!chargeForBody(length[r])
  /\ avail + SumFunctionOnSet([r \in Requests |-> HeldBy(r)], Requests) = Budget

\* What the entry e of a handler that is done says of the answer.
Outcome(e, all, unwound) ==
  /\ e.success => /\ all /\ ~unwound /\ ~e.error
                  /\ Is2xx(e.status) /\ e.upstream = e.status
  /\ e.usage => e.success
  /\ e.success \/ e.error \/ unwound \/ e.upstream \in {101} \cup 300..399

\* Nothing has been written to the client, nor into the row.
Unanswered == {"admit", "read", "resolve", "build", "do"}

\* The entry e, the status s captured, the one v seen and the row k, by the place.
RowAt(place, e, s, v, all, unwound, k) ==
  /\ place \in Unanswered =>
       /\ e.status = 0 /\ e.upstream = 0 /\ ~e.error /\ ~e.success /\ ~e.usage
       /\ s = 0 /\ v = 0 /\ ~unwound
  /\ place \in {"relay", "copy"} =>
       /\ e.status \in FinalStatuses /\ e.upstream = e.status
       /\ ~e.error /\ ~e.success /\ ~e.usage /\ ~unwound
       /\ IF e.status >= 400 THEN place = "relay" /\ s = 0 /\ v = 0
                             ELSE place = "copy" /\ s = e.status /\ v = e.status
  /\ place \in {"release", "audit"} =>
       /\ Outcome(e, all, unwound)
       /\ e.status = s /\ v = s
       /\ s = 0 => unwound
  /\ place \in {"recover", "idle"} /\ k # NoRow =>
       /\ Outcome(k, all, unwound)
       /\ k.success => k.client = k.status
       /\ k.status = IF place = "recover" /\ v = 0 THEN 500 ELSE v

RowInv(r) == RowAt(pc[r], entry[r], sent[r], seen[r], whole[r], panicked[r], row[r])

RequestInv == RequestTypeOK /\ BudgetInv /\ \A r \in Requests : RowInv(r)

LEMMA ChargeIsNat == ASSUME NEW l PROVE Bodies!chargeForBody(l) \in Nat
  BY RequestAssumption DEF Bodies!chargeForBody

LEMMA RequestInitInv == RequestInit => RequestInv
<1> SUFFICES ASSUME RequestInit PROVE RequestInv
  OBVIOUS
<1>1. RequestTypeOK
  BY RequestAssumption DEF RequestInit, Bodies!Init, Bodies!Phases, RequestTypeOK, Free, Entries, newAuditLog
<1>2. BudgetInv
  <2>1. \A r \in Requests : [q \in Requests |-> HeldBy(q)][r] = 0
    BY DEF RequestInit, Bodies!Init, HeldBy
  <2>2. SumFunctionOnSet([q \in Requests |-> HeldBy(q)], Requests) = 0
    BY <2>1, SumZero, RequestAssumption
  <2> QED
    BY <2>2, RequestAssumption DEF RequestInit, Bodies!Init, BudgetInv, PhaseOf, Held
<1>3. \A r \in Requests : RowInv(r)
  BY DEF RequestInit, RowInv, RowAt, Unanswered
<1> QED
  BY <1>1, <1>2, <1>3 DEF RequestInv

(***************************************************************************)
(* What a step may do with the budget.                                     *)
(***************************************************************************)

\* The handler goes on with what it holds, or goes on without holding anything.
LEMMA BudgetKept ==
  ASSUME RequestTypeOK, BudgetInv, NEW r \in Requests, NEW next,
         GoTo(r, next), UNCHANGED <<budgetVars, length>>,
         (pc[r] \in Held /\ next \in Held) \/ (pc[r] \in Free /\ next \in Free)
  PROVE  BudgetInv'
<1>1. \A q \in Requests : PhaseOf(q)' = PhaseOf(q)
  BY DEF RequestTypeOK, GoTo, PhaseOf, Held, Free
<1>2. [q \in Requests |-> HeldBy(q)]' = [q \in Requests |-> HeldBy(q)]
  BY DEF budgetVars, HeldBy
<1> QED
  BY <1>1, <1>2 DEF BudgetInv, budgetVars

\* One request's charge changes, and the free part of the budget with it.
LEMMA SumMoves ==
  ASSUME RequestTypeOK, RequestTypeOK', NEW r \in Requests,
         \A q \in Requests : q # r => HeldBy(q)' = HeldBy(q),
         avail' - avail = HeldBy(r) - HeldBy(r)',
         avail + SumFunctionOnSet([q \in Requests |-> HeldBy(q)], Requests) = Budget
  PROVE  avail' + SumFunctionOnSet([q \in Requests |-> HeldBy(q)]', Requests) = Budget
<1> DEFINE f == [q \in Requests |-> HeldBy(q)]
           e == [q \in Requests |-> HeldBy(q)']
<1>1. \A q \in Requests : f[q] \in Int /\ e[q] \in Int
  BY DEF RequestTypeOK, HeldBy
<1>2. \A q \in Requests : q # r => e[q] = f[q]
  OBVIOUS
<1>3. f[r] = HeldBy(r) /\ e[r] = HeldBy(r)'
  OBVIOUS
<1> HIDE DEF f, e
<1>4. IsFiniteSet(Requests)
  BY RequestAssumption
<1>5. SumFunctionOnSet(e, Requests) = SumFunctionOnSet(f, Requests) + e[r] - f[r]
  BY <1>1, <1>2, <1>4, SumChange
<1>6. SumFunctionOnSet(f, Requests) \in Int
  BY <1>1, <1>4, SumRemove
<1>7. avail \in Int /\ avail' \in Int /\ HeldBy(r) \in Int /\ HeldBy(r)' \in Int /\ Budget \in Int
  BY <1>1, <1>3, RequestAssumption DEF RequestTypeOK
<1>8. avail' + SumFunctionOnSet(e, Requests) = Budget
  BY <1>3, <1>5, <1>6, <1>7 DEF f
<1> QED
  BY <1>8 DEF e

(***************************************************************************)
(* What a step of one request leaves to the others.                        *)
(***************************************************************************)
RowVars(q) == <<pc[q], entry[q], sent[q], seen[q], whole[q], panicked[q], row[q]>>

LEMMA OthersKept ==
  ASSUME NEW q \in Requests, RowInv(q), RowVars(q)' = RowVars(q)
  PROVE  RowInv(q)'
  BY DEF RowInv, RowVars

LEMMA Together ==
  ASSUME RequestInv, NEW r \in Requests, RequestTypeOK', BudgetInv', RowInv(r)',
         \A q \in Requests : q # r => RowVars(q)' = RowVars(q)
  PROVE  RequestInv'
  BY OthersKept DEF RequestInv

(***************************************************************************)
(* One lemma for each way in which a handler goes on.                      *)
(***************************************************************************)
\* The handler answers with an error of its own.
LEMMA RejectKeeps ==
  ASSUME RequestInv, NEW r \in Requests, pc[r] \in Unanswered, NEW status \in 400..599,
         NEW next \in {"release", "audit"}, Reject(r, status, next),
         BudgetInv', avail' \in Int, phase' \in [Requests -> Bodies!Phases],
         size' = size, overdue' \in [Requests -> BOOLEAN]
  PROVE  RequestInv'
<1> DEFINE e == entry[r]
           f == [e EXCEPT !.error = TRUE, !.status = status]
<1>1. /\ e \in Entries /\ ~e.success /\ ~e.usage /\ sent[r] = 0 /\ seen[r] = 0
  BY DEF RequestInv, RowInv, RowAt, RequestTypeOK
<1>2. /\ entry' = [entry EXCEPT ![r] = f]
      /\ sent' = [sent EXCEPT ![r] = status]
      /\ seen' = [seen EXCEPT ![r] = status]
      /\ pc' = [pc EXCEPT ![r] = next]
      /\ UNCHANGED <<length, stream, whole, panicked, row>>
  <2>1. entry' = [entry EXCEPT ![r].error = TRUE, ![r].status = status]
    BY DEF Reject
  <2>2. entry' = [entry EXCEPT ![r] = f]
    BY <2>1 DEF RequestInv, RequestTypeOK
  <2> QED
    BY <1>1, <2>2 DEF Reject, WriteHeader, GoTo
<1>3. f \in Entries /\ f.status = status /\ f.error /\ ~f.success /\ ~f.usage
  <2>1. status \in Nat
    OBVIOUS
  <2> HIDE DEF e
  <2> QED
    BY <1>1, <2>1 DEF Entries
<1> HIDE DEF e, f
<1>4. RequestTypeOK'
  BY <1>2, <1>3 DEF RequestInv, RequestTypeOK, Held, Free
<1>5. RowInv(r)'
  <2>1. /\ pc'[r] = next /\ entry'[r] = f /\ sent'[r] = status /\ seen'[r] = status
    BY <1>2 DEF RequestInv, RequestTypeOK
  <2> QED
    BY <1>3, <2>1 DEF RowInv, RowAt, Outcome, Unanswered
<1>6. \A q \in Requests : q # r => RowVars(q)' = RowVars(q)
  BY <1>2 DEF RowVars, RequestInv, RequestTypeOK
<1> QED
  BY <1>4, <1>5, <1>6, Together

LEMMA PanicKeeps ==
  ASSUME RequestInv, NEW r \in Requests, pc[r] \in {"resolve", "build", "copy"}, Panic(r)
  PROVE  RequestInv'
<1>1. RequestTypeOK'
  BY DEF RequestInv, RequestTypeOK, Panic, GoTo, Held, budgetVars
<1>2. BudgetInv'
  BY BudgetKept DEF RequestInv, Panic, Held
<1>3. RowInv(r)'
  <2>1. /\ pc'[r] = "release" /\ panicked'[r] /\ entry'[r] = entry[r]
        /\ sent'[r] = sent[r] /\ seen'[r] = seen[r]
    BY DEF RequestInv, RequestTypeOK, Panic, GoTo
  <2>2. /\ ~entry[r].success /\ ~entry[r].usage
        /\ entry[r].status = sent[r] /\ seen[r] = sent[r]
    BY DEF RequestInv, RowInv, RowAt, Unanswered
  <2> QED
    BY <2>1, <2>2 DEF RowInv, RowAt, Outcome, Unanswered
<1>4. \A q \in Requests : q # r => RowVars(q)' = RowVars(q)
  BY DEF RowVars, RequestInv, RequestTypeOK, Panic, GoTo
<1> QED
  BY <1>1, <1>2, <1>3, <1>4, Together

LEMMA ArriveKeeps ==
  ASSUME RequestInv, NEW r \in Requests, Arrive(r)
  PROVE  RequestInv'
<1>1. PICK l \in Lengths :
        /\ Bodies!Ask(r)
        /\ size'[r] = Bodies!chargeForBody(l)
        /\ length' = [length EXCEPT ![r] = l]
  BY DEF Arrive
<1>2. PICK n \in Bodies!Charges : size' = [size EXCEPT ![r] = n]
  BY <1>1 DEF Bodies!Ask
<1>3. /\ size' = [size EXCEPT ![r] = Bodies!chargeForBody(l)]
      /\ Bodies!chargeForBody(l) \in Nat /\ l \in Int
  BY <1>1, <1>2, ChargeIsNat, RequestAssumption DEF RequestInv, RequestTypeOK
<1>4. RequestTypeOK'
  BY <1>1, <1>3 DEF Arrive, GoTo, RequestInv, RequestTypeOK, Entries, newAuditLog,
                    Bodies!Ask, Bodies!Phases
<1>5. /\ phase[r] = "out" /\ phase' = [phase EXCEPT ![r] = "asking"]
      /\ avail' = avail /\ pc[r] = "idle" /\ pc' = [pc EXCEPT ![r] = "admit"]
  BY <1>1 DEF Arrive, GoTo, Bodies!Ask
<1>6. BudgetInv'
  <2>1. \A q \in Requests : phase'[q] = PhaseOf(q)'
    BY <1>5 DEF RequestInv, RequestTypeOK, BudgetInv, PhaseOf
  <2>2. \A q \in Requests : phase'[q] # "out" => size'[q] = Bodies!chargeForBody(length'[q])
    BY <1>1, <1>3, <1>5 DEF RequestInv, RequestTypeOK, BudgetInv
  <2>3. \A q \in Requests : HeldBy(q)' = HeldBy(q)
    BY <1>3, <1>5 DEF HeldBy, RequestInv, RequestTypeOK
  <2>4. avail' + SumFunctionOnSet([q \in Requests |-> HeldBy(q)]', Requests) = Budget
    BY <1>5, <2>3 DEF RequestInv, BudgetInv
  <2> QED
    BY <2>1, <2>2, <2>4 DEF BudgetInv
<1>7. RowInv(r)'
  <2>1. /\ pc'[r] = "admit" /\ entry'[r] = newAuditLog /\ sent'[r] = 0 /\ seen'[r] = 0
        /\ ~panicked'[r]
    BY DEF Arrive, GoTo, RequestInv, RequestTypeOK
  <2> QED
    BY <2>1 DEF RowInv, RowAt, Unanswered, newAuditLog
<1>8. \A q \in Requests : q # r => RowVars(q)' = RowVars(q)
  BY DEF RowVars, RequestInv, RequestTypeOK, Arrive, GoTo
<1> QED
  BY <1>4, <1>6, <1>7, <1>8, Together

LEMMA OverdueKeeps ==
  ASSUME RequestInv, NEW r \in Requests, Overdue(r)
  PROVE  RequestInv'
<1>1. /\ UNCHANGED <<avail, phase, size, pc, handlerVars>>
      /\ overdue' = [overdue EXCEPT ![r] = TRUE]
  BY DEF Overdue, Bodies!BecomeOverdue
<1>2. RequestTypeOK'
  BY <1>1 DEF RequestInv, RequestTypeOK, handlerVars
<1>3. BudgetInv'
  BY <1>1 DEF RequestInv, BudgetInv, PhaseOf, HeldBy, handlerVars
<1>4. \A q \in Requests : RowVars(q)' = RowVars(q)
  BY <1>1 DEF RowVars, handlerVars
<1> QED
  BY <1>2, <1>3, <1>4, OthersKept DEF RequestInv

LEMMA AdmitKeeps ==
  ASSUME RequestInv, NEW r \in Requests, Admit(r)
  PROVE  RequestInv'
<1>1. /\ UNCHANGED <<size, handlerVars>> /\ pc[r] = "admit" /\ phase[r] = "asking"
      /\ avail' = avail - size[r]
      /\ phase' = [phase EXCEPT ![r] = "holding"]
      /\ overdue' = [overdue EXCEPT ![r] = FALSE]
      /\ pc' = [pc EXCEPT ![r] = "read"]
  BY DEF Admit, Bodies!Grant, GoTo
<1>2. RequestTypeOK'
  BY <1>1 DEF RequestInv, RequestTypeOK, handlerVars, Held, Bodies!Phases
<1>3. BudgetInv'
  <2>1. \A q \in Requests : phase'[q] = PhaseOf(q)'
    BY <1>1 DEF RequestInv, RequestTypeOK, BudgetInv, PhaseOf, Held
  <2>2. \A q \in Requests : phase'[q] # "out" => size'[q] = Bodies!chargeForBody(length'[q])
    BY <1>1 DEF RequestInv, RequestTypeOK, BudgetInv, handlerVars
  <2>3. /\ \A q \in Requests : q # r => HeldBy(q)' = HeldBy(q)
        /\ avail' - avail = HeldBy(r) - HeldBy(r)'
    BY <1>1 DEF HeldBy, RequestInv, RequestTypeOK
  <2>4. avail' + SumFunctionOnSet([q \in Requests |-> HeldBy(q)]', Requests) = Budget
    BY <1>2, <2>3, SumMoves DEF RequestInv, BudgetInv
  <2> QED
    BY <2>1, <2>2, <2>4 DEF BudgetInv
<1>4. RowInv(r)'
  BY <1>1 DEF RowInv, RowAt, Unanswered, RequestInv, RequestTypeOK, handlerVars
<1>5. \A q \in Requests : q # r => RowVars(q)' = RowVars(q)
  BY <1>1 DEF RowVars, RequestInv, RequestTypeOK, handlerVars
<1> QED
  BY <1>2, <1>3, <1>4, <1>5, Together

LEMMA RefuseKeeps ==
  ASSUME RequestInv, NEW r \in Requests, RefuseAdmission(r)
  PROVE  RequestInv'
<1>1. /\ UNCHANGED <<avail, size, length>> /\ pc[r] = "admit" /\ phase[r] = "asking"
      /\ phase' = [phase EXCEPT ![r] = "out"]
      /\ overdue' = [overdue EXCEPT ![r] = FALSE]
      /\ pc' = [pc EXCEPT ![r] = "audit"]
  BY DEF RefuseAdmission, Bodies!Refuse, Reject, GoTo
<1>2. BudgetInv'
  <2>1. \A q \in Requests : phase'[q] = PhaseOf(q)'
    BY <1>1 DEF RequestInv, RequestTypeOK, BudgetInv, PhaseOf, Held
  <2>2. \A q \in Requests : phase'[q] # "out" => size'[q] = Bodies!chargeForBody(length'[q])
    BY <1>1 DEF RequestInv, RequestTypeOK, BudgetInv
  <2>3. \A q \in Requests : HeldBy(q)' = HeldBy(q)
    BY <1>1 DEF HeldBy, RequestInv, RequestTypeOK
  <2>4. avail' + SumFunctionOnSet([q \in Requests |-> HeldBy(q)]', Requests) = Budget
    BY <1>1, <2>3 DEF RequestInv, BudgetInv
  <2> QED
    BY <2>1, <2>2, <2>4 DEF BudgetInv
<1>3. /\ avail' \in Int /\ phase' \in [Requests -> Bodies!Phases]
      /\ overdue' \in [Requests -> BOOLEAN]
  BY <1>1 DEF RequestInv, RequestTypeOK, Bodies!Phases
<1>4. Reject(r, 503, "audit") /\ 503 \in 400..599 /\ pc[r] \in Unanswered
  BY <1>1 DEF RefuseAdmission, Unanswered
<1> QED
  BY <1>1, <1>2, <1>3, <1>4, RejectKeeps

\* It does so while it holds its charge.
LEMMA HolderRejects ==
  ASSUME RequestInv, NEW r \in Requests, pc[r] \in Unanswered \ {"admit"},
         NEW status \in 400..599, Reject(r, status, "release"), UNCHANGED budgetVars
  PROVE  RequestInv'
<1>1. BudgetInv'
  BY BudgetKept DEF RequestInv, Reject, Unanswered, Held
<1>2. /\ avail' \in Int /\ phase' \in [Requests -> Bodies!Phases] /\ size' = size
      /\ overdue' \in [Requests -> BOOLEAN]
  BY DEF RequestInv, RequestTypeOK, budgetVars
<1> QED
  BY <1>1, <1>2, RejectKeeps

LEMMA GoOnKeeps ==
  ASSUME RequestInv, NEW r \in Requests, pc[r] \in {"resolve", "build"},
         NEW next \in {"build", "do"}, GoTo(r, next),
         UNCHANGED <<budgetVars, length, stream, entry, sent, seen, whole, panicked, row>>
  PROVE  RequestInv'
<1>1. RequestTypeOK'
  BY DEF RequestInv, RequestTypeOK, GoTo, Held, budgetVars, handlerVars
<1>2. BudgetInv'
  BY BudgetKept DEF RequestInv, Held, handlerVars
<1>3. RowInv(r)'
  BY DEF RequestInv, RequestTypeOK, RowInv, RowAt, Unanswered, GoTo, handlerVars
<1>4. \A q \in Requests : q # r => RowVars(q)' = RowVars(q)
  BY DEF RowVars, RequestInv, RequestTypeOK, GoTo, handlerVars
<1> QED
  BY <1>1, <1>2, <1>3, <1>4, Together

LEMMA ReadKeeps ==
  ASSUME RequestInv, NEW r \in Requests, readRequestBody(r)
  PROVE  RequestInv'
<1>1. /\ pc[r] = "read" /\ GoTo(r, "resolve")
      /\ UNCHANGED <<budgetVars, length, entry, sent, seen, whole, panicked, row>>
      /\ stream' \in [Requests -> BOOLEAN]
  BY DEF readRequestBody, RequestInv, RequestTypeOK
<1>2. RequestTypeOK'
  BY <1>1 DEF RequestInv, RequestTypeOK, GoTo, Held, budgetVars
<1>3. BudgetInv'
  BY <1>1, BudgetKept DEF RequestInv, Held
<1>4. RowInv(r)'
  BY <1>1 DEF RequestInv, RequestTypeOK, RowInv, RowAt, Unanswered, GoTo
<1>5. \A q \in Requests : q # r => RowVars(q)' = RowVars(q)
  BY <1>1 DEF RowVars, RequestInv, RequestTypeOK, GoTo
<1> QED
  BY <1>2, <1>3, <1>4, <1>5, Together

LEMMA AnswersKeeps ==
  ASSUME RequestInv, NEW r \in Requests, upstreamAnswers(r)
  PROVE  RequestInv'
<1>1. PICK s \in UpstreamStatuses :
        /\ entry' = [entry EXCEPT ![r].status = s, ![r].upstream = s]
        /\ IF s >= 400
             THEN GoTo(r, "relay") /\ UNCHANGED <<sent, seen>>
             ELSE GoTo(r, "copy") /\ WriteHeader(r, s)
  BY DEF upstreamAnswers
<1> DEFINE e == entry[r]
           f == [e EXCEPT !.status = s, !.upstream = s]
           next == IF s >= 400 THEN "relay" ELSE "copy"
<1>2. /\ s \in FinalStatuses /\ pc[r] = "do"
      /\ UNCHANGED <<budgetVars, length, stream, whole, panicked, row>>
  BY RequestAssumption DEF upstreamAnswers
<1>3. /\ e \in Entries /\ ~e.error /\ ~e.success /\ ~e.usage
      /\ sent[r] = 0 /\ seen[r] = 0 /\ ~panicked[r]
  BY <1>2 DEF RequestInv, RowInv, RowAt, RequestTypeOK, Unanswered
<1>4. /\ f \in Entries /\ f.status = s /\ f.upstream = s
      /\ ~f.error /\ ~f.success /\ ~f.usage
  <2>1. s \in Nat
    BY <1>2 DEF FinalStatuses
  <2> HIDE DEF e
  <2> QED
    BY <1>3, <2>1 DEF Entries
<1>5. /\ entry' = [entry EXCEPT ![r] = f]
      /\ pc' = [pc EXCEPT ![r] = next]
      /\ sent' = [sent EXCEPT ![r] = IF s >= 400 THEN 0 ELSE s]
      /\ seen' = [seen EXCEPT ![r] = IF s >= 400 THEN 0 ELSE s]
  <2>1. entry' = [entry EXCEPT ![r] = f]
    BY <1>1 DEF RequestInv, RequestTypeOK
  <2>2. CASE s >= 400
    <3>1. /\ sent' = sent /\ seen' = seen /\ pc' = [pc EXCEPT ![r] = "relay"]
      BY <1>1, <2>2 DEF GoTo
    <3>2. /\ sent = [sent EXCEPT ![r] = 0] /\ seen = [seen EXCEPT ![r] = 0]
      BY <1>3 DEF RequestInv, RequestTypeOK
    <3> QED
      BY <2>1, <2>2, <3>1, <3>2
  <2>3. CASE ~(s >= 400)
    BY <1>1, <1>3, <2>1, <2>3 DEF WriteHeader, GoTo
  <2> QED
    BY <2>2, <2>3
<1> HIDE DEF e, f
<1>6. RequestTypeOK'
  BY <1>2, <1>4, <1>5 DEF FinalStatuses, RequestInv, RequestTypeOK, Held, budgetVars
<1>7. BudgetInv'
  <2>1. GoTo(r, next) /\ next \in Held /\ pc[r] \in Held
    BY <1>2, <1>5 DEF GoTo, Held
  <2> HIDE DEF next
  <2> QED
    BY <1>2, <2>1, BudgetKept DEF RequestInv
<1>8. RowInv(r)'
  <2>1. /\ pc'[r] = next /\ entry'[r] = f
        /\ sent'[r] = IF s >= 400 THEN 0 ELSE s
        /\ seen'[r] = IF s >= 400 THEN 0 ELSE s
        /\ ~panicked'[r]
    BY <1>2, <1>3, <1>5 DEF RequestInv, RequestTypeOK
  <2> QED
    BY <1>2, <1>4, <2>1 DEF RowInv, RowAt, Unanswered
<1>9. \A q \in Requests : q # r => RowVars(q)' = RowVars(q)
  BY <1>2, <1>5 DEF RowVars, RequestInv, RequestTypeOK
<1> QED
  BY <1>6, <1>7, <1>8, <1>9, Together

\* The end of the answer, whatever it was: entry f, and how much was written.
LEMMA EndOfAnswer ==
  ASSUME RequestInv, NEW r \in Requests, pc[r] \in {"relay", "copy"},
         NEW f \in Entries, NEW all \in BOOLEAN, NEW s \in Nat,
         entry' = [entry EXCEPT ![r] = f], whole' = [whole EXCEPT ![r] = all],
         sent' = [sent EXCEPT ![r] = s], seen' = [seen EXCEPT ![r] = s],
         s # 0, f.status = s, Outcome(f, all, panicked[r]), GoTo(r, "release"),
         UNCHANGED <<budgetVars, length, stream, panicked, row>>
  PROVE  RequestInv'
<1>1. RequestTypeOK'
  BY DEF RequestInv, RequestTypeOK, GoTo, Held, budgetVars
<1>2. BudgetInv'
  BY BudgetKept DEF RequestInv, Held
<1>3. RowInv(r)'
  <2>1. /\ pc'[r] = "release" /\ entry'[r] = f /\ sent'[r] = s /\ seen'[r] = s
        /\ whole'[r] = all /\ panicked'[r] = panicked[r]
    BY DEF RequestInv, RequestTypeOK, GoTo
  <2> QED
    BY <2>1 DEF RowInv, RowAt, Unanswered
<1>4. \A q \in Requests : q # r => RowVars(q)' = RowVars(q)
  BY DEF RowVars, RequestInv, RequestTypeOK, GoTo
<1> QED
  BY <1>1, <1>2, <1>3, <1>4, Together

LEMMA RelayKeeps ==
  ASSUME RequestInv, NEW r \in Requests, relayUpstreamError(r)
  PROVE  RequestInv'
<1>1. PICK all \in BOOLEAN : whole' = [whole EXCEPT ![r] = all]
  BY DEF relayUpstreamError
<1> DEFINE e == entry[r]
           f == [e EXCEPT !.error = TRUE, !.success = FALSE]
           s == e.status
<1>2. /\ e \in Entries /\ e.status \in FinalStatuses /\ e.upstream = e.status /\ ~e.usage
      /\ sent[r] = 0 /\ seen[r] = 0 /\ pc[r] = "relay"
  BY DEF relayUpstreamError, RequestInv, RowInv, RowAt, RequestTypeOK
<1>3. f \in Entries /\ f.status = s /\ f.error /\ ~f.success /\ ~f.usage
  BY <1>2 DEF Entries
<1>4. entry' = [entry EXCEPT ![r] = f]
  <2>1. entry' = [entry EXCEPT ![r].error = TRUE, ![r].success = FALSE]
    BY DEF relayUpstreamError
  <2> QED
    BY <2>1 DEF RequestInv, RequestTypeOK
<1>5. /\ sent' = [sent EXCEPT ![r] = s] /\ seen' = [seen EXCEPT ![r] = s]
      /\ GoTo(r, "release") /\ s \in Nat /\ s # 0
      /\ UNCHANGED <<budgetVars, length, stream, panicked, row>>
  BY <1>2, SMTT(30) DEF relayUpstreamError, WriteHeader, FinalStatuses
<1>6. Outcome(f, all, panicked[r])
  BY <1>3 DEF Outcome
<1> HIDE DEF e, f, s
<1> QED
  BY <1>1, <1>2, <1>3, <1>4, <1>5, <1>6, EndOfAnswer

LEMMA CopyKeeps ==
  ASSUME RequestInv, NEW r \in Requests, copyResponse(r)
  PROVE  RequestInv'
<1> DEFINE e == entry[r]
           s == e.status
<1>1. /\ e \in Entries /\ s \in {101} \cup 200..399 /\ e.upstream = s
      /\ ~e.error /\ ~e.success /\ ~e.usage /\ ~panicked[r]
      /\ sent[r] = s /\ seen[r] = s /\ pc[r] = "copy"
  <2>1. /\ pc[r] = "copy" /\ e \in Entries
        /\ RowAt(pc[r], e, sent[r], seen[r], whole[r], panicked[r], row[r])
    BY DEF copyResponse, RequestInv, RowInv, RequestTypeOK
  <2>2. e.status \in Nat
    BY <2>1 DEF Entries
  <2> HIDE DEF e
  <2> QED
    BY <2>1, <2>2 DEF RowAt, FinalStatuses
<1>2. /\ sent' = [sent EXCEPT ![r] = s] /\ seen' = [seen EXCEPT ![r] = s]
      /\ GoTo(r, "release") /\ s \in Nat /\ s # 0
      /\ UNCHANGED <<budgetVars, length, stream, panicked, row>>
  BY <1>1 DEF copyResponse, RequestInv, RequestTypeOK
<1>3. ASSUME NEW good \in BOOLEAN, NEW told \in BOOLEAN,
             good <=> s \in 200..299, told => good,
             entry' = [entry EXCEPT ![r].success = good, ![r].usage = told],
             whole' = [whole EXCEPT ![r] = TRUE]
      PROVE  RequestInv'
  <2> DEFINE f == [e EXCEPT !.success = good, !.usage = told]
  <2>1. entry' = [entry EXCEPT ![r] = f]
    BY <1>3 DEF RequestInv, RequestTypeOK
  <2>2. /\ f \in Entries
        /\ f.status = s /\ f.upstream = e.upstream /\ f.error = e.error
        /\ f.success = good /\ f.usage = told
    <3>1. f = [e EXCEPT !.success = good, !.usage = told] /\ e \in Entries
      BY <1>1
    <3> HIDE DEF e, f
    <3>2. /\ f \in Entries
          /\ f.status = e.status /\ f.upstream = e.upstream /\ f.error = e.error
          /\ f.success = good /\ f.usage = told
      BY <3>1 DEF Entries
    <3> QED
      BY <3>2
  <2> HIDE DEF f
  <2>3. Outcome(f, TRUE, panicked[r])
    BY <1>1, <1>3, <2>2 DEF Outcome, Is2xx
  <2> HIDE DEF e, s
  <2>4. /\ pc[r] \in {"relay", "copy"} /\ TRUE \in BOOLEAN /\ whole' = [whole EXCEPT ![r] = TRUE]
        /\ f \in Entries /\ f.status = s
    BY <1>1, <1>3, <2>2
  <2> QED
    BY <1>2, <2>1, <2>3, <2>4, EndOfAnswer
<1>4. ASSUME NEW all \in BOOLEAN, entry' = [entry EXCEPT ![r].error = TRUE],
             whole' = [whole EXCEPT ![r] = all]
      PROVE  RequestInv'
  <2> DEFINE f == [e EXCEPT !.error = TRUE]
  <2>1. entry' = [entry EXCEPT ![r] = f]
    BY <1>4 DEF RequestInv, RequestTypeOK
  <2>2. f \in Entries /\ f.status = s /\ f.error /\ ~f.success /\ ~f.usage
    BY <1>1 DEF Entries
  <2> HIDE DEF f, e, s
  <2>3. Outcome(f, all, panicked[r])
    BY <2>2 DEF Outcome
  <2> QED
    BY <1>1, <1>2, <1>4, <2>1, <2>2, <2>3, EndOfAnswer
<1>5. ASSUME NEW counted \in BOOLEAN,
             entry' = [entry EXCEPT ![r].success = Is2xx(entry[r].upstream),
                                    ![r].usage = Is2xx(entry[r].upstream) /\ counted],
             whole' = [whole EXCEPT ![r] = TRUE]
      PROVE  RequestInv'
  <2>1. CASE s \in 200..299
    <3>1. Is2xx(entry[r].upstream) = TRUE
      BY <1>1, <2>1 DEF Is2xx
    <3>2. entry' = [entry EXCEPT ![r].success = TRUE, ![r].usage = counted]
      BY <1>5, <3>1
    <3> QED
      BY <1>3, <1>5, <2>1, <3>2
  <2>2. CASE s \notin 200..299
    <3>1. Is2xx(entry[r].upstream) = FALSE
      BY <1>1, <2>2 DEF Is2xx
    <3>2. entry' = [entry EXCEPT ![r].success = FALSE, ![r].usage = FALSE]
      BY <1>5, <3>1
    <3> QED
      BY <1>3, <1>5, <2>2, <3>2
  <2> QED
    BY <2>1, <2>2
<1> QED
  BY <1>4, <1>5 DEF copyResponse

LEMMA ReleaseKeeps ==
  ASSUME RequestInv, NEW r \in Requests, release(r)
  PROVE  RequestInv'
<1>1. /\ pc[r] = "release" /\ phase[r] = "holding"
      /\ avail' = avail + size[r]
      /\ phase' = [phase EXCEPT ![r] = "out"]
      /\ pc' = [pc EXCEPT ![r] = "audit"]
      /\ UNCHANGED <<size, overdue, length, stream, entry, sent, seen, whole, panicked, row>>
  BY DEF release, Bodies!GiveBack, GoTo
<1>2. RequestTypeOK'
  BY <1>1 DEF RequestInv, RequestTypeOK, Free, Bodies!Phases
<1>3. BudgetInv'
  <2>1. \A q \in Requests : phase'[q] = PhaseOf(q)'
    BY <1>1 DEF RequestInv, RequestTypeOK, BudgetInv, PhaseOf, Held
  <2>2. \A q \in Requests : phase'[q] # "out" => size'[q] = Bodies!chargeForBody(length'[q])
    BY <1>1 DEF RequestInv, RequestTypeOK, BudgetInv
  <2>3. /\ \A q \in Requests : q # r => HeldBy(q)' = HeldBy(q)
        /\ avail' - avail = HeldBy(r) - HeldBy(r)'
    BY <1>1 DEF HeldBy, RequestInv, RequestTypeOK
  <2>4. avail' + SumFunctionOnSet([q \in Requests |-> HeldBy(q)]', Requests) = Budget
    BY <1>2, <2>3, SumMoves DEF RequestInv, BudgetInv
  <2> QED
    BY <2>1, <2>2, <2>4 DEF BudgetInv
<1>4. RowInv(r)'
  BY <1>1 DEF RowInv, RowAt, Unanswered, RequestInv, RequestTypeOK
<1>5. \A q \in Requests : q # r => RowVars(q)' = RowVars(q)
  BY <1>1 DEF RowVars, RequestInv, RequestTypeOK
<1> QED
  BY <1>2, <1>3, <1>4, <1>5, Together

LEMMA FinalizeKeeps ==
  ASSUME RequestInv, NEW r \in Requests, finalizeLog(r)
  PROVE  RequestInv'
<1> DEFINE e == entry[r]
           s == sent[r]
           final == Finalized(e, s)
           next == IF panicked[r] THEN "recover" ELSE "idle"
<1>1. PICK stored \in {final, NoRow} : row' = [row EXCEPT ![r] = stored]
  BY DEF finalizeLog
<1>2. /\ pc[r] = "audit" /\ GoTo(r, next)
      /\ entry' = [entry EXCEPT ![r] = final]
      /\ UNCHANGED <<budgetVars, length, stream, sent, seen, whole, panicked>>
  BY DEF finalizeLog
<1>3. /\ e \in Entries /\ s \in Nat /\ seen[r] = s /\ e.status = s
      /\ Outcome(e, whole[r], panicked[r])
      /\ s = 0 => panicked[r]
      /\ panicked[r] \in BOOLEAN
  BY <1>2 DEF RequestInv, RequestTypeOK, RowInv, RowAt
<1>4. /\ final \in Entries /\ final.client = s
      /\ final.status = IF s # 0 THEN s ELSE 500
      /\ final.success = e.success /\ final.usage = e.usage /\ final.error = e.error
      /\ final.upstream = e.upstream
  <2> DEFINE status == IF s # 0 THEN s ELSE 500
  <2>1. final = [e EXCEPT !.client = s, !.status = status]
    <3> DEFINE own == IF e.status = 0 THEN s ELSE e.status
    <3>1. status = IF own = 0 THEN 500 ELSE own
      BY <1>3
    <3> HIDE DEF status, e, s
    <3> QED
      BY <3>1 DEF Finalized
  <2>2. status \in Nat
    BY <1>3
  <2> HIDE DEF final, e, status
  <2>3. /\ final \in Entries /\ final.client = s /\ final.status = status
        /\ final.success = e.success /\ final.usage = e.usage /\ final.error = e.error
        /\ final.upstream = e.upstream
    BY <1>3, <2>1, <2>2 DEF Entries
  <2> QED
    BY <2>3 DEF status
<1>5. Outcome(final, whole[r], panicked[r]) /\ (final.success => s # 0)
  BY <1>3, <1>4 DEF Outcome, Is2xx
<1> HIDE DEF final, e, s
<1>6. RequestTypeOK'
  BY <1>1, <1>2, <1>4 DEF RequestInv, RequestTypeOK, GoTo, Free, budgetVars
<1>7. BudgetInv'
  <2>1. next \in Free /\ pc[r] \in Free
    BY <1>2 DEF Free
  <2> HIDE DEF next
  <2> QED
    BY <1>2, <2>1, BudgetKept DEF RequestInv
<1>8. RowInv(r)'
  <2>1. /\ pc'[r] = next /\ row'[r] = stored /\ seen'[r] = s
        /\ whole'[r] = whole[r] /\ panicked'[r] = panicked[r]
    BY <1>1, <1>2, <1>3 DEF RequestInv, RequestTypeOK, GoTo
  <2> QED
    BY <1>3, <1>4, <1>5, <2>1 DEF RowInv, RowAt, Unanswered
<1>9. \A q \in Requests : q # r => RowVars(q)' = RowVars(q)
  BY <1>1, <1>2 DEF RowVars, RequestInv, RequestTypeOK, GoTo
<1> QED
  BY <1>6, <1>7, <1>8, <1>9, Together

LEMMA RecoverKeeps ==
  ASSUME RequestInv, NEW r \in Requests, recoverPanic(r)
  PROVE  RequestInv'
<1>1. /\ pc[r] = "recover" /\ GoTo(r, "idle")
      /\ seen' = [seen EXCEPT ![r] = IF seen[r] = 0 THEN 500 ELSE seen[r]]
      /\ UNCHANGED <<budgetVars, length, stream, entry, sent, whole, panicked, row>>
  BY DEF recoverPanic
<1>2. RequestTypeOK'
  BY <1>1 DEF RequestInv, RequestTypeOK, GoTo, Free, budgetVars
<1>3. BudgetInv'
  BY <1>1, BudgetKept DEF RequestInv, Free
<1>4. RowInv(r)'
  BY <1>1 DEF RequestInv, RequestTypeOK, RowInv, RowAt, Unanswered, GoTo
<1>5. \A q \in Requests : q # r => RowVars(q)' = RowVars(q)
  BY <1>1 DEF RowVars, RequestInv, RequestTypeOK, GoTo
<1> QED
  BY <1>2, <1>3, <1>4, <1>5, Together

\* Every step of every handler.
LEMMA RequestStepKeeps ==
  ASSUME RequestInv, [RequestNext]_requestVars
  PROVE  RequestInv'
<1>1. CASE UNCHANGED requestVars
  <2>1. UNCHANGED <<avail, phase, size, overdue, pc, length, stream, entry, sent, seen,
                    whole, panicked, row>>
    BY <1>1 DEF requestVars, budgetVars, handlerVars
  <2>2. RequestTypeOK' /\ BudgetInv'
    BY <2>1 DEF RequestInv, RequestTypeOK, BudgetInv, PhaseOf, HeldBy
  <2>3. \A q \in Requests : RowVars(q)' = RowVars(q)
    BY <2>1 DEF RowVars
  <2> QED
    BY <2>2, <2>3, OthersKept DEF RequestInv
<1>2. ASSUME NEW r \in Requests, BoundedStep(r)
      PROVE  RequestInv'
  <2>1. CASE readRequestBodyRejects(r)
    <3>1. \E status \in {413, 400} : Reject(r, status, "release")
      BY <2>1 DEF readRequestBodyRejects
    <3> QED
      BY <2>1, <3>1, HolderRejects DEF readRequestBodyRejects, Unanswered
  <2>2. CASE resolveGateway(r)
    BY <2>2, HolderRejects, PanicKeeps, GoOnKeeps DEF resolveGateway, Unanswered, handlerVars
  <2>3. CASE buildUpstreamRequest(r)
    BY <2>3, HolderRejects, PanicKeeps, GoOnKeeps DEF buildUpstreamRequest, Unanswered
  <2>4. CASE upstreamFails(r)
    BY <2>4, HolderRejects DEF upstreamFails, Unanswered
  <2> QED
    BY <1>2, <2>1, <2>2, <2>3, <2>4, AdmitKeeps, RefuseKeeps, ReadKeeps, AnswersKeeps,
       ReleaseKeeps, FinalizeKeeps, RecoverKeeps DEF BoundedStep
<1>3. ASSUME NEW r \in Requests, ReadStep(r)
      PROVE  RequestInv'
  BY <1>3, RelayKeeps, CopyKeeps, PanicKeeps DEF ReadStep, copyPanics
<1> QED
  BY <1>1, <1>2, <1>3, ArriveKeeps, OverdueKeeps DEF RequestNext

LEMMA RequestInvariant == RequestSafety => []RequestInv
<1>1. RequestInv /\ [RequestNext]_requestVars => RequestInv'
  BY RequestStepKeeps
<1> QED
  BY <1>1, RequestInitInv, PTL DEF RequestSafety

(***************************************************************************)
(* For all requests, lengths and upstream statuses: the row of an ended    *)
(* request has the status its client was sent, says Success only of a      *)
(* whole 2xx answer passed on, counts usage for no other, and says why     *)
(* when it does not (proxy.go:132-144, 343-391, 431-458, middleware.go:    *)
(* 28-38).                                                                 *)
(***************************************************************************)
THEOREM RowIsTrue == RequestSpec => []RowTellsOutcome
<1>1. RequestInv => RowTellsOutcome
  <2> SUFFICES ASSUME RequestInv, NEW r \in Requests, Answered(r)
               PROVE  /\ row[r].status = seen[r]
                      /\ row[r].success =>
                           /\ whole[r] /\ ~panicked[r] /\ ~row[r].error
                           /\ Is2xx(seen[r])
                           /\ row[r].upstream = seen[r] /\ row[r].client = seen[r]
                      /\ row[r].usage => row[r].success
                      /\ row[r].success \/ row[r].error \/ panicked[r]
                           \/ row[r].upstream \in {101} \cup 300..399
    BY DEF RowTellsOutcome, RowTellsStatus, SuccessMeansDelivered, FailureExplained
  <2>1. pc[r] = "idle" /\ row[r] # NoRow /\ RowInv(r)
    BY DEF Answered, RequestInv
  <2> QED
    BY <2>1 DEF RowInv, RowAt, Outcome
<1> QED
  BY <1>1, RequestInvariant, PTL DEF RequestSpec

(***************************************************************************)
(* What is held of a body. A body and its rewrite are there only in a      *)
(* place under a charge; of the row's two copies the first comes with the  *)
(* read and the second with the rewrite (proxy.go:165, 230-242).           *)
(***************************************************************************)
Copied == {"resolve", "build"}
NotCopied == {"idle", "admit", "read", "recover"}

\* k units of a rewrite, and a units in the row.
CopiesAt(place, k, a) ==
  /\ a <= 2 * CaptureLimit
  /\ place \in Copied => a <= CaptureLimit
  /\ place \in NotCopied => a = 0
  /\ place \in {"read"} \cup Copied => k = 0

CopiesOf(r) ==
  BodyCharged(r) /\ RewriteEndsWithCharge(r) /\ CopiesAt(pc[r], forwarded[r], audited[r])

CopiesInv ==
  /\ body \in [Requests -> Nat]
  /\ forwarded \in [Requests -> Nat]
  /\ audited \in [Requests -> Nat]
  /\ \A r \in Requests : CopiesOf(r)

LEMMA CaptureIsNat == CaptureLimit \in Nat /\ 2 * CaptureLimit \in Nat
  BY RequestAssumption

LEMMA CopyIsCut ==
  ASSUME NEW n \in Nat
  PROVE  capBody(n) \in Nat /\ capBody(n) <= CaptureLimit
  BY RequestAssumption DEF capBody

\* A charge of another request is where it was.
LEMMA OthersCharged ==
  ASSUME RequestInv, RequestInv', NEW r \in Requests, NEW next, GoTo(r, next),
         NEW q \in Requests, q # r
  PROVE  phase'[q] = phase[q] /\ pc'[q] = pc[q]
  BY DEF RequestInv, RequestTypeOK, BudgetInv, PhaseOf, GoTo

\* The copies of one request change, or only its place does.
LEMMA CopiesTogether ==
  ASSUME RequestInv, RequestInv', CopiesInv, NEW r \in Requests, NEW next, GoTo(r, next),
         NEW n \in Nat, body' = [body EXCEPT ![r] = n],
         NEW k \in Nat, forwarded' = [forwarded EXCEPT ![r] = k],
         NEW a \in Nat, audited' = [audited EXCEPT ![r] = a],
         \A q \in Requests : q # r => size'[q] = size[q] /\ length'[q] = length[q],
         n # 0 => /\ next \in Held
                  /\ n <= size'[r] \/ (length'[r] < 0 /\ n = MaxBody + 1),
         k # 0 => next \in Held /\ k <= RewriteBound(n),
         CopiesAt(next, k, a)
  PROVE  CopiesInv'
<1>1. /\ body' \in [Requests -> Nat]
      /\ forwarded' \in [Requests -> Nat]
      /\ audited' \in [Requests -> Nat]
  BY DEF CopiesInv
<1>2. ASSUME NEW q \in Requests, q # r
      PROVE  CopiesOf(q)'
  <2>1. phase'[q] = phase[q] /\ pc'[q] = pc[q] /\ size'[q] = size[q] /\ length'[q] = length[q]
    BY <1>2, OthersCharged
  <2>2. body'[q] = body[q] /\ forwarded'[q] = forwarded[q] /\ audited'[q] = audited[q]
    BY <1>2 DEF CopiesInv
  <2>3. CopiesOf(q)
    BY DEF CopiesInv
  <2> QED
    BY <2>1, <2>2, <2>3, Zenon DEF CopiesOf, BodyCharged, RewriteEndsWithCharge, CopiesAt,
                                   RewriteBound
<1>3. CopiesOf(r)'
  <2>1. body'[r] = n /\ forwarded'[r] = k /\ audited'[r] = a /\ pc'[r] = next
    BY DEF CopiesInv, RequestInv, RequestTypeOK, GoTo
  <2>2. next \in Held => phase'[r] = "holding"
    BY <2>1 DEF RequestInv, BudgetInv, PhaseOf, Held
  <2>3. BodyCharged(r)'
    BY <2>1, <2>2 DEF BodyCharged
  <2>4. RewriteEndsWithCharge(r)'
    BY <2>1, <2>2 DEF RewriteEndsWithCharge, RewriteBound
  <2>5. CopiesAt(next, k, a)'
    BY DEF CopiesAt
  <2> QED
    BY <2>1, <2>3, <2>4, <2>5 DEF CopiesOf, CopiesAt
<1> QED
  BY <1>1, <1>2, <1>3 DEF CopiesInv

\* A step that leaves them alone, into a place that keeps what the last one had.
LEMMA CopiesKept ==
  ASSUME RequestInv, RequestInv', CopiesInv, NEW r \in Requests, NEW next, GoTo(r, next),
         UNCHANGED copies,
         \A q \in Requests : q # r => size'[q] = size[q] /\ length'[q] = length[q],
         \/ pc[r] \in Free \cup {"admit"}
         \/ next \in Held /\ UNCHANGED <<size, length>>,
         next \in Copied => pc[r] \in Copied,
         next \in NotCopied => pc[r] \in NotCopied,
         next = "read" => pc[r] = "admit"
  PROVE  CopiesInv'
<1>1. /\ CopiesOf(r) /\ body[r] \in Nat /\ forwarded[r] \in Nat /\ audited[r] \in Nat
      /\ body' = [body EXCEPT ![r] = body[r]]
      /\ forwarded' = [forwarded EXCEPT ![r] = forwarded[r]]
      /\ audited' = [audited EXCEPT ![r] = audited[r]]
  BY DEF CopiesInv, copies
<1>2. pc[r] \in Free \cup {"admit"} => body[r] = 0 /\ forwarded[r] = 0
  BY <1>1 DEF CopiesOf, BodyCharged, RewriteEndsWithCharge, RequestInv, BudgetInv, PhaseOf,
              Free, Held
<1>3. CopiesAt(next, forwarded[r], audited[r])
  BY <1>1, <1>2 DEF CopiesOf, CopiesAt, Copied, NotCopied
<1>4. body[r] # 0 => /\ next \in Held
                     /\ body[r] <= size'[r] \/ (length'[r] < 0 /\ body[r] = MaxBody + 1)
  BY <1>1, <1>2 DEF CopiesOf, BodyCharged
<1>5. forwarded[r] # 0 => next \in Held /\ forwarded[r] <= RewriteBound(body[r])
  BY <1>1, <1>2 DEF CopiesOf, RewriteEndsWithCharge
<1> QED
  BY <1>1, <1>3, <1>4, <1>5, CopiesTogether

LEMMA ReadCopies ==
  ASSUME RequestInv, RequestInv', CopiesInv, NEW r \in Requests, readRequestBody(r)
  PROVE  CopiesInv'
<1>1. PICK n \in BodySizes(r) :
        n <= MaxBody + 1 /\ body' = [body EXCEPT ![r] = n] /\ KeepCopy(r, n)
  BY DEF readRequestBody
<1>2. /\ pc[r] = "read" /\ GoTo(r, "resolve") /\ length[r] <= MaxBody
      /\ UNCHANGED <<budgetVars, length, forwarded>>
  BY DEF readRequestBody
<1>3. n \in Nat /\ (length[r] < 0 \/ n = length[r]) /\ length[r] \in Int
  BY <1>1, <1>2, RequestAssumption DEF BodySizes, RequestInv, RequestTypeOK
<1>4. n = 0 \/ n <= size[r] \/ (length[r] < 0 /\ n = MaxBody + 1)
  <2>1. size[r] = Bodies!chargeForBody(length[r])
    BY <1>2 DEF RequestInv, BudgetInv, PhaseOf, Held
  <2> QED
    BY <1>1, <1>2, <1>3, <2>1, RequestAssumption DEF Bodies!chargeForBody
<1>5. /\ forwarded[r] = 0 /\ audited[r] = 0
      /\ forwarded' = [forwarded EXCEPT ![r] = 0]
      /\ audited' = [audited EXCEPT ![r] = capBody(n)]
      /\ capBody(n) \in Nat /\ capBody(n) <= CaptureLimit
  <2>1. capBody(n) \in Nat /\ capBody(n) <= CaptureLimit
    BY <1>3, CopyIsCut
  <2>2. CopiesOf(r)
    BY DEF CopiesInv
  <2>3. forwarded[r] = 0 /\ audited[r] = 0
    BY <1>2, <2>2 DEF CopiesOf, CopiesAt, NotCopied
  <2> QED
    <3>1. audited' = [audited EXCEPT ![r] = audited[r] + capBody(n)]
      BY <1>1 DEF KeepCopy
    <3>2. audited[r] + capBody(n) = capBody(n)
      BY <2>1, <2>3
    <3>3. forwarded' = [forwarded EXCEPT ![r] = 0]
      BY <1>2, <2>3 DEF CopiesInv
    <3> QED
      BY <2>1, <2>3, <3>1, <3>2, <3>3
<1>6. CopiesAt("resolve", 0, capBody(n))
  BY <1>5, CaptureIsNat DEF CopiesAt, Copied, NotCopied
<1>7. n # 0 => /\ "resolve" \in Held
               /\ n <= size'[r] \/ (length'[r] < 0 /\ n = MaxBody + 1)
  BY <1>2, <1>4 DEF Held, budgetVars
<1>8. \A q \in Requests : q # r => size'[q] = size[q] /\ length'[q] = length[q]
  BY <1>2 DEF budgetVars
<1> QED
  BY <1>1, <1>2, <1>3, <1>5, <1>6, <1>7, <1>8, CopiesTogether

LEMMA TransformCopies ==
  ASSUME RequestInv, RequestInv', CopiesInv, NEW r \in Requests, pc[r] = "build",
         TransformBody(r), NEW next \in {"do", "release"}, GoTo(r, next),
         UNCHANGED <<budgetVars, length, body>>
  PROVE  CopiesInv'
<1>1. PICK k \in Nat, n \in Nat : /\ forwarded' = [forwarded EXCEPT ![r] = k]
                                  /\ KeepCopy(r, n)
                                  /\ k # 0 => k <= RewriteBound(body[r])
  <2>1. body[r] \in Nat /\ forwarded \in [Requests -> Nat] /\ forwarded[r] = 0
    BY DEF CopiesInv, CopiesOf, CopiesAt, Copied
  <2>2. CASE UNCHANGED forwarded /\ KeepCopy(r, body[r])
    <3>1. forwarded' = [forwarded EXCEPT ![r] = 0]
      BY <2>1, <2>2
    <3> QED
      BY <2>1, <2>2, <3>1
  <2>3. CASE \E n \in 1..RewriteBound(body[r]) :
               forwarded' = [forwarded EXCEPT ![r] = n] /\ KeepCopy(r, n)
    <3>1. PICK n \in 1..RewriteBound(body[r]) :
            forwarded' = [forwarded EXCEPT ![r] = n] /\ KeepCopy(r, n)
      BY <2>3
    <3>2. n \in Nat /\ n <= RewriteBound(body[r])
      BY <2>1, <3>1, RequestAssumption DEF RewriteBound
    <3> QED
      BY <3>1, <3>2
  <2> QED
    BY <2>2, <2>3 DEF TransformBody
<1>2. /\ CopiesOf(r) /\ body[r] \in Nat /\ audited[r] \in Nat
      /\ audited[r] <= CaptureLimit
      /\ body' = [body EXCEPT ![r] = body[r]]
  BY DEF CopiesInv, CopiesOf, CopiesAt, Copied
<1>3. /\ audited' = [audited EXCEPT ![r] = audited[r] + capBody(n)]
      /\ audited[r] + capBody(n) \in Nat
      /\ audited[r] + capBody(n) <= 2 * CaptureLimit
  BY <1>1, <1>2, CopyIsCut, CaptureIsNat DEF KeepCopy, CopiesInv
<1>4. CopiesAt(next, k, audited[r] + capBody(n))
  BY <1>3 DEF CopiesAt, Copied, NotCopied
<1>5. body[r] # 0 => /\ next \in Held
                     /\ body[r] <= size'[r] \/ (length'[r] < 0 /\ body[r] = MaxBody + 1)
  BY <1>2 DEF CopiesOf, BodyCharged, Held, budgetVars
<1>6. k # 0 => next \in Held /\ k <= RewriteBound(body[r])
  BY <1>1 DEF Held
<1>7. \A q \in Requests : q # r => size'[q] = size[q] /\ length'[q] = length[q]
  BY DEF budgetVars
<1> QED
  BY <1>1, <1>2, <1>3, <1>4, <1>5, <1>6, <1>7, CopiesTogether

LEMMA ReleaseCopies ==
  ASSUME RequestInv, RequestInv', CopiesInv, NEW r \in Requests, release(r)
  PROVE  CopiesInv'
<1>1. /\ GoTo(r, "audit")
      /\ body' = [body EXCEPT ![r] = 0] /\ forwarded' = [forwarded EXCEPT ![r] = 0]
      /\ UNCHANGED <<size, length, audited>>
  BY DEF release, Bodies!GiveBack
<1>2. /\ audited[r] \in Nat /\ audited' = [audited EXCEPT ![r] = audited[r]]
      /\ CopiesAt("audit", 0, audited[r])
  BY <1>1 DEF CopiesInv, CopiesOf, CopiesAt, Copied, NotCopied
<1> QED
  BY <1>1, <1>2, CopiesTogether

LEMMA FinalizeCopies ==
  ASSUME RequestInv, RequestInv', CopiesInv, NEW r \in Requests, finalizeLog(r)
  PROVE  CopiesInv'
<1> DEFINE next == IF panicked[r] THEN "recover" ELSE "idle"
<1>1. /\ GoTo(r, next) /\ pc[r] = "audit" /\ UNCHANGED <<budgetVars, length, body, forwarded>>
      /\ audited' = [audited EXCEPT ![r] = 0]
  BY DEF finalizeLog
<1>2. /\ body[r] = 0 /\ forwarded[r] = 0
      /\ body' = [body EXCEPT ![r] = 0] /\ forwarded' = [forwarded EXCEPT ![r] = 0]
  BY <1>1 DEF CopiesInv, CopiesOf, BodyCharged, RewriteEndsWithCharge, RequestInv, BudgetInv,
              PhaseOf, Held
<1>3. CopiesAt(next, 0, 0)
  BY CaptureIsNat DEF CopiesAt
<1>4. \A q \in Requests : q # r => size'[q] = size[q] /\ length'[q] = length[q]
  BY <1>1 DEF budgetVars
<1> HIDE DEF next
<1> QED
  BY <1>1, <1>2, <1>3, <1>4, CopiesTogether

LEMMA StepCopies ==
  ASSUME RequestInv, RequestInv', CopiesInv, [RequestNext]_requestVars
  PROVE  CopiesInv'
<1>1. ASSUME UNCHANGED <<phase, size, pc, length, copies>>
      PROVE  CopiesInv'
  BY <1>1, Zenon DEF CopiesInv, CopiesOf, BodyCharged, RewriteEndsWithCharge, CopiesAt,
                     RewriteBound, copies
<1>2. CASE UNCHANGED requestVars
  BY <1>1, <1>2 DEF requestVars, budgetVars, handlerVars
<1>3. ASSUME NEW r \in Requests, Arrive(r)
      PROVE  CopiesInv'
  <2>1. /\ pc[r] = "idle" /\ GoTo(r, "admit") /\ UNCHANGED copies
        /\ \A q \in Requests : q # r => size'[q] = size[q] /\ length'[q] = length[q]
    BY <1>3 DEF Arrive, Bodies!Ask, RequestInv, RequestTypeOK
  <2> QED
    BY <2>1, CopiesKept DEF Free, Copied, NotCopied
<1>4. ASSUME NEW r \in Requests, Overdue(r)
      PROVE  CopiesInv'
  BY <1>1, <1>4 DEF Overdue, Bodies!BecomeOverdue, handlerVars
<1>5. ASSUME NEW r \in Requests, Admit(r)
      PROVE  CopiesInv'
  BY <1>5, CopiesKept DEF Admit, Bodies!Grant, handlerVars, Free, Copied, NotCopied
<1>6. ASSUME NEW r \in Requests, RefuseAdmission(r)
      PROVE  CopiesInv'
  BY <1>6, CopiesKept DEF RefuseAdmission, Bodies!Refuse, Reject, Free, Copied, NotCopied
\* The handler goes on with what it has: one of the places between read and release.
<1>7. ASSUME NEW r \in Requests, NEW next \in Held \ {"read"}, GoTo(r, next),
             pc[r] \in Held, UNCHANGED <<budgetVars, length, copies>>,
             next \in Copied => pc[r] \in Copied
      PROVE  CopiesInv'
  BY <1>7, CopiesKept DEF Held, NotCopied, Copied, budgetVars
<1>8. ASSUME NEW r \in Requests, BoundedStep(r)
      PROVE  CopiesInv'
  <2>1. CASE readRequestBodyRejects(r)
    BY <1>7, <2>1 DEF readRequestBodyRejects, Reject, Held, Copied
  <2>2. CASE resolveGateway(r)
    BY <1>7, <2>2 DEF resolveGateway, Reject, Panic, handlerVars, Held, Copied
  <2>3. CASE buildUpstreamRequest(r)
    <3>1. CASE \E status \in {503, 502, 400} : Reject(r, status, "release")
                                                 /\ UNCHANGED <<budgetVars, copies>>
      BY <1>7, <2>3, <3>1 DEF buildUpstreamRequest, Reject, Held, Copied
    <3>2. CASE Panic(r)
      BY <1>7, <2>3, <3>2 DEF buildUpstreamRequest, Panic, Held, Copied
    <3>3. CASE /\ TransformBody(r) /\ UNCHANGED <<budgetVars, body>>
               /\ \/ Reject(r, 502, "release")
                  \/ GoTo(r, "do") /\ UNCHANGED length
      <4>1. pc[r] = "build" /\ UNCHANGED <<budgetVars, length, body>>
        BY <2>3, <3>3 DEF buildUpstreamRequest, Reject
      <4>2. PICK next \in {"do", "release"} : GoTo(r, next)
        BY <3>3 DEF Reject
      <4> QED
        BY <3>3, <4>1, <4>2, TransformCopies
    <3> QED
      BY <2>3, <3>1, <3>2, <3>3, Zenon DEF buildUpstreamRequest
  <2>4. CASE upstreamFails(r)
    BY <1>7, <2>4 DEF upstreamFails, Reject, Held, Copied
  <2>5. CASE upstreamAnswers(r)
    BY <1>7, <2>5 DEF upstreamAnswers, Held, Copied
  <2>6. CASE recoverPanic(r)
    BY <2>6, CopiesKept DEF recoverPanic, Free, Copied, NotCopied, budgetVars
  <2> QED
    BY <1>5, <1>6, <1>8, <2>1, <2>2, <2>3, <2>4, <2>5, <2>6, ReadCopies, ReleaseCopies,
       FinalizeCopies DEF BoundedStep
<1>9. ASSUME NEW r \in Requests, ReadStep(r)
      PROVE  CopiesInv'
  BY <1>7, <1>9 DEF ReadStep, relayUpstreamError, copyResponse, copyPanics, Panic, Held, Copied
<1> QED
  BY <1>2, <1>3, <1>4, <1>8, <1>9 DEF RequestNext

LEMMA CopiesInvariant == RequestSafety => []CopiesInv
<1>1. ASSUME RequestInit
      PROVE  CopiesInv
  <2>1. \A r \in Requests : body[r] = 0 /\ forwarded[r] = 0 /\ audited[r] = 0
    BY <1>1 DEF RequestInit
  <2>2. \A r \in Requests : CopiesAt(pc[r], 0, 0)
    BY CaptureIsNat DEF CopiesAt
  <2>3. \A r \in Requests : CopiesOf(r)
    BY <2>1, <2>2 DEF CopiesOf, BodyCharged, RewriteEndsWithCharge
  <2> QED
    BY <1>1, <2>3 DEF RequestInit, CopiesInv
<1>2. RequestInv /\ RequestInv' /\ CopiesInv /\ [RequestNext]_requestVars => CopiesInv'
  BY StepCopies
<1> QED
  BY <1>1, <1>2, RequestInvariant, PTL DEF RequestSafety

(***************************************************************************)
(* For any number of handlers, any budget and any capture limit: each      *)
(* handler holds its charge in exactly the places between admission and    *)
(* the deferred release, what is free and what is held add up to the       *)
(* budget, and the body read is covered, but for the one unit over of a    *)
(* chunked body. A rewritten body, charged to nobody, is bounded by the    *)
(* body and ends with the charge; the row's copies, charged to nobody      *)
(* either, end with the row (proxy.go:60-119, 156-165, 230-242).           *)
(***************************************************************************)
THEOREM BodiesAreCharged == RequestSpec => []ChargeCoversBody
<1>1. RequestInv /\ CopiesInv => ChargeCoversBody
  <2> SUFFICES ASSUME RequestInv, CopiesInv PROVE ChargeCoversBody
    OBVIOUS
  <2>1. \A r \in Requests : CopiesEndWithRow(r)
    BY DEF CopiesInv, CopiesOf, CopiesAt, NotCopied, CopiesEndWithRow
  <2>2. \A r \in Requests : BodyCharged(r) /\ RewriteEndsWithCharge(r)
    BY DEF CopiesInv, CopiesOf
  <2> QED
    BY <2>1, <2>2 DEF RequestInv, BudgetInv, ChargeCoversBody, PhaseOf, Held, Working
<1> QED
  BY <1>1, RequestInvariant, CopiesInvariant, PTL DEF RequestSpec

-------------------------------------------------------------------------------
(***************************************************************************)
(* A walk through the rows.                                                *)
(***************************************************************************)
Selected == Select(call.f, rows)
Place(r, T) == Cardinality(Newer(r, T))

Behind == call.op = "walk" =>
            \A r \in Select(call.f, rows \ call.new) :
              r \in call.seen \/ Place(r, Selected) >= call.loaded

\* The times of the rows of a set are distinct.
Distinct(T) == \A r, x \in T : r.started = x.started => r = x

(***************************************************************************)
(* Rows with distinct times are finitely many, however large the table may *)
(* grow.                                                                   *)
(***************************************************************************)
LEMMA RowsFinite ==
  ASSUME NEW T \in SUBSET Rows, Distinct(T)
  PROVE  IsFiniteSet(T)
<1> DEFINE time == [r \in T |-> r.started]
<1>1. MaxTime \in Nat
  BY ConstantsAssumption
<1>2. time \in Injection(T, Times)
  BY DEF Injection, IsInjective, Rows, Distinct
<1>3. IsFiniteSet(Times)
  BY <1>1, FS_Interval DEF Times
<1> QED
  BY <1>2, <1>3, FS_Injection

(***************************************************************************)
(* Places in the list are natural numbers, and different for different     *)
(* rows.                                                                   *)
(***************************************************************************)
LEMMA PlaceNat ==
  ASSUME NEW T, IsFiniteSet(T), NEW r
  PROVE  Place(r, T) \in Nat /\ IsFiniteSet(Newer(r, T))
<1>1. Newer(r, T) \in SUBSET T
  BY DEF Newer
<1> QED
  BY <1>1, FS_Subset, FS_CardinalityType DEF Place

LEMMA PlaceBelow ==
  ASSUME NEW T \in SUBSET Rows, IsFiniteSet(T), NEW r \in T, NEW x \in T,
         x.started > r.started
  PROVE  Place(x, T) < Place(r, T)
<1>1. MaxTime \in Nat
  BY ConstantsAssumption
<1>2. \A y \in T : y.started \in Int
  BY <1>1 DEF Rows, Times
<1>3. x \in Newer(r, T)
  BY DEF Newer
<1>4. Newer(x, T) \in SUBSET (Newer(r, T) \ {x})
  BY <1>2 DEF Newer
<1>5. /\ IsFiniteSet(Newer(r, T) \ {x})
      /\ Cardinality(Newer(r, T) \ {x}) = Place(r, T) - 1
  BY <1>3, PlaceNat, FS_RemoveElement DEF Place
<1>6. Cardinality(Newer(x, T)) <= Cardinality(Newer(r, T) \ {x})
  BY <1>4, <1>5, FS_Subset
<1> QED
  BY <1>5, <1>6, PlaceNat DEF Place

LEMMA PlacesDiffer ==
  ASSUME NEW T \in SUBSET Rows, IsFiniteSet(T), Distinct(T),
         NEW r \in T, NEW x \in T, Place(r, T) = Place(x, T)
  PROVE  r = x
<1>1. MaxTime \in Nat
  BY ConstantsAssumption
<1>2. r.started \in Int /\ x.started \in Int
  BY <1>1 DEF Rows, Times
<1>3. Place(r, T) \in Nat
  BY PlaceNat
<1>4. ~(x.started > r.started)
  BY <1>3, PlaceBelow
<1>5. ~(r.started > x.started)
  BY <1>3, PlaceBelow
<1> QED
  BY <1>2, <1>4, <1>5 DEF Distinct

(***************************************************************************)
(* A page holds no more rows than its limit.                               *)
(***************************************************************************)
LEMMA PageBound ==
  ASSUME NEW S \in SUBSET Rows, Distinct(S), NEW f, NEW limit \in Nat,
         NEW offset \in Nat
  PROVE  /\ Cardinality(Page(f, S, limit, offset)) \in Nat
         /\ Cardinality(Page(f, S, limit, offset)) <= limit
<1> DEFINE T == Select(f, S)
           P == Page(f, S, limit, offset)
           place == [r \in P |-> Place(r, T)]
<1>1. T \in SUBSET Rows /\ Distinct(T) /\ IsFiniteSet(T)
  <2>1. T \in SUBSET Rows /\ Distinct(T)
    BY DEF Select, Distinct
  <2> QED
    BY <2>1, RowsFinite
<1>2. P = {r \in T : Place(r, T) \in offset..offset + limit - 1}
  BY DEF Page, Place
<1>3. place \in Injection(P, offset..offset + limit - 1)
  <2> HIDE DEF T, P
  <2>1. \A r, x \in P : Place(r, T) = Place(x, T) => r = x
    BY <1>1, <1>2, PlacesDiffer
  <2>2. place \in [P -> offset..offset + limit - 1]
    BY <1>2
  <2> QED
    BY <2>1, <2>2 DEF Injection, IsInjective
<1>4. /\ IsFiniteSet(offset..offset + limit - 1)
      /\ Cardinality(offset..offset + limit - 1) = limit
  BY FS_Interval
<1>5. IsFiniteSet(P) /\ Cardinality(P) <= limit
  <2> HIDE DEF P, T, place
  <2> QED
    BY <1>3, <1>4, FS_Injection
<1> QED
  BY <1>5, FS_CardinalityType
-------------------------------------------------------------------------------
(***************************************************************************)
(* The type invariant (storage.go:162-185, 263-286, 400-415,               *)
(* storage_timeseries.go:33-73).                                           *)
(***************************************************************************)
LEMMA LimitType == ASSUME NEW asked \in Limits
                   PROVE  Limit(asked) \in 1..MaxLimit
<1>1. /\ Limits \subseteq Nat /\ MaxLimit \in Nat /\ DefaultLimit \in 1..MaxLimit
  BY ConstantsAssumption
<1>2. asked <= MaxLimit => Min({asked, MaxLimit}) = asked
  BY <1>1 DEF Min
<1>3. ~(asked <= MaxLimit) => Min({asked, MaxLimit}) = MaxLimit
  BY <1>1 DEF Min
<1> QED
  BY <1>1, <1>2, <1>3 DEF Limit

LEMMA BucketsType == ASSUME NEW asked \in Limits
                     PROVE  Buckets(asked) \in 1..MaxBuckets
<1>1. /\ Limits \subseteq Nat /\ MaxBuckets \in Nat
      /\ DefaultBuckets \in 1..MaxBuckets
  BY ConstantsAssumption
<1>2. asked <= MaxBuckets => Min({asked, MaxBuckets}) = asked
  BY <1>1 DEF Min
<1>3. ~(asked <= MaxBuckets) => Min({asked, MaxBuckets}) = MaxBuckets
  BY <1>1 DEF Min
<1> QED
  BY <1>1, <1>2, <1>3 DEF Buckets

LEMMA LeastNat == ASSUME NEW S \in SUBSET Nat, S # {}
                  PROVE  Min(S) \in S /\ \A y \in S : Min(S) <= y
  BY LeastExists DEF Min

LEMMA TypeInit == Init => TypeOK
<1> SUFFICES ASSUME Init PROVE TypeOK
  OBVIOUS
<1>1. PICK T \in SUBSET (0..now) :
        \E k \in [T -> Kinds] : rows = {[started |-> t, kind |-> k[t]] : t \in T}
  BY DEF Init, kSubset
<1>2. now \in Times /\ call = Idle /\ MaxTime \in Nat
  BY ConstantsAssumption DEF Init
<1>3. PICK k \in [T -> Kinds] : rows = {[started |-> t, kind |-> k[t]] : t \in T}
  BY <1>1
<1>4. 0..now \subseteq Times
  BY <1>2 DEF Times
<1>5. rows \subseteq Rows /\ \A r \in rows : r.started <= now
  BY <1>1, <1>3, <1>4 DEF Rows, Times
<1>6. \A r, x \in rows : r.started = x.started => r = x
  BY <1>1
<1> QED
  BY <1>2, <1>5, <1>6 DEF TypeOK, Idle

LEMMA TypeDelete ==
  ASSUME TypeOK, NEW before, Delete(before)
  PROVE  TypeOK'
<1>1. rows' \subseteq rows /\ now' = now
  BY DEF Delete
<1>2. call'.new \subseteq rows' /\ call' \in Walks \cup Totals \cup Charts \cup {Idle}
  <2>1. call \in Walks => call' \in Walks /\ call'.new \subseteq rows'
    BY DEF Delete, Walks, TypeOK
  <2>2. call \in Totals => call' \in Totals /\ call'.new \subseteq rows'
    BY DEF Delete, Totals, TypeOK
  <2>3. call \in Charts => call' \in Charts /\ call'.new \subseteq rows'
    BY DEF Delete, Charts, TypeOK
  <2>4. call = Idle => call' = Idle /\ call'.new \subseteq rows'
    <3>1. SUFFICES ASSUME call = Idle PROVE call' = Idle
      BY DEF Idle
    <3>2. call' = [call EXCEPT !.new = @ \cap rows', !.cut = @]
      BY <3>1 DEF Delete
    <3>3. call.new \cap rows' = call.new
      BY <3>1 DEF Idle
    <3>4. call' = [call EXCEPT !.new = @, !.cut = @]
      BY <3>2, <3>3
    <3> QED
      BY <3>1, <3>4 DEF Idle
  <2> QED
    BY <2>1, <2>2, <2>3, <2>4 DEF TypeOK
<1> QED
  BY <1>1, <1>2 DEF TypeOK

LEMMA TypeInsert ==
  ASSUME TypeOK, NEW r \in Rows, Insert(r)
  PROVE  TypeOK'
<1>1. /\ rows' = rows \cup {r} /\ now' = now
      /\ \A x \in rows : x.started # r.started
      /\ r.started <= now
      /\ call' = [call EXCEPT !.new = IF call = Idle THEN {} ELSE @ \cup {r}]
  BY DEF Insert
<1>2. call'.new \subseteq rows' /\ call' \in Walks \cup Totals \cup Charts \cup {Idle}
  <2>1. call \in Walks => call' \in Walks /\ call'.new \subseteq rows'
    BY <1>1 DEF Walks, TypeOK
  <2>2. call \in Totals => call' \in Totals /\ call'.new \subseteq rows'
    BY <1>1 DEF Totals, TypeOK
  <2>3. call \in Charts => call' \in Charts /\ call'.new \subseteq rows'
    BY <1>1 DEF Charts, TypeOK
  <2>4. call = Idle => call' = Idle /\ call'.new \subseteq rows'
    BY SMTT(30), <1>1 DEF Idle
  <2> QED
    BY <2>1, <2>2, <2>3, <2>4 DEF TypeOK
<1> QED
  BY <1>1, <1>2 DEF TypeOK

LEMMA TypeCall ==
  ASSUME TypeOK,
         \/ Ask \/ ListPage \/ CountRows \/ GroupMetrics \/ EarliestRow
         \/ GroupTimeSeries
  PROVE  /\ TypeOK'
         /\ rows' = rows
<1>1. CASE ListPage
  <2>1. call \in Walks /\ rows' = rows /\ now' = now
    BY <1>1 DEF ListPage, TypeOK, Totals, Charts, Idle
  <2>2. call.loaded \in Nat /\ call.limit \in Nat /\ call.seen \subseteq Rows
    BY <2>1, ConstantsAssumption DEF Walks
  <2> DEFINE items == Page(call.f, rows, call.limit, call.loaded)
  <2>3. Cardinality(items) \in Nat
    BY <2>2, PageBound DEF TypeOK, Distinct
  <2>4. items \subseteq Rows
    BY DEF Page, Select, TypeOK
  <2>5. call' = [call EXCEPT !.stage = "count", !.seen = @ \cup items,
                             !.loaded = @ + Cardinality(items)]
    BY <1>1 DEF ListPage
  <2>6. call' \in Walks /\ call'.new = call.new
    <3> HIDE DEF items
    <3>1. call.loaded + Cardinality(items) \in Nat
      BY <2>2, <2>3
    <3>2. call.seen \cup items \in SUBSET Rows
      BY <2>2, <2>4
    <3> QED
      BY <2>1, <2>5, <3>1, <3>2 DEF Walks
  <2> QED
    BY <2>1, <2>6 DEF TypeOK
<1>2. CASE CountRows
  <2>1. call \in Walks /\ rows' = rows /\ now' = now
    BY <1>2 DEF CountRows, TypeOK, Totals, Charts, Idle
  <2>2. call' = [call EXCEPT !.stage = "list"] \/ call' = Idle
    BY <1>2 DEF CountRows
  <2> QED
    BY <2>1, <2>2 DEF TypeOK, Walks, Idle
<1>3. CASE GroupMetrics \/ GroupTimeSeries
  BY <1>3 DEF GroupMetrics, GroupTimeSeries, TypeOK, Idle
<1>4. CASE EarliestRow
  <2>1. call \in Charts /\ rows' = rows /\ now' = now
    BY <1>4 DEF EarliestRow, TypeOK, Totals, Walks, Idle
  <2> DEFINE times == {call.to} \cup {r.started : r \in rows}
  <2>2. call' = [call EXCEPT !.from = Min(times)]
    BY <1>4 DEF EarliestRow
  <2>3. Min(times) \in Nat
    <3>1. MaxTime \in Nat /\ call.to \in Nat
      BY <2>1, ConstantsAssumption DEF Charts
    <3>2. times \subseteq Nat /\ times # {}
      BY <3>1 DEF TypeOK, Rows, Times
    <3> HIDE DEF times
    <3> QED
      BY <3>2, LeastNat
  <2>4. call' \in Charts /\ call'.new = call.new
    <3> HIDE DEF times
    <3> QED
      BY <2>1, <2>2, <2>3 DEF Charts
  <2> QED
    BY <2>1, <2>4 DEF TypeOK
<1>5. CASE Ask
  <2>0. /\ rows' = rows /\ now' = now /\ call = Idle
    BY <1>5 DEF Ask, AskMetrics, AskLogs, AskPulse, AskTimeSeries
  <2>1. ASSUME NEW f \in Filters, AskMetrics(f)
        PROVE  call' \in Totals \cup {Idle} /\ call'.new = {}
    <3>1. \/ call' = Idle
          \/ call' = [op |-> "metrics", f |-> f, total |-> Aggregate(Select(f, rows)),
                      new |-> {}, cut |-> FALSE]
      BY <2>0, <2>1 DEF AskMetrics
    <3>2. Select(f, rows) \subseteq Rows
      BY DEF Select, TypeOK
    <3> DEFINE total == Aggregate(Select(f, rows))
    <3>3. total \in Sums
      BY <3>2 DEF Sums
    <3>4. \/ call' = Idle
          \/ call' = [op |-> "metrics", f |-> f, total |-> total,
                      new |-> {}, cut |-> FALSE]
      BY <3>1
    <3> HIDE DEF total
    <3>5. CASE call' = Idle
      BY <3>5 DEF Idle
    <3>6. CASE call' = [op |-> "metrics", f |-> f, total |-> total,
                        new |-> {}, cut |-> FALSE]
      BY <3>3, <3>6 DEF Totals
    <3> QED
      BY <3>4, <3>5, <3>6
  <2>2. ASSUME NEW f \in Filters, NEW asked \in Limits, AskLogs(f, asked)
        PROVE  call' \in Walks /\ call'.new = {}
    BY <2>2, LimitType DEF AskLogs, Walks
  <2>3. ASSUME NEW f \in Filters, NEW asked \in Limits, AskPulse(f, asked)
        PROVE  call' = Idle
    BY <2>0, <2>3 DEF AskPulse
  <2>4. ASSUME NEW f \in Filters, NEW asked \in Limits, AskTimeSeries(f, asked)
        PROVE  call' \in Charts /\ call'.new = {}
    <3> DEFINE last == IF f.to # Never /\ f.to < now THEN f.to ELSE now
               to == NextSecond(last)
               from == IF f.from = Never THEN Never ELSE Min({f.from, to})
    <3>1. /\ MaxTime \in Nat /\ PerSecond \in Nat \ {0}
          /\ f.from \in Times \cup {Never} /\ f.to \in Times \cup {Never}
      BY ConstantsAssumption
    <3>2. last \in Nat
      BY <3>1 DEF TypeOK, Times
    <3>3. to \in Nat
      <4> HIDE DEF last
      <4>1. (last + PerSecond - 1) \div PerSecond \in Nat
        BY <3>1, <3>2
      <4> QED
        BY <3>1, <4>1 DEF NextSecond
    <3>4. from \in Nat \cup {Never}
      <4> HIDE DEF to
      <4>1. CASE f.from # Never
        <5>1. {f.from, to} \in SUBSET Nat /\ {f.from, to} # {}
          BY <3>1, <3>3, <4>1 DEF Times
        <5> QED
          BY <5>1, LeastNat, <4>1
      <4> QED
        BY <4>1
    <3>5. call' = [op |-> "series", f |-> f, n |-> Buckets(asked), to |-> to,
                   from |-> from, new |-> {}, cut |-> FALSE]
      BY <2>4 DEF AskTimeSeries
    <3> HIDE DEF to, from
    <3> QED
      BY <3>3, <3>4, <3>5, BucketsType DEF Charts
  <2>5. call' \in Walks \cup Totals \cup Charts \cup {Idle} /\ call'.new = {}
    BY <1>5, <2>1, <2>2, <2>3, <2>4 DEF Ask, Idle
  <2> QED
    BY <2>0, <2>5 DEF TypeOK
<1> QED
  BY <1>1, <1>2, <1>3, <1>4, <1>5

(***************************************************************************)
(* For every table, retention and bound: rows keep distinct times not      *)
(* later than now, and a call in progress is one that was asked, with      *)
(* what it has counted (storage.go:187-220, storage_timeseries.go:44-69).  *)
(***************************************************************************)
THEOREM LogTypes == Spec => []TypeOK
<1>1. Init => TypeOK
  BY TypeInit
<1>2. TypeOK /\ [Next]_vars => TypeOK'
  <2> SUFFICES ASSUME TypeOK, [Next]_vars PROVE TypeOK'
    OBVIOUS
  <2>1. CASE Tick
    <3>1. /\ rows' = rows /\ call' = call /\ now' = now + 1
          /\ now < MaxTime /\ MaxTime \in Nat
      BY <2>1, ConstantsAssumption DEF Tick
    <3>2. \A r \in rows : r.started \in Int /\ r.started <= now
      BY DEF TypeOK, Rows, Times
    <3>3. now' \in Times /\ \A r \in rows : r.started <= now'
      BY <3>1, <3>2 DEF TypeOK, Times
    <3> QED
      BY <3>1, <3>3 DEF TypeOK
  <2>2. ASSUME NEW r \in Rows, Insert(r) PROVE TypeOK'
    BY <2>2, TypeInsert
  <2>3. CASE PruneOlderThan
    BY <2>3, TypeDelete DEF PruneOlderThan
  <2>4. CASE deleteLogs
    BY <2>4, TypeDelete DEF deleteLogs
  <2>5. CASE Ask \/ ListPage \/ CountRows \/ GroupMetrics \/ EarliestRow
             \/ GroupTimeSeries
    BY <2>5, TypeCall
  <2>6. CASE UNCHANGED vars
    BY <2>6 DEF vars, TypeOK
  <2> QED
    BY <2>1, <2>2, <2>3, <2>4, <2>5, <2>6 DEF Next
<1> QED
  BY <1>1, <1>2, PTL DEF Spec
-------------------------------------------------------------------------------
(***************************************************************************)
(* What has not been shown stays behind the offset: one lemma for each way *)
(* in which rows or the walk change.                                       *)
(***************************************************************************)
Inv == TypeOK /\ Behind

LEMMA SelectedIsTable ==
  ASSUME TypeOK
  PROVE  /\ Selected \in SUBSET Rows
         /\ Distinct(Selected)
         /\ IsFiniteSet(Selected)
<1>1. Selected \in SUBSET Rows /\ Distinct(Selected)
  BY DEF Selected, Select, TypeOK, Distinct
<1> QED
  BY <1>1, RowsFinite

\* Every row that is newer than one that was spared was spared too.
LEMMA BehindDelete ==
  ASSUME Inv, NEW before \in Int, Delete(before)
  PROVE  Behind'
<1>1. SUFFICES ASSUME call'.op = "walk",
                      NEW r \in Select(call'.f, rows' \ call'.new),
                      r \notin call'.seen
               PROVE  Place(r, Selected') >= call'.loaded
  BY DEF Behind
<1>2. call \in Walks
  BY <1>1 DEF Inv, TypeOK, Totals, Charts, Idle, Delete
<1>3. /\ call'.f = call.f /\ call'.seen = call.seen
      /\ call'.loaded = call.loaded /\ call'.new = call.new \cap rows'
  BY <1>2 DEF Delete, Walks
<1>4. rows' = {x \in rows : before # Never /\ x.started >= before}
  BY DEF Delete
<1>5. r \in Select(call.f, rows \ call.new) /\ r.started >= before
      /\ before # Never
  BY <1>3, <1>4, <1>1 DEF Select
<1>6. Newer(r, Selected') = Newer(r, Selected)
  <2>1. \A x \in rows : x.started \in Int
    BY ConstantsAssumption DEF Inv, TypeOK, Rows, Times
  <2>2. r \in rows
    BY <1>5 DEF Select
  <2>3. \A x \in rows : x.started > r.started => x.started >= before
    BY <2>1, <2>2, <1>5
  <2> QED
    BY <1>3, <1>4, <1>5, <2>3 DEF Newer, Selected, Select
<1>7. Place(r, Selected) >= call.loaded
  BY <1>1, <1>2, <1>3, <1>5 DEF Inv, Behind, Walks
<1> QED
  BY <1>3, <1>6, <1>7 DEF Place

\* A new row can only add to the newer ones.
LEMMA BehindInsert ==
  ASSUME Inv, NEW x \in Rows, Insert(x)
  PROVE  Behind'
<1>1. SUFFICES ASSUME call'.op = "walk",
                      NEW r \in Select(call'.f, rows' \ call'.new),
                      r \notin call'.seen
               PROVE  Place(r, Selected') >= call'.loaded
  BY DEF Behind
<1>2. call \in Walks /\ call # Idle
  BY <1>1 DEF Inv, TypeOK, Totals, Charts, Walks, Idle, Insert
<1>3. /\ call'.f = call.f /\ call'.seen = call.seen
      /\ call'.loaded = call.loaded /\ call'.new = call.new \cup {x}
      /\ call.loaded \in Nat
  BY <1>2 DEF Insert, Walks
<1>4. rows' = rows \cup {x}
  BY DEF Insert
<1>5. r \in Select(call.f, rows \ call.new)
  BY <1>3, <1>4, <1>1 DEF Select
<1>6. Newer(r, Selected) \in SUBSET Newer(r, Selected')
  BY <1>3, <1>4 DEF Newer, Selected, Select
<1>7. TypeOK'
  BY TypeInsert DEF Inv
<1>8. IsFiniteSet(Selected')
  <2>1. Selected' \in SUBSET Rows /\ Distinct(Selected')
    BY <1>7 DEF Selected, Select, TypeOK, Distinct
  <2> QED
    BY <2>1, RowsFinite
<1>9. IsFiniteSet(Newer(r, Selected'))
  BY <1>8, PlaceNat
<1>10. Place(r, Selected) <= Place(r, Selected')
  BY <1>6, <1>9, FS_Subset DEF Place
<1>11. Place(r, Selected) >= call.loaded
  BY <1>1, <1>2, <1>3, <1>5 DEF Inv, Behind, Walks
<1>12. Place(r, Selected) \in Nat /\ Place(r, Selected') \in Nat
  BY <1>8, PlaceNat, SelectedIsTable DEF Inv
<1> QED
  BY <1>3, <1>10, <1>11, <1>12

\* A page shows the rows at the places it skips.
LEMMA BehindList ==
  ASSUME Inv, ListPage
  PROVE  Behind'
<1> DEFINE items == Page(call.f, rows, call.limit, call.loaded)
<1>1. /\ call \in Walks /\ rows' = rows
      /\ call' = [call EXCEPT !.stage = "count", !.seen = @ \cup items,
                              !.loaded = @ + Cardinality(items)]
  BY DEF ListPage, Inv, TypeOK, Totals, Charts, Idle
<1>2. call.loaded \in Nat /\ call.limit \in Nat
  BY <1>1, ConstantsAssumption DEF Walks
<1>3. Cardinality(items) \in Nat /\ Cardinality(items) <= call.limit
  BY <1>2, PageBound DEF Inv, TypeOK, Distinct
<1>4. /\ call'.f = call.f /\ call'.new = call.new
      /\ call'.seen = call.seen \cup items
      /\ call'.loaded = call.loaded + Cardinality(items)
  <2> HIDE DEF items
  <2> QED
    BY <1>1 DEF Walks
<1>5. items = {r \in Selected :
                 Place(r, Selected) \in call.loaded..call.loaded + call.limit - 1}
  BY DEF Page, Place, Selected
<1>6. Selected' = Selected
  BY <1>1, <1>4 DEF Selected
<1>7. SUFFICES ASSUME NEW r \in Select(call.f, rows \ call.new),
                      r \notin call.seen, r \notin items
               PROVE  Place(r, Selected) >= call.loaded + Cardinality(items)
  <2> HIDE DEF items
  <2> QED
    BY <1>1, <1>4, <1>6 DEF Behind
<1> HIDE DEF items
<1>8. Place(r, Selected) >= call.loaded
  BY <1>1, <1>7 DEF Inv, Behind, Walks
<1>9. r \in Selected /\ Place(r, Selected) \in Nat
  <2>1. r \in Selected
    BY <1>7 DEF Selected, Select
  <2> QED
    BY <2>1, PlaceNat, SelectedIsTable DEF Inv
<1>10. Place(r, Selected) >= call.loaded + call.limit
  BY <1>2, <1>5, <1>7, <1>8, <1>9
<1> QED
  BY <1>2, <1>3, <1>9, <1>10

\* When as many rows have been loaded as there are, none is left behind.
LEMMA CountTells ==
  ASSUME Inv, CountRows
  PROVE  WalkMissesNothing' /\ Behind'
<1> DEFINE total == Cardinality(Selected)
<1>1. /\ call \in Walks /\ rows' = rows
      /\ answer' = [op |-> "logs", call |-> call, more |-> call.loaded < total]
      /\ call' = [call EXCEPT !.stage = "list"] \/ call' = Idle
  BY DEF CountRows, Inv, TypeOK, Totals, Charts, Idle, Selected
<1>2. IsFiniteSet(Selected) /\ total \in Nat /\ call.loaded \in Nat
  BY <1>1, SelectedIsTable, FS_CardinalityType DEF Inv, Walks
<1>3. ASSUME ~(call.loaded < total), NEW r \in Select(call.f, rows \ call.new),
             r \notin call.seen
      PROVE  FALSE
  <2>1. r \in Selected
    BY DEF Selected, Select
  <2>2. Newer(r, Selected) \in SUBSET (Selected \ {r})
    BY <2>1, ConstantsAssumption DEF Newer, Selected, Select, Inv, TypeOK, Rows, Times
  <2>3. IsFiniteSet(Selected \ {r}) /\ Cardinality(Selected \ {r}) = total - 1
    BY <1>2, <2>1, FS_RemoveElement
  <2>4. Place(r, Selected) <= total - 1
    BY <2>2, <2>3, FS_Subset DEF Place
  <2>5. Place(r, Selected) >= call.loaded
    BY <1>1, <1>3 DEF Inv, Behind, Walks
  <2>6. Place(r, Selected) \in Nat
    BY <1>2, PlaceNat
  <2> QED
    BY <1>2, <1>3, <2>4, <2>5, <2>6
<1>4. WalkMissesNothing'
  <2>1. /\ answer'.call = call /\ answer'.more = (call.loaded < total)
    BY <1>1
  <2>2. Select(call.f, rows \ call.new) = {r \in rows \ call.new : Matches(call.f, r)}
    BY DEF Select
  <2>3. call.loaded < total \/ Select(call.f, rows \ call.new) \subseteq call.seen
    BY <1>3
  <2> HIDE DEF total
  <2> QED
    BY <1>1, <2>1, <2>3 DEF WalkMissesNothing
<1>5. Behind'
  <2>1. CASE call' = Idle
    BY <2>1 DEF Behind, Idle
  <2>2. CASE call' = [call EXCEPT !.stage = "list"]
    BY <1>1, <2>2 DEF Inv, Behind, Walks, Selected
  <2> QED
    BY <1>1, <2>1, <2>2
<1> QED
  BY <1>4, <1>5

\* Every other call begins a walk with nothing loaded, or is none.
LEMMA BehindCall ==
  ASSUME Inv, Ask \/ GroupMetrics \/ EarliestRow \/ GroupTimeSeries
  PROVE  Behind' /\ WalkMissesNothing'
<1>1. CASE Ask
  <2>1. TypeOK'
    BY <1>1, TypeCall DEF Inv
  <2>2. call'.op = "walk" => call'.loaded = 0
    BY <1>1 DEF Ask, AskMetrics, AskLogs, AskPulse, AskTimeSeries, Idle
  <2>3. ASSUME NEW r PROVE Place(r, Selected') \in Nat
    <3>1. Selected' \in SUBSET Rows /\ Distinct(Selected')
      BY <2>1 DEF Selected, Select, TypeOK, Distinct
    <3> QED
      BY <3>1, RowsFinite, PlaceNat
  <2>4. Behind'
    BY <2>2, <2>3 DEF Behind
  <2>5. answer'.op # "logs"
    BY <1>1 DEF Ask, AskMetrics, AskLogs, AskPulse, AskTimeSeries, None
  <2> QED
    BY <2>4, <2>5 DEF WalkMissesNothing
<1>2. CASE GroupMetrics \/ GroupTimeSeries
  BY <1>2 DEF GroupMetrics, GroupTimeSeries, Behind, WalkMissesNothing, Idle
<1>3. CASE EarliestRow
  <2>1. call \in Charts /\ call' = [call EXCEPT !.from = call'.from]
    BY <1>3 DEF EarliestRow, Inv, TypeOK, Totals, Walks, Charts, Idle
  <2> QED
    BY <1>3, <2>1 DEF EarliestRow, Charts, Behind, WalkMissesNothing, None
<1> QED
  BY <1>1, <1>2, <1>3

(***************************************************************************)
(* For every table, filter, page size, retention and bound: who pages to   *)
(* the end has seen every matching row that was there all the while        *)
(* (storage.go:187-207, 400-415, app.go:466-484).                          *)
(***************************************************************************)
THEOREM NothingMissed == Spec => []WalkMissesNothing
<1>1. Init => Behind /\ WalkMissesNothing
  BY DEF Init, Behind, WalkMissesNothing, Idle, None
<1>2. Inv /\ WalkMissesNothing /\ [Next]_vars => Behind' /\ WalkMissesNothing'
  <2> SUFFICES ASSUME Inv, WalkMissesNothing, [Next]_vars
               PROVE  Behind' /\ WalkMissesNothing'
    OBVIOUS
  <2>1. CASE Tick
    BY <2>1 DEF Tick, Inv, Behind, WalkMissesNothing, None, Selected
  <2>2. ASSUME NEW r \in Rows, Insert(r) PROVE Behind' /\ WalkMissesNothing'
    <3>1. answer'.op = "none"
      BY <2>2 DEF Insert, None
    <3> QED
      BY <2>2, <3>1, BehindInsert DEF WalkMissesNothing
  <2>3. ASSUME NEW before \in Int, Delete(before)
        PROVE  Behind' /\ WalkMissesNothing'
    <3>1. answer'.op = "none"
      BY <2>3 DEF Delete, None
    <3> QED
      BY <2>3, <3>1, BehindDelete DEF WalkMissesNothing
  <2>4. CASE PruneOlderThan \/ deleteLogs
    <3>1. /\ now - Retention \in Int
          /\ Times \cup {Never} \subseteq Int
      BY ConstantsAssumption DEF Inv, TypeOK, Times, Never
    <3> QED
      BY <2>3, <2>4, <3>1 DEF PruneOlderThan, deleteLogs
  <2>5. CASE ListPage
    <3>1. answer'.op = "none"
      BY <2>5 DEF ListPage, None
    <3> QED
      BY <2>5, <3>1, BehindList DEF WalkMissesNothing
  <2>6. CASE CountRows
    BY <2>6, CountTells
  <2>7. CASE Ask \/ GroupMetrics \/ EarliestRow \/ GroupTimeSeries
    BY <2>7, BehindCall
  <2>8. CASE UNCHANGED vars
    BY <2>8 DEF vars, Inv, Behind, WalkMissesNothing, Selected
  <2> QED
    BY <2>1, <2>2, <2>4, <2>5, <2>6, <2>7, <2>8 DEF Next
<1> QED
  BY <1>1, <1>2, LogTypes, PTL DEF Spec, Inv
-------------------------------------------------------------------------------
(***************************************************************************)
(* The time series. Seconds are numbered by quotients, so the facts about  *)
(* them come first: a quotient is the one number whose multiples enclose   *)
(* the dividend.                                                           *)
(***************************************************************************)
\* Products of the same number are in the order of the other.
LEMMA Product == ASSUME NEW a \in Int, NEW b \in Int, NEW d \in Nat, a <= b
                 PROVE  a * d <= b * d
<1>1. (b - a) * d >= 0
  OBVIOUS
<1> QED
  BY <1>1
LEMMA Divides ==
  ASSUME NEW a \in Nat, NEW d \in Nat \ {0}
  PROVE  /\ a \div d \in Nat /\ a % d \in 0..d - 1
         /\ a = (a \div d) * d + (a % d)
  OBVIOUS

\* The same as two bounds.
LEMMA Between ==
  ASSUME NEW a \in Nat, NEW d \in Nat \ {0}
  PROVE  /\ a \div d \in Nat
         /\ (a \div d) * d <= a /\ a <= (a \div d) * d + d - 1
<1> DEFINE q == a \div d
           r == a % d
<1>1. q \in Nat /\ r \in 0..d - 1 /\ a = q * d + r
  BY Divides
<1> HIDE DEF q, r
<1>2. q * d \in Int
  BY <1>1
<1>3. q \in Nat /\ q * d <= a /\ a <= q * d + d - 1
  BY <1>1, <1>2
<1> QED
  BY <1>3 DEF q

\* The quotient is the only number of which that is so.
LEMMA Quotient ==
  ASSUME NEW a \in Nat, NEW d \in Nat \ {0}, NEW q \in Int, q * d <= a, a <= q * d + d - 1
  PROVE  a \div d = q
<1> DEFINE p == a \div d
<1>1. p \in Nat /\ p * d <= a /\ a <= p * d + d - 1
  BY Between
<1> HIDE DEF p
<1>2. ASSUME p < q PROVE FALSE
  <2>1. (p + 1) * d <= q * d
    BY <1>1, <1>2, Product
  <2>2. (p + 1) * d = p * d + d
    BY <1>1
  <2>3. p * d \in Int /\ q * d \in Int
    BY <1>1
  <2> QED
    BY <1>1, <2>1, <2>2, <2>3
<1>3. ASSUME q < p PROVE FALSE
  <2>1. (q + 1) * d <= p * d
    BY <1>1, <1>3, Product
  <2>2. (q + 1) * d = q * d + d
    OBVIOUS
  <2>3. p * d \in Int /\ q * d \in Int
    BY <1>1
  <2> QED
    BY <1>1, <2>1, <2>2, <2>3
<1> QED
  BY <1>1, <1>2, <1>3 DEF p

LEMMA QuotientMonotone ==
  ASSUME NEW a \in Nat, NEW b \in Nat, NEW d \in Nat \ {0}, a <= b
  PROVE  a \div d <= b \div d
<1> DEFINE p == a \div d
           q == b \div d
<1>1. /\ p \in Nat /\ p * d <= a 
      /\ q \in Nat /\ b <= q * d + d - 1
  BY Between
<1> HIDE DEF p, q
<1>2. ASSUME q < p PROVE FALSE
  <2>1. (q + 1) * d <= p * d
    BY <1>1, <1>2, Product
  <2>2. (q + 1) * d = q * d + d
    BY <1>1
  <2>3. p * d \in Int /\ q * d \in Int
    BY <1>1
  <2> QED
    BY <1>1, <2>1, <2>2, <2>3
<1> QED
  BY <1>1, <1>2 DEF p, q

LEMMA Multiple ==
  ASSUME NEW q \in Nat, NEW d \in Nat \ {0}
  PROVE  (q * d) \div d = q /\ (q * d) % d = 0
<1>1. q * d \in Nat
  OBVIOUS
<1>2. (q * d) \div d = q
  BY <1>1, Quotient
<1> QED
  BY <1>1, <1>2, Divides

(***************************************************************************)
(* While a chart is under way its window ends with a whole second, and     *)
(* every selected row is in it that was there from the beginning.          *)
(***************************************************************************)
InWindow ==
  call.op = "series" =>
    /\ call.to % PerSecond = 0
    /\ call.from # Never => call.from <= call.to
    /\ \A r \in Select(call.f, rows \ call.new) :
         r.started <= call.to /\ (call.from # Never => call.from <= r.started)

LEMMA NextSecondAfter ==
  ASSUME NEW t \in Nat
  PROVE  /\ NextSecond(t) \in Nat /\ t <= NextSecond(t)
         /\ NextSecond(t) % PerSecond = 0
<1> DEFINE q == (t + PerSecond - 1) \div PerSecond
<1>1. PerSecond \in Nat \ {0}
  BY ConstantsAssumption
<1>2. t + PerSecond - 1 \in Nat
  BY <1>1
<1>3. q \in Nat /\ t + PerSecond - 1 <= q * PerSecond + PerSecond - 1
  BY <1>1, <1>2, Between
<1> HIDE DEF q
<1>4. q * PerSecond \in Nat
  BY <1>1, <1>3
<1>5. t <= q * PerSecond
  BY <1>1, <1>3, <1>4
<1>6. (q * PerSecond) % PerSecond = 0
  BY <1>1, <1>3, Multiple
<1> QED
  BY <1>4, <1>5, <1>6 DEF q, NextSecond

LEMMA WindowDelete ==
  ASSUME TypeOK, InWindow, NEW before, Delete(before)
  PROVE  InWindow'
<1>1. SUFFICES ASSUME call'.op = "series" PROVE InWindow'
  BY DEF InWindow
<1>2. call \in Charts
  BY <1>1 DEF TypeOK, Totals, Walks, Idle, Delete
<1>3. /\ call'.f = call.f /\ call'.to = call.to /\ call'.from = call.from
      /\ call'.new = call.new \cap rows' /\ rows' \subseteq rows
  BY <1>2 DEF Delete, Charts
<1>4. Select(call.f, rows' \ call'.new) \subseteq Select(call.f, rows \ call.new)
  BY <1>3 DEF Select
<1> QED
  BY <1>2, <1>3, <1>4 DEF InWindow, Charts

LEMMA WindowInsert ==
  ASSUME TypeOK, InWindow, NEW x \in Rows, Insert(x)
  PROVE  InWindow'
<1>1. SUFFICES ASSUME call'.op = "series" PROVE InWindow'
  BY DEF InWindow
<1>2. call \in Charts /\ call # Idle
  BY <1>1 DEF TypeOK, Totals, Walks, Charts, Idle, Insert
<1>3. /\ call'.f = call.f /\ call'.to = call.to /\ call'.from = call.from
      /\ call'.new = call.new \cup {x} /\ rows' = rows \cup {x}
  BY <1>2 DEF Insert, Charts
<1>4. Select(call.f, rows' \ call'.new) \subseteq Select(call.f, rows \ call.new)
  BY <1>3 DEF Select
<1> QED
  BY <1>2, <1>3, <1>4 DEF InWindow, Charts

LEMMA WindowAsk ==
  ASSUME TypeOK, NEW f \in Filters, NEW asked \in Limits, AskTimeSeries(f, asked)
  PROVE  InWindow'
<1> DEFINE last == IF f.to # Never /\ f.to < now THEN f.to ELSE now
           to == NextSecond(last)
           from == IF f.from = Never THEN Never ELSE Min({f.from, to})
<1>1. /\ MaxTime \in Nat
      /\ f.from \in Times \cup {Never} /\ f.to \in Times \cup {Never}
  BY ConstantsAssumption
<1>2. last \in Nat
  BY <1>1 DEF TypeOK, Times
<1>3. to \in Nat /\ last <= to /\ to % PerSecond = 0
  <2> HIDE DEF last
  <2> QED
    BY <1>2, NextSecondAfter
<1>4. ASSUME f.from # Never
      PROVE  from <= to /\ from <= f.from /\ from \in Nat
  <2>1. {f.from, to} \in SUBSET Nat /\ {f.from, to} # {}
    BY <1>1, <1>3, <1>4 DEF Times
  <2>2. from = Min({f.from, to})
    BY <1>4
  <2> HIDE DEF from, to
  <2> QED
    BY <2>1, <2>2, LeastNat
<1>5. ASSUME NEW r \in Select(f, rows)
      PROVE  r.started <= to /\ (f.from # Never => from <= r.started)
  <2>1. /\ r \in rows /\ r.started \in Nat /\ r.started <= now
        /\ f.from = Never \/ r.started >= f.from
        /\ f.to = Never \/ r.started <= f.to
    BY <1>1 DEF Select, Matches, TypeOK, Rows, Times
  <2>2. r.started <= last
    BY <2>1
  <2>3. f.from \in Int
    BY <1>1 DEF Times, Never
  <2> HIDE DEF last, to, from
  <2> QED
    BY <1>2, <1>3, <1>4, <2>1, <2>2, <2>3
<1>6. from # Never => f.from # Never
  OBVIOUS
<1>7. /\ call' = [op |-> "series", f |-> f, n |-> Buckets(asked), to |-> to,
                  from |-> from, new |-> {}, cut |-> FALSE]
      /\ rows' = rows
  BY DEF AskTimeSeries
<1> HIDE DEF to, from
<1>8. /\ call'.to = to /\ call'.from = from /\ call'.new = {} /\ call'.f = f
  BY <1>7
<1>9. Select(call'.f, rows' \ call'.new) = Select(f, rows)
  BY <1>7, <1>8 DEF Select
<1> QED
  BY <1>3, <1>4, <1>5, <1>6, <1>8, <1>9 DEF InWindow

LEMMA WindowEarliest ==
  ASSUME TypeOK, InWindow, EarliestRow
  PROVE  InWindow'
<1> DEFINE times == {call.to} \cup {r.started : r \in rows}
<1>1. call \in Charts /\ rows' = rows /\ call' = [call EXCEPT !.from = Min(times)]
  BY DEF EarliestRow, TypeOK, Totals, Walks, Idle
<1>2. \A t \in times : Min(times) <= t
  <2>1. MaxTime \in Nat /\ call.to \in Nat
    BY <1>1, ConstantsAssumption DEF Charts
  <2>2. times \in SUBSET Nat /\ times # {}
    BY <2>1 DEF TypeOK, Rows, Times
  <2> HIDE DEF times
  <2> QED
    BY <2>2, LeastNat
<1>3. Min(times) <= call.to /\ \A r \in rows : Min(times) <= r.started
  BY <1>2
<1> HIDE DEF times
<1>4. /\ call'.to = call.to /\ call'.from = Min(times) /\ call'.new = call.new
      /\ call'.f = call.f /\ call.op = "series"
  BY <1>1 DEF Charts
<1>5. \A r \in Select(call.f, rows \ call.new) : r \in rows
  BY DEF Select
<1> QED
  BY <1>1, <1>3, <1>4, <1>5 DEF InWindow

\* n steps are as many seconds as there are at least.
LEMMA StepReaches ==
  ASSUME NEW seconds \in Nat, NEW n \in Nat \ {0}
  PROVE  Step(seconds, n) \in Nat \ {0} /\ seconds <= Step(seconds, n) * n
<1> DEFINE x == (seconds + n - 1) \div n
           step == Step(seconds, n)
<1>1. seconds + n - 1 \in Nat
  OBVIOUS
<1>2. x \in Nat /\ seconds + n - 1 <= x * n + n - 1
  BY <1>1, Between
<1>3. step \in {1, x} /\ step >= 1 /\ step >= x
  <2>1. step = Max({1, x})
    BY DEF Step
  <2> HIDE DEF x, step
  <2>2. CASE x >= 1
    <3>1. \A y \in {1, x} : x >= y
      BY <1>2, <2>2
    <3>2. \A z \in {1, x} : (\A y \in {1, x} : z >= y) => z = x
      BY <1>2, <2>2
    <3>3. Max({1, x}) = x
      BY <3>1, <3>2 DEF Max
    <3> QED
      BY <1>2, <2>1, <2>2, <3>3
  <2>3. CASE ~(x >= 1)
    <3>1. \A y \in {1, x} : 1 >= y
      BY <1>2, <2>3
    <3>2. \A z \in {1, x} : (\A y \in {1, x} : z >= y) => z = 1
      BY <1>2, <2>3
    <3>3. Max({1, x}) = 1
      BY <3>1, <3>2 DEF Max
    <3> QED
      BY <1>2, <2>1, <2>3, <3>3
  <2> QED
    BY <2>2, <2>3
<1> HIDE DEF x, step
<1>4. step \in Nat \ {0}
  BY <1>2, <1>3
<1>5. x * n <= step * n
  BY <1>2, <1>3, <1>4, Product
<1>6. x * n \in Nat /\ step * n \in Nat
  BY <1>2, <1>4
<1>7. seconds <= step * n
  BY <1>2, <1>5, <1>6
<1> QED
  BY <1>4, <1>7 DEF step

LEMMA SecondType == ASSUME NEW t \in Nat
                    PROVE  /\ Second(t) \in Nat
                           /\ Second(t) * PerSecond <= t
                           /\ t <= Second(t) * PerSecond + PerSecond - 1
<1>1. PerSecond \in Nat \ {0}
  BY ConstantsAssumption
<1> QED
  BY <1>1, Between DEF Second

LEMMA SecondMonotone == ASSUME NEW s \in Nat, NEW t \in Nat, s <= t
                        PROVE  Second(s) <= Second(t)
<1>1. PerSecond \in Nat \ {0}
  BY ConstantsAssumption
<1> QED
  BY <1>1, QuotientMonotone DEF Second

\* The first bucket begins at the multiple of the step at or before the window.
LEMMA FirstAligned ==
  ASSUME NEW from \in Nat, NEW step \in Nat \ {0}
  PROVE  First(from, step) = (Second(from) \div step) * step
<1> DEFINE s == Second(from)
           k == s \div step
           m == s % step
<1>1. s \in Nat
  BY SecondType
<1> HIDE DEF s
<1>2. k \in Nat /\ m \in 0..step - 1 /\ s = k * step + m
  BY <1>1, Divides
<1>3. First(from, step) = s - m
  BY DEF First, s
<1> HIDE DEF k, m
<1>4. k * step \in Nat
  BY <1>2
<1>5. First(from, step) = k * step
  BY <1>2, <1>3, <1>4
<1> QED
  BY <1>5 DEF k, s

\* The whole seconds of a window whose end is a whole second.
LEMMA WindowSeconds ==
  ASSUME NEW from \in Nat, NEW to \in Nat, from <= to, to % PerSecond = 0
  PROVE  /\ (to - from) \div PerSecond \in Nat
         /\ Second(to) - Second(from) - 1 <= (to - from) \div PerSecond
         /\ to = Second(to) * PerSecond
<1> DEFINE d == PerSecond
           w == (to - from) \div d
           a == Second(from)
           b == Second(to)
<1>1. d \in Nat \ {0} /\ to - from \in Nat
  BY ConstantsAssumption
<1>2. w \in Nat /\ to - from <= w * d + d - 1
  BY <1>1, Between
<1>3. a \in Nat /\ a * d <= from /\ from <= a * d + d - 1 /\ b \in Nat
  BY SecondType
<1>4. to = b * d
  <2>1. b = to \div d /\ to % d = 0
    BY DEF Second
  <2>2. to = (to \div d) * d + (to % d)
    BY <1>1, Divides
  <2> HIDE DEF b, d
  <2>3. b * d \in Nat
    BY <1>1, <1>3
  <2> QED
    BY <2>1, <2>2, <2>3
<1> HIDE DEF a, b, w, d
<1>5. ASSUME w <= b - a - 2
      PROVE  FALSE
  <2>1. w * d <= (b - a - 2) * d
    BY <1>1, <1>2, <1>3, <1>5, Product
  <2>2. (b - a - 2) * d = b * d - a * d - 2 * d
    BY <1>1, <1>3
  <2>3. w * d \in Nat /\ a * d \in Nat /\ b * d \in Nat
    BY <1>1, <1>2, <1>3
  <2> QED
    BY <1>1, <1>2, <1>3, <1>4, <2>1, <2>2, <2>3
<1>6. b - a - 1 <= w
  BY <1>2, <1>3, <1>5
<1> QED
  BY <1>2, <1>4, <1>6 DEF a, b, w, d

\* Where GroupTimeSeries begins a bucket.
Listed(first, step, end) == {e \in first..end - 1 : (e - first) % step = 0}

\* A listed bucket begins at a multiple of the step.
LEMMA ListedMultiple ==
  ASSUME NEW k \in Nat, NEW step \in Nat \ {0}, NEW end \in Nat,
         NEW e \in Listed(k * step, step, end)
  PROVE  /\ (e - k * step) \div step \in Nat
         /\ e = (k + (e - k * step) \div step) * step
         /\ e <= end - 1
<1> DEFINE first == k * step
           m == (e - first) \div step
<1>1. first \in Nat
  OBVIOUS
<1>2. e \in first..end - 1 /\ (e - first) % step = 0
  BY DEF Listed
<1>3. e - first \in Nat
  <2> HIDE DEF first
  <2> QED
    BY <1>1, <1>2
<1>4. m \in Nat /\ e - first = m * step + ((e - first) % step)
  BY <1>3, Divides
<1>5. (k + m) * step = first + m * step
  <2>1. m \in Nat
    BY <1>4
  <2> HIDE DEF m
  <2> QED
    BY <2>1
<1>6. e = (k + m) * step
  <2>1. m * step \in Nat
    <3>1. m \in Nat
      BY <1>4
    <3> HIDE DEF m
    <3> QED
      BY <3>1
  <2> HIDE DEF first, m
  <2> QED
    BY <1>1, <1>2, <1>4, <1>5, <2>1
<1>7. e <= end - 1
  <2> HIDE DEF first
  <2> QED
    BY <1>1, <1>2
<1> QED
  BY <1>4, <1>6, <1>7

LEMMA MultipleListed ==
  ASSUME NEW k \in Nat, NEW step \in Nat \ {0}, NEW end \in Nat,
         NEW q \in Nat, k <= q, q * step <= end - 1
  PROVE  q * step \in Listed(k * step, step, end)
<1>1. k * step <= q * step
  BY Product
<1>2. q * step - k * step = (q - k) * step
  OBVIOUS
<1>3. ((q - k) * step) % step = 0
  BY Multiple
<1>4. k * step \in Int /\ q * step \in Int
  OBVIOUS
<1>5. q * step \in k * step..end - 1
  BY <1>1, <1>4
<1> QED
  BY <1>2, <1>3, <1>5 DEF Listed

\* Numbered from 0, the listed buckets end with number n at most.
LEMMA FewListed ==
  ASSUME NEW k \in Nat, NEW step \in Nat \ {0}, NEW end \in Nat, NEW n \in Nat,
         end <= k * step + step * n + step
  PROVE  /\ IsFiniteSet(Listed(k * step, step, end))
         /\ Cardinality(Listed(k * step, step, end)) <= n + 1
<1> DEFINE S == Listed(k * step, step, end)
           m(e) == (e - k * step) \div step
           f == [e \in S |-> m(e)]
<1>1. ASSUME NEW e \in S
      PROVE  m(e) \in 0..n /\ e = (k + m(e)) * step
  <2>1. m(e) \in Nat /\ e = (k + m(e)) * step /\ e <= end - 1
    BY ListedMultiple
  <2> HIDE DEF m
  <2>2. ASSUME m(e) >= n + 1
        PROVE  FALSE
    <3>1. (k + (n + 1)) * step <= (k + m(e)) * step
      BY <2>1, <2>2, Product
    <3>2. (k + (n + 1)) * step = k * step + step * n + step
      OBVIOUS
    <3>3. /\ k * step \in Int /\ step * n \in Int
          /\ (k + m(e)) * step \in Int
      BY <2>1
    <3> QED
      BY <2>1, <3>1, <3>2, <3>3
  <2> QED
    BY <2>1, <2>2
<1>2. f \in Injection(S, 0..n)
  <2>1. f \in [S -> 0..n]
    BY <1>1
  <2>2. \A a, b \in S : f[a] = f[b] => a = b
    <3> HIDE DEF S, m
    <3> QED
      BY <1>1
  <2> HIDE DEF f
  <2> QED
    BY <2>1, <2>2 DEF Injection, IsInjective
<1>3. IsFiniteSet(0..n) /\ Cardinality(0..n) = n + 1
  BY FS_Interval
<1> HIDE DEF S, f
<1>4. IsFiniteSet(S) /\ Cardinality(S) <= Cardinality(0..n)
  BY <1>2, <1>3, FS_Injection
<1> QED
  BY <1>3, <1>4 DEF S

\* When a chart is answered, it accounts for the rows of the table.
LEMMA SeriesTells ==
  ASSUME TypeOK, InWindow, GroupTimeSeries
  PROVE  SeriesCountsEveryRow'
<1> DEFINE from == call.from
           to == call.to
           n == call.n
           w == (to - from) \div PerSecond
           step == Step(w, n)
           k == Second(from) \div step
           end == Second(to)
           shown == Listed(k * step, step, end)
           selected == Select(call.f, rows)
           group(e) == {r \in selected : (Second(r.started) \div step) * step = e}
<1>1. call \in Charts /\ rows' = rows
  BY DEF GroupTimeSeries, TypeOK, Totals, Walks, Idle
<1>2. /\ from \in Nat /\ to \in Nat /\ n \in Nat \ {0}
      /\ from <= to /\ to % PerSecond = 0
  BY <1>1, ConstantsAssumption DEF Charts, GroupTimeSeries, InWindow
<1>3. /\ w \in Nat /\ end - Second(from) - 1 <= w /\ to = end * PerSecond
  <2> HIDE DEF from, to
  <2> QED
    BY <1>2, WindowSeconds
<1>4. step \in Nat \ {0} /\ w <= step * n
  <2> HIDE DEF w, n
  <2> QED
    BY <1>2, <1>3, StepReaches
<1>5. /\ Second(from) \in Nat /\ end \in Nat
      /\ k \in Nat /\ k * step <= Second(from)
      /\ Second(from) <= k * step + step - 1
  <2> HIDE DEF from, to, step
  <2> QED
    BY <1>2, <1>4, SecondType, Between
<1>6. First(from, step) = k * step
  <2> HIDE DEF from, step
  <2> QED
    BY <1>2, <1>4, FirstAligned
<1>7. /\ answer'.op = "series" /\ answer'.f = call.f /\ answer'.n = n
      /\ answer'.to = to /\ answer'.step = step /\ answer'.new = call.new
      /\ answer'.buckets = [e \in shown |-> Aggregate(group(e))]
  <2> DEFINE chart(S) == [e \in S |-> Aggregate(group(e))]
  <2>1. answer' = [op |-> "series", f |-> call.f, n |-> n, to |-> to,
                   step |-> step, new |-> call.new,
                   buckets |-> chart(Listed(First(from, step), step, end))]
    BY DEF GroupTimeSeries, Listed
  <2>2. answer' = [op |-> "series", f |-> call.f, n |-> n, to |-> to,
                   step |-> step, new |-> call.new, buckets |-> chart(shown)]
    <3> HIDE DEF chart, n, to, step, from, k, end
    <3> QED
      BY <1>6, <2>1, Zenon
  <2>3. answer'.buckets = chart(shown)
    <3> HIDE DEF chart, n, to, step, from, k, end
    <3> QED
      BY <2>2
  <2> QED
    BY <2>2, <2>3
<1> HIDE DEF from, to, n, w, step, k, end, shown, selected
<1>8. ASSUME NEW r \in selected
      PROVE  /\ r.started \in Nat /\ Second(r.started) \in Nat
             /\ \A e : (Second(r.started) \div step) * step = e
                         => Second(r.started) \in e..e + step - 1
  <2>1. r \in Rows
    BY DEF selected, Select, TypeOK
  <2>2. r.started \in Nat
    BY <2>1, ConstantsAssumption DEF Rows, Times
  <2> DEFINE s == Second(r.started)
             q == s \div step
  <2>3. s \in Nat
    BY <2>2, SecondType
  <2> HIDE DEF s
  <2>4. q \in Nat /\ q * step <= s /\ s <= q * step + step - 1
    BY <1>4, <2>3, Between
  <2> HIDE DEF q
  <2>5. q * step \in Nat
    BY <1>4, <2>4
  <2>6. s \in q * step..q * step + step - 1
    BY <1>4, <2>3, <2>4, <2>5
  <2> QED
    BY <2>2, <2>3, <2>6 DEF s, q
<1>9. ASSUME NEW e \in shown
      PROVE  group(e) = {r \in selected : Second(r.started) \in e..e + step - 1}
  <2> DEFINE q == k + ((e - k * step) \div step)
  <2>1. q \in Nat /\ e = q * step
    BY <1>4, <1>5, ListedMultiple DEF shown
  <2> HIDE DEF q
  <2>2. ASSUME NEW r \in selected, Second(r.started) \in e..e + step - 1
        PROVE  (Second(r.started) \div step) * step = e
    <3>1. Second(r.started) \in Nat
      BY <1>8
    <3>2. q * step \in Int
      BY <1>4, <2>1
    <3>3. q * step <= Second(r.started) /\ Second(r.started) <= q * step + step - 1
      BY <1>4, <2>1, <2>2, <3>1, <3>2
    <3>4. Second(r.started) \div step = q
      BY <1>4, <2>1, <3>1, <3>3, Quotient
    <3> QED
      BY <2>1, <3>4
  <2> QED
    BY <1>8, <2>2
<1>10. ASSUME NEW r \in selected, r \notin call.new,
              ~(r.started = to /\ end % step = 0)
       PROVE  \E e \in shown : Second(r.started) \in e..e + step - 1
  <2> DEFINE s == Second(r.started)
             q == s \div step
  <2>1. r.started <= to /\ from <= r.started /\ r.started \in Nat
    <3>1. r \in Select(call.f, rows \ call.new)
      BY <1>10 DEF selected, Select
    <3>2. call.op = "series" /\ call.from # Never
      BY DEF GroupTimeSeries
    <3> QED
      BY <1>8, <3>1, <3>2 DEF InWindow, from, to
  <2>2. s \in Nat /\ Second(from) <= s /\ s <= end
    BY <1>2, <2>1, SecondType, SecondMonotone DEF end
  <2>3. s * PerSecond <= r.started
    BY <2>1, SecondType
  <2> HIDE DEF s
  <2>4. q \in Nat /\ q * step <= s /\ s <= q * step + step - 1
    BY <1>4, <2>2, Between
  <2>5. k <= q
    BY <1>4, <1>5, <2>2, QuotientMonotone DEF k
  <2>6. q * step \in Nat
    <3>1. q \in Nat
      BY <2>4
    <3> HIDE DEF q
    <3> QED
      BY <1>4, <3>1
  <2>7. q * step <= end - 1
    <3>1. SUFFICES ASSUME q * step = end, s = end
                   PROVE  FALSE
      <4> HIDE DEF q
      <4> QED
        BY <1>5, <2>2, <2>4, <2>6
    <3>2. r.started = to
      <4> QED
        BY <1>3, <2>1, <2>3, <3>1
    <3>3. end % step = 0
      <4>1. q \in Nat
        BY <2>4
      <4> HIDE DEF q
      <4> QED
        BY <1>4, <3>1, <4>1, Multiple
    <3> QED
      BY <1>10, <3>2, <3>3
  <2>8. q * step \in shown
    <3>1. q \in Nat
      BY <2>4
    <3> HIDE DEF q
    <3> QED
      BY <1>4, <1>5, <2>5, <2>7, <3>1, MultipleListed DEF shown
  <2>9. s \in q * step..q * step + step - 1
    <3> HIDE DEF q
    <3> QED
      BY <1>4, <2>2, <2>4, <2>6
  <2> QED
    BY <2>8, <2>9 DEF s
<1>11. Cardinality(shown) <= n + 1
  <2>1. k * step \in Nat /\ step * n \in Nat
    BY <1>2, <1>4, <1>5
  <2>2. end <= k * step + step * n + step
    BY <1>3, <1>4, <1>5, <2>1
  <2> QED
    BY <1>2, <1>4, <1>5, <2>2, FewListed DEF shown
<1>12. Select(answer'.f, rows') = selected
  BY <1>1, <1>7 DEF selected
<1>13. DOMAIN answer'.buckets = shown
  BY <1>7
<1>14. \A r \in selected :
         \/ LeftOut(r)'
         \/ \E e \in shown : Second(r.started) \in e..e + step - 1
  BY <1>7, <1>10 DEF LeftOut, end
<1>15. \A e \in shown :
         answer'.buckets[e]
           = Aggregate({r \in selected : Second(r.started) \in e..e + step - 1})
  BY <1>7, <1>9
<1> HIDE DEF group
<1> QED
  BY <1>7, <1>11, <1>12, <1>13, <1>14, <1>15 DEF SeriesCountsEveryRow, Covers

-------------------------------------------------------------------------------
(***************************************************************************)
(* Metrics. Each of their sums gives every set of rows a number to which   *)
(* every row adds its weight. The gateways are a partition of the rows,    *)
(* so the numbers of the parts add up to that of the whole: otherwise      *)
(* take a smallest set for which they do not, and a row out of it.         *)
(***************************************************************************)
OfGateway(g, S) == {r \in S : r.kind.gateway = g}

\* A measure of sets of rows, to which every row adds its weight.
Measures(m, w, T) ==
  /\ m \in [SUBSET T -> Int] /\ w \in [T -> Int]
  /\ m[{}] = 0
  /\ \A s \in SUBSET T : \A x \in s : m[s] = w[x] + m[Without(s, x)]

\* The measures of the parts that make up S.
Parts(m, G, S) == [g \in G |-> m[OfGateway(g, S)]]

\* The parts add up to the whole.
LEMMA PartsAddUp ==
  ASSUME NEW T, IsFiniteSet(T), NEW m, NEW w, Measures(m, w, T),
         NEW G, IsFiniteSet(G), \A r \in T : r.kind.gateway \in G
  PROVE  m[T] = SumFunctionOnSet(Parts(m, G, T), G)
<1> DEFINE Bad == {s \in SUBSET T : m[s] # SumFunctionOnSet(Parts(m, G, s), G)}
<1>1. ASSUME Bad # {}
      PROVE  FALSE
  <2>1. PICK s \in Bad : \A x \in s : s \ {x} \notin Bad
    <3>1. Bad \in SUBSET (SUBSET T)
      OBVIOUS
    <3> HIDE DEF Bad
    <3> QED
      BY <1>1, <3>1, Smallest
  <2>2. s \in SUBSET T /\ m[s] # SumFunctionOnSet(Parts(m, G, s), G)
    OBVIOUS
  <2>3. \A S \in SUBSET T : \A g \in G : Parts(m, G, S)[g] \in Int
    BY DEF Parts, OfGateway, Measures
  <2>4. s # {}
    <3>1. SUFFICES ASSUME s = {} PROVE FALSE
      OBVIOUS
    <3>2. \A g \in G : Parts(m, G, s)[g] = 0
      BY <3>1 DEF Parts, OfGateway, Measures
    <3>3. SumFunctionOnSet(Parts(m, G, s), G) = 0
      BY <3>2, SumZero
    <3> QED
      BY <2>2, <3>1, <3>3 DEF Measures
  <2>5. PICK x \in s : TRUE
    BY <2>4
  <2> DEFINE rest == Without(s, x)
             h == x.kind.gateway
  <2>6. rest \in SUBSET T /\ rest = s \ {x} /\ h \in G /\ x \in T
    BY <2>2 DEF Without
  <2>7. m[rest] = SumFunctionOnSet(Parts(m, G, rest), G)
    BY <2>1, <2>6
  <2>8. m[s] = w[x] + m[rest]
    BY <2>2 DEF Measures
  <2>9. \A g \in G : g # h => Parts(m, G, s)[g] = Parts(m, G, rest)[g]
    <3>1. \A g \in G : g # h => OfGateway(g, s) = OfGateway(g, rest)
      BY <2>6 DEF OfGateway
    <3> QED
      BY <3>1 DEF Parts
  <2>10. Parts(m, G, s)[h] = w[x] + Parts(m, G, rest)[h]
    <3>1. OfGateway(h, rest) = Without(OfGateway(h, s), x)
      BY <2>6 DEF OfGateway, Without
    <3>2. OfGateway(h, s) \in SUBSET T /\ x \in OfGateway(h, s)
      BY <2>2 DEF OfGateway
    <3>3. m[OfGateway(h, s)] = w[x] + m[Without(OfGateway(h, s), x)]
      BY <3>2 DEF Measures
    <3> QED
      BY <2>6, <3>1, <3>3 DEF Parts
  <2> DEFINE e == Parts(m, G, s)
             f == Parts(m, G, rest)
  <2>11. SumFunctionOnSet(e, G) = SumFunctionOnSet(f, G) + e[h] - f[h]
    <3>1. \A y \in G : f[y] \in Int /\ e[y] \in Int
      BY <2>2, <2>3, <2>6
    <3>2. \A y \in G : y # h => e[y] = f[y]
      BY <2>9
    <3> HIDE DEF e, f, h
    <3> QED
      BY <2>6, <3>1, <3>2, SumChange
  <2>12. m[rest] \in Int /\ w[x] \in Int /\ f[h] \in Int
    BY <2>3, <2>6 DEF Measures
  <2> HIDE DEF Bad, rest, h
  <2> QED
    BY <2>2, <2>7, <2>8, <2>10, <2>11, <2>12
<1>2. m[T] = SumFunctionOnSet(Parts(m, G, T), G)
  BY <1>1
<1> QED
  BY <1>2

\* The sums of the model are those the lemmas are about.
LEMMA TokensAreSum ==
  ASSUME NEW S, IsFiniteSet(S)
  PROVE  MapThenSumSet(LAMBDA r : r.kind.tokens, S)
           = SumFunctionOnSet([r \in S |-> r.kind.tokens], S)
<1> DEFINE f == [r \in S |-> r.kind.tokens]
           Fits(g) == g = [s \in SUBSET S |-> IF s = {} THEN 0
                             ELSE Pick(s).kind.tokens + g[s \ {Pick(s)}]]
           h == CHOOSE g : Fits(g)
<1>1. MapThenSumSet(LAMBDA r : r.kind.tokens, S) = h[S]
  BY Zenon DEF MapThenSumSet, MapThenFoldSet, Pick
<1>2. \A s \in SUBSET S : s # {} => f[Pick(s)] = Pick(s).kind.tokens
  BY PickIn
<1>3. \A g : AddsUp(g, f, S) <=> Fits(g)
  <2> HIDE DEF f
  <2> QED
    BY <1>2 DEF AddsUp, Summing
<1>4. PICK g : AddsUp(g, f, S) /\ SumFunctionOnSet(f, S) = g[S]
  BY SumIsSumming
<1>5. AddsUp(h, f, S)
  <2>1. \E q : Fits(q)
    BY <1>3, <1>4
  <2>2. Fits(h)
    <3> HIDE DEF Fits
    <3> QED
      BY <2>1
  <2> HIDE DEF Fits, h
  <2> QED
    BY <1>3, <2>2
<1>6. h[S] = g[S]
  <2>1. S \subseteq S /\ \A x \in S : f[x] = f[x]
    OBVIOUS
  <2> HIDE DEF f, h
  <2> QED
    BY <1>4, <1>5, <2>1, SummingAgrees
<1> QED
  BY <1>1, <1>4, <1>6

LEMMA FieldsAreSum ==
  ASSUME NEW part, NEW field, NEW S, IsFiniteSet(S)
  PROVE  MapThenSumSet(LAMBDA g : part[g][field], S)
           = SumFunctionOnSet([g \in S |-> part[g][field]], S)
<1> DEFINE f == [r \in S |-> part[r][field]]
           Fits(g) == g = [s \in SUBSET S |-> IF s = {} THEN 0
                             ELSE part[Pick(s)][field] + g[s \ {Pick(s)}]]
           h == CHOOSE g : Fits(g)
<1>1. MapThenSumSet(LAMBDA g : part[g][field], S) = h[S]
  BY Zenon DEF MapThenSumSet, MapThenFoldSet, Pick
<1>2. \A s \in SUBSET S : s # {} => f[Pick(s)] = part[Pick(s)][field]
  BY PickIn
<1>3. \A g : AddsUp(g, f, S) <=> Fits(g)
  <2> HIDE DEF f
  <2> QED
    BY <1>2 DEF AddsUp, Summing
<1>4. PICK g : AddsUp(g, f, S) /\ SumFunctionOnSet(f, S) = g[S]
  BY SumIsSumming
<1>5. AddsUp(h, f, S)
  <2>1. \E q : Fits(q)
    BY <1>3, <1>4
  <2>2. Fits(h)
    <3> HIDE DEF Fits
    <3> QED
      BY <2>1
  <2> HIDE DEF Fits, h
  <2> QED
    BY <1>3, <2>2
<1>6. h[S] = g[S]
  <2>1. S \subseteq S /\ \A x \in S : f[x] = f[x]
    OBVIOUS
  <2> HIDE DEF f, h
  <2> QED
    BY <1>4, <1>5, <2>1, SummingAgrees
<1> QED
  BY <1>1, <1>4, <1>6

LEMMA CountMeasures ==
  ASSUME NEW T, IsFiniteSet(T), NEW C
  PROVE  Measures([s \in SUBSET T |-> Cardinality(s \cap C)],
                  [x \in T |-> IF x \in C THEN 1 ELSE 0], T)
<1> DEFINE m == [s \in SUBSET T |-> Cardinality(s \cap C)]
           w == [x \in T |-> IF x \in C THEN 1 ELSE 0]
<1>1. \A s \in SUBSET T : IsFiniteSet(s \cap C) /\ Cardinality(s \cap C) \in Nat
  BY FS_Subset, FS_CardinalityType
<1>2. m[{}] = 0
  <2>1. {} \cap C = {}
    OBVIOUS
  <2> QED
    BY <2>1, FS_EmptySet
<1>3. ASSUME NEW s \in SUBSET T, NEW x \in s
      PROVE  m[s] = w[x] + m[Without(s, x)]
  <2>1. Without(s, x) \in SUBSET T
    BY DEF Without
  <2>2. CASE x \in C
    <3>1. Without(s, x) \cap C = (s \cap C) \ {x}
      BY DEF Without
    <3>2. Cardinality((s \cap C) \ {x}) = Cardinality(s \cap C) - 1
      BY <1>1, <2>2, FS_RemoveElement
    <3>3. /\ m[s] = Cardinality(s \cap C) /\ w[x] = 1
          /\ m[Without(s, x)] = Cardinality((s \cap C) \ {x})
      BY <2>1, <2>2, <3>1
    <3>4. Cardinality(s \cap C) \in Nat
      BY <1>1
    <3> HIDE DEF m, w
    <3> QED
      BY <3>2, <3>3, <3>4
  <2>3. CASE x \notin C
    <3>1. Without(s, x) \cap C = s \cap C
      BY <2>3 DEF Without
    <3> QED
      BY <1>1, <2>1, <2>3, <3>1
  <2> QED
    BY <2>2, <2>3
<1>4. m \in [SUBSET T -> Int] /\ w \in [T -> Int]
  BY <1>1
<1> HIDE DEF m, w
<1>5. Measures(m, w, T)
  BY <1>2, <1>3, <1>4 DEF Measures
<1> QED
  BY <1>5 DEF m, w

\* The prompt tokens of all rows of S.
TokensOf(S) == MapThenSumSet(LAMBDA r : r.kind.tokens, S)

LEMMA TokensMeasure ==
  ASSUME NEW T, IsFiniteSet(T), NEW C, \A x \in T : x.kind.tokens \in Int
  PROVE  Measures([s \in SUBSET T |-> TokensOf(s \cap C)],
                  [x \in T |-> IF x \in C THEN x.kind.tokens ELSE 0], T)
<1> DEFINE m == [s \in SUBSET T |-> TokensOf(s \cap C)]
           w == [x \in T |-> IF x \in C THEN x.kind.tokens ELSE 0]
           v == [x \in T |-> x.kind.tokens]
<1>1. \A s \in SUBSET T : IsFiniteSet(s \cap C)
  BY FS_Subset
<1>2. \A x \in T : v[x] \in Int
  OBVIOUS
<1>3. ASSUME NEW s \in SUBSET T
      PROVE  m[s] = SumFunctionOnSet(v, s \cap C)
  <2> DEFINE e == [x \in s \cap C |-> x.kind.tokens]
  <2>1. TokensOf(s \cap C) = SumFunctionOnSet(e, s \cap C)
    BY <1>1, TokensAreSum DEF TokensOf
  <2>2. \A x \in s \cap C : e[x] = v[x]
    OBVIOUS
  <2> HIDE DEF e, v
  <2>3. SumFunctionOnSet(e, s \cap C) = SumFunctionOnSet(v, s \cap C)
    BY <1>1, <2>2, SumSame
  <2> QED
    BY <2>1, <2>3
<1>4. m[{}] = 0
  <2>1. {} \cap C = {} /\ {} \in SUBSET T
    OBVIOUS
  <2> QED
    BY <1>3, <2>1, SumEmpty
<1>5. ASSUME NEW s \in SUBSET T
      PROVE  m[s] \in Int
  <2>1. CASE s \cap C = {}
    <3> HIDE DEF m, v
    <3>1. SumFunctionOnSet(v, {}) = 0
      BY SumEmpty
    <3>2. m[s] = SumFunctionOnSet(v, s \cap C)
      BY <1>3
    <3>3. SumFunctionOnSet(v, s \cap C) = 0
      BY <2>1, <3>1, Zenon
    <3> QED
      BY <3>2, <3>3
  <2>2. CASE s \cap C # {}
    <3>1. PICK y \in s \cap C : TRUE
      BY <2>2
    <3>2. IsFiniteSet(s \cap C) /\ \A z \in s \cap C : v[z] \in Int
      BY <1>1, <1>2
    <3> HIDE DEF m, v
    <3>3. SumFunctionOnSet(v, s \cap C) \in Int
      BY <3>1, <3>2, SumRemove
    <3> QED
      BY <1>3, <3>3
  <2> QED
    BY <2>1, <2>2
<1>6. ASSUME NEW s \in SUBSET T, NEW x \in s
      PROVE  m[s] = w[x] + m[Without(s, x)]
  <2>1. Without(s, x) \in SUBSET T
    BY DEF Without
  <2>2. CASE x \in C
    <3>1. Without(s, x) \cap C = (s \cap C) \ {x}
      BY DEF Without
    <3> DEFINE S == s \cap C
    <3>2. IsFiniteSet(S) /\ x \in S /\ \A y \in S : v[y] \in Int
      BY <1>1, <1>2, <2>2
    <3>3. SumFunctionOnSet(v, S) = v[x] + SumFunctionOnSet(v, S \ {x})
      <4> HIDE DEF v, S
      <4> QED
        BY <3>2, SumRemove
    <3>4. w[x] = v[x]
      BY <2>2
    <3> HIDE DEF m, w, v
    <3> QED
      BY <1>3, <2>1, <3>1, <3>3, <3>4
  <2>3. CASE x \notin C
    <3>1. Without(s, x) \cap C = s \cap C
      BY <2>3 DEF Without
    <3>2. w[x] = 0 /\ m[Without(s, x)] = m[s]
      BY <2>1, <2>3, <3>1
    <3> HIDE DEF m, w
    <3> QED
      BY <1>5, <3>2
  <2> QED
    BY <2>2, <2>3
<1>7. m \in [SUBSET T -> Int] /\ w \in [T -> Int]
  <2>1. m = [s \in SUBSET T |-> m[s]] /\ w \in [T -> Int]
    OBVIOUS
  <2> HIDE DEF m
  <2> QED
    BY <1>5, <2>1
<1> HIDE DEF m, w
<1>8. Measures(m, w, T)
  BY <1>4, <1>6, <1>7 DEF Measures
<1> QED
  BY <1>8 DEF m, w

\* The sums of the metrics.
Fields == {"requests", "successes", "promptTokens", "cacheTokens"}

\* Every sum of the metrics is a measure.
LEMMA AggregateMeasures ==
  ASSUME NEW T, IsFiniteSet(T), \A x \in T : x.kind.tokens \in Int,
         NEW field \in Fields
  PROVE  \E w : Measures([s \in SUBSET T |-> Aggregate(s)[field]], w, T)
<1> DEFINE m == [s \in SUBSET T |-> Aggregate(s)[field]]
           good == {r \in T : r.kind.success}
           known == {r \in T : r.kind.cached}
<1>1. CASE field = "requests"
  <2>1. \A s \in SUBSET T : s \cap T = s
    OBVIOUS
  <2>2. m = [s \in SUBSET T |-> Cardinality(s \cap T)]
    BY <1>1, <2>1 DEF Aggregate
  <2> QED
    BY <2>2, CountMeasures
<1>2. CASE field = "successes"
  <2>1. \A s \in SUBSET T : s \cap good = {r \in s : r.kind.success}
    OBVIOUS
  <2>2. m = [s \in SUBSET T |-> Cardinality(s \cap good)]
    <3> HIDE DEF good
    <3> QED
      BY <1>2, <2>1 DEF Aggregate
  <2> HIDE DEF good
  <2> QED
    BY <2>2, CountMeasures
<1>3. CASE field = "promptTokens"
  <2>1. \A s \in SUBSET T : s \cap T = s
    OBVIOUS
  <2>2. \A s : Aggregate(s)[field] = TokensOf(s)
    BY <1>3 DEF Aggregate, TokensOf
  <2>3. m = [s \in SUBSET T |-> TokensOf(s \cap T)]
    BY <2>1, <2>2
  <2> QED
    BY <2>3, TokensMeasure
<1>4. CASE field = "cacheTokens"
  <2>1. \A s \in SUBSET T : s \cap known = {r \in s : r.kind.cached}
    OBVIOUS
  <2>2. \A s : Aggregate(s)[field] = TokensOf({r \in s : r.kind.cached})
    BY <1>4 DEF Aggregate, TokensOf
  <2>3. m = [s \in SUBSET T |-> TokensOf(s \cap known)]
    <3> HIDE DEF known
    <3> QED
      BY <2>1, <2>2
  <2> HIDE DEF known
  <2> QED
    BY <2>3, TokensMeasure
<1> QED
  BY <1>1, <1>2, <1>3, <1>4 DEF Fields

LEMMA GatewaysAddUp ==
  ASSUME NEW f, NEW S, IsFiniteSet(Select(f, S)),
         \A x \in S : x.kind.tokens \in Int, NEW field \in Fields
  PROVE  LET part == metricsByGateway(f, S)
         IN  Aggregate(Select(f, S))[field]
               = MapThenSumSet(LAMBDA g : part[g][field], DOMAIN part)
<1> DEFINE T == Select(f, S)
           G == {r.kind.gateway : r \in T}
           part == metricsByGateway(f, S)
           m == [s \in SUBSET T |-> Aggregate(s)[field]]
           h == [g \in G |-> part[g][field]]
<1>1. IsFiniteSet(T) /\ \A x \in T : x.kind.tokens \in Int
  BY DEF Select
<1> HIDE DEF T
<1>2. IsFiniteSet(G)
  <2> DEFINE gateway == [r \in T |-> r.kind.gateway]
  <2>1. gateway \in Surjection(T, G)
    BY DEF Surjection
  <2> HIDE DEF G, gateway
  <2> QED
    BY <1>1, <2>1, FS_Surjection
<1>3. PICK w : Measures(m, w, T)
  BY <1>1, AggregateMeasures
<1>4. \A r \in T : r.kind.gateway \in G
  OBVIOUS
<1>5. m[T] = SumFunctionOnSet(Parts(m, G, T), G)
  <2> HIDE DEF m, G
  <2> QED
    BY <1>1, <1>2, <1>3, <1>4, PartsAddUp
<1>6. part = [g \in G |-> Aggregate(OfGateway(g, T))]
  BY DEF metricsByGateway, OfGateway, T
<1>7. Parts(m, G, T) = h
  <2>1. \A g \in G : OfGateway(g, T) \in SUBSET T
    BY DEF OfGateway
  <2>2. \A g \in G : part[g] = Aggregate(OfGateway(g, T))
    <3> HIDE DEF part, G
    <3> QED
      BY <1>6
  <2>3. \A g \in G : m[OfGateway(g, T)] = part[g][field]
    <3> HIDE DEF part, G
    <3> QED
      BY <2>1, <2>2
  <2> HIDE DEF m, G, part
  <2> QED
    BY <2>3 DEF Parts
<1>8. MapThenSumSet(LAMBDA g : part[g][field], G) = SumFunctionOnSet(h, G)
  <2> HIDE DEF G, part
  <2> QED
    BY <1>2, FieldsAreSum
<1>9. DOMAIN part = G
  <2> HIDE DEF part, G
  <2> QED
    BY <1>6
<1>10. m[T] = Aggregate(T)[field]
  OBVIOUS
<1> HIDE DEF part, G, m, h
<1> QED
  BY <1>5, <1>7, <1>8, <1>9, <1>10 DEF T, part

-------------------------------------------------------------------------------
(***************************************************************************)
(* The answers. The totals of a call stand as long as no row came or went  *)
(* since they were taken.                                                  *)
(***************************************************************************)
TotalStands ==
  call.op = "metrics" /\ call.new = {} /\ ~call.cut =>
    call.total = Aggregate(Select(call.f, rows))


LEMMA SelectionFinite ==
  ASSUME TypeOK, NEW f
  PROVE  IsFiniteSet(Select(f, rows)) /\ Select(f, rows) \subseteq Rows
<1>1. Select(f, rows) \in SUBSET Rows /\ Distinct(Select(f, rows))
  BY DEF Select, TypeOK, Distinct
<1> QED
  BY <1>1, RowsFinite

\* Asked for one gateway, the same filter selects the rows of that gateway.
LEMMA OneGateway ==
  ASSUME TypeOK, NEW f, "gateway" \in DOMAIN f, f.gateway = Anything,
         NEW g, g # Anything
  PROVE  Select([f EXCEPT !.gateway = g], rows) = OfGateway(g, Select(f, rows))
<1> DEFINE e == [f EXCEPT !.gateway = g]
<1>1. /\ e.gateway = g /\ e.status = f.status
      /\ e.from = f.from /\ e.to = f.to
  OBVIOUS
<1> HIDE DEF e
<1>2. ASSUME NEW r \in rows
      PROVE  Matches(e, r) <=> Matches(f, r) /\ r.kind.gateway = g
  <2>1. g \in {r.kind.gateway, Anything} <=> r.kind.gateway = g
    OBVIOUS
  <2>2. Anything \in {r.kind.gateway, Anything}
    OBVIOUS
  <2> QED
    BY <1>1, <2>1, <2>2 DEF Matches
<1>3. Select(e, rows) = OfGateway(g, Select(f, rows))
  BY <1>2 DEF Select, OfGateway
<1> QED
  BY <1>3 DEF e

LEMMA RowGateways ==
  ASSUME TypeOK, NEW r \in rows
  PROVE  r.kind.gateway # Anything /\ r.kind.tokens \in Int
<1>1. r.kind \in Kinds
  BY DEF TypeOK, Rows
<1> QED
  BY <1>1, ConstantsAssumption

LEMMA MetricsTell ==
  ASSUME TypeOK, TotalStands, GroupMetrics
  PROVE  GatewayViewsAgree'
<1> DEFINE f == call.f
           T == Select(f, rows)
           part == metricsByGateway(f, rows)
<1>1. /\ call \in Totals /\ rows' = rows
      /\ answer' = [op |-> "metrics", f |-> f, total |-> call.total,
                    byGateway |-> part, cut |-> call.cut, new |-> call.new]
  BY DEF GroupMetrics, TypeOK, Charts, Walks, Idle
<1>2. f \in Filters /\ call.total \in Sums /\ "gateway" \in DOMAIN f
  BY <1>1, ConstantsAssumption DEF Totals
<1> HIDE DEF f, part
<1>3. /\ answer'.op = "metrics" /\ answer'.f = f /\ answer'.total = call.total
      /\ answer'.byGateway = part /\ answer'.cut = call.cut
      /\ answer'.new = call.new
  BY <1>1
<1>4. ASSUME f.gateway = Anything, NEW g \in DOMAIN part
      PROVE  part[g] = Aggregate(Select([f EXCEPT !.gateway = g], rows))
  <2>1. part = [h \in {r.kind.gateway : r \in T} |-> Aggregate(OfGateway(h, T))]
    BY DEF part, metricsByGateway, OfGateway
  <2>2. g \in {r.kind.gateway : r \in T}
    BY <2>1
  <2>3. part[g] = Aggregate(OfGateway(g, T))
    BY <2>1, <2>2
  <2>4. g # Anything
    BY <2>2, RowGateways DEF Select
  <2>5. Select([f EXCEPT !.gateway = g], rows) = OfGateway(g, T)
    BY <1>2, <1>4, <2>4, OneGateway
  <2> QED
    BY <2>3, <2>5
<1>5. ASSUME call.new = {}, ~call.cut, NEW field \in DOMAIN call.total
      PROVE  call.total[field]
               = MapThenSumSet(LAMBDA g : part[g][field], DOMAIN part)
  <2>1. field \in Fields
    BY <1>2 DEF Sums, Aggregate, Fields
  <2>2. call.total = Aggregate(T)
    BY <1>5 DEF TotalStands, GroupMetrics, f
  <2>3. IsFiniteSet(T) /\ \A x \in rows : x.kind.tokens \in Int
    BY SelectionFinite, RowGateways
  <2>4. Aggregate(T)[field]
          = MapThenSumSet(LAMBDA g : part[g][field], DOMAIN part)
    BY <2>1, <2>3, GatewaysAddUp DEF part
  <2> QED
    BY <2>2, <2>4
<1>6. \A field \in DOMAIN call.total :
         call.new = {} /\ ~call.cut => call.total[field] = SumOfParts(part, field)
  BY <1>5 DEF SumOfParts
<1> QED
  BY <1>1, <1>3, <1>4, <1>6 DEF GatewayViewsAgree

LEMMA PulseTells ==
  ASSUME TypeOK, NEW e \in Filters, NEW asked \in Limits, AskPulse(e, asked)
  PROVE  GatewayViewsAgree'
<1> DEFINE f == [e EXCEPT !.gateway = Anything]
           n == Limit(asked)
           T == Select(f, rows)
           recent == RecentByGateway(f, rows, n)
<1>1. /\ answer' = [op |-> "pulse", f |-> f, n |-> n, recent |-> recent]
      /\ rows' = rows
  BY DEF AskPulse
<1>2. "gateway" \in DOMAIN f /\ f.gateway = Anything
  BY ConstantsAssumption
<1>3. n \in Nat
  BY LimitType, ConstantsAssumption
<1> HIDE DEF f, n, recent
<1>4. /\ answer'.op = "pulse" /\ answer'.f = f /\ answer'.n = n
      /\ answer'.recent = recent
  BY <1>1
<1>5. ASSUME NEW g \in {k.gateway : k \in Kinds}
      PROVE  Page([f EXCEPT !.gateway = g], rows, n, 0)
               = IF g \in DOMAIN recent THEN recent[g] ELSE {}
  <2> DEFINE P == OfGateway(g, T)
             partition(r) == {x \in T : x.kind.gateway = r.kind.gateway}
             all == {r \in T : Cardinality(Newer(r, partition(r))) + 1 <= n}
  <2>1. g # Anything
    BY ConstantsAssumption
  <2>2. Select([f EXCEPT !.gateway = g], rows) = P
    BY <1>2, <2>1, OneGateway
  <2>3. Page([f EXCEPT !.gateway = g], rows, n, 0)
          = {r \in P : Cardinality(Newer(r, P)) \in 0..0 + n - 1}
    <3> HIDE DEF P
    <3> QED
      BY <2>2 DEF Page
  <2>4. recent = [h \in {r.kind.gateway : r \in all}
                    |-> {r \in all : r.kind.gateway = h}]
    BY DEF recent, RecentByGateway
  <2>5. ASSUME NEW r \in P
        PROVE  r \in all <=> Cardinality(Newer(r, P)) \in 0..0 + n - 1
    <3>1. partition(r) = P /\ r \in T
      BY DEF OfGateway
    <3>2. IsFiniteSet(P)
      BY SelectionFinite, FS_Subset DEF OfGateway
    <3>3. Cardinality(Newer(r, P)) \in Nat
      BY <3>2, PlaceNat DEF Place
    <3>4. r \in all <=> Cardinality(Newer(r, P)) + 1 <= n
      <4> HIDE DEF P
      <4> QED
        BY <3>1
    <3> QED
      BY <1>3, <3>3, <3>4
  <2>6. {r \in all : r.kind.gateway = g} = {r \in P : r \in all}
    BY DEF OfGateway
  <2>7. Page([f EXCEPT !.gateway = g], rows, n, 0) = {r \in all : r.kind.gateway = g}
    <3> HIDE DEF P, all
    <3> QED
      BY <2>3, <2>5, <2>6
  <2>8. CASE g \in DOMAIN recent
    <3>1. recent[g] = {r \in all : r.kind.gateway = g}
      <4> HIDE DEF all
      <4> QED
        BY <2>4, <2>8
    <3> QED
      BY <2>7, <2>8, <3>1
  <2>9. CASE g \notin DOMAIN recent
    <3>1. g \notin {r.kind.gateway : r \in all}
      <4> HIDE DEF all
      <4> QED
        BY <2>4, <2>9
    <3>2. {r \in all : r.kind.gateway = g} = {}
      <4> HIDE DEF all
      <4> QED
        BY <3>1
    <3> QED
      BY <2>7, <2>9, <3>2
  <2> QED
    BY <2>8, <2>9
<1> QED
  BY <1>1, <1>4, <1>5 DEF GatewayViewsAgree

\* What the last step answered is right.
AnswersTell == SeriesCountsEveryRow /\ GatewayViewsAgree

LEMMA TotalDelete ==
  ASSUME TypeOK, TotalStands, NEW before, Delete(before)
  PROVE  TotalStands'
<1>1. SUFFICES ASSUME call'.op = "metrics", call'.new = {}, ~call'.cut
               PROVE  call'.total = Aggregate(Select(call'.f, rows'))
  BY DEF TotalStands
<1>2. call \in Totals /\ call # Idle
  BY <1>1 DEF TypeOK, Charts, Walks, Totals, Idle, Delete
<1>3. /\ call'.f = call.f /\ call'.total = call.total
      /\ call'.new = call.new \cap rows'
      /\ rows' # rows => call'.cut
  BY <1>2 DEF Delete, Totals
<1>4. rows' = rows
  BY <1>1, <1>3
<1>5. call.new = {}
  BY <1>1, <1>3, <1>4 DEF TypeOK
<1>6. ~call.cut
  <2>1. call' = [call EXCEPT !.new = call'.new, !.cut = call.cut]
    BY <1>2, <1>4 DEF Delete, Totals
  <2> QED
    BY <1>1, <1>2, <2>1 DEF Totals
<1> QED
  BY <1>2, <1>3, <1>4, <1>5, <1>6 DEF TotalStands, Totals

LEMMA TotalInsert ==
  ASSUME TypeOK, NEW r \in Rows, Insert(r)
  PROVE  TotalStands'
<1>1. SUFFICES ASSUME call'.op = "metrics", call'.new = {} PROVE FALSE
  BY DEF TotalStands
<1>2. call \in Totals /\ call # Idle
  BY <1>1 DEF TypeOK, Charts, Walks, Totals, Idle, Insert
<1> QED
  BY <1>1, <1>2 DEF Insert, Totals

\* The invariant of the calls that take more than one statement.
QueryInv == TypeOK /\ InWindow /\ TotalStands

LEMMA AskKeeps ==
  ASSUME QueryInv, Ask
  PROVE  InWindow' /\ TotalStands' /\ AnswersTell'
<1> USE DEF QueryInv
<1>1. ASSUME NEW f \in Filters, AskMetrics(f)
      PROVE  InWindow' /\ TotalStands' /\ AnswersTell'
  <2>1. CASE f.gateway # Anything
    <3>1. /\ call' = Idle
          /\ answer'.op = "metrics" /\ answer'.f = f
      BY <1>1, <2>1 DEF AskMetrics
    <3> QED
      BY <2>1, <3>1 DEF InWindow, TotalStands, AnswersTell, SeriesCountsEveryRow,
                        GatewayViewsAgree, Idle
  <2>2. CASE f.gateway = Anything
    <3> DEFINE total == Aggregate(Select(f, rows))
    <3>1. /\ call' = [op |-> "metrics", f |-> f, total |-> total,
                      new |-> {}, cut |-> FALSE]
          /\ answer' = None /\ rows' = rows
      BY <1>1, <2>2 DEF AskMetrics
    <3>2. AnswersTell'
      BY <3>1 DEF AnswersTell, SeriesCountsEveryRow,
                                   GatewayViewsAgree, None
    <3> HIDE DEF total
    <3>3. call'.op = "metrics" /\ call'.f = f /\ call'.total = total
      BY <3>1
    <3>4. TotalStands'
      BY <3>1, <3>3 DEF TotalStands, total
    <3> QED
      BY <3>2, <3>3, <3>4 DEF InWindow
  <2> QED
    BY <2>1, <2>2
<1>2. ASSUME NEW f \in Filters, NEW asked \in Limits, AskLogs(f, asked)
      PROVE  InWindow' /\ TotalStands' /\ AnswersTell'
  BY <1>2 DEF AskLogs, InWindow, TotalStands, AnswersTell, SeriesCountsEveryRow,
              GatewayViewsAgree, None
<1>3. ASSUME NEW f \in Filters, NEW asked \in Limits, AskPulse(f, asked)
      PROVE  InWindow' /\ TotalStands' /\ AnswersTell'
  <2>1. call' = call /\ call = Idle /\ answer'.op = "pulse"
    BY <1>3 DEF AskPulse
  <2>2. GatewayViewsAgree'
    BY <1>3, PulseTells
  <2> QED
    BY <2>1, <2>2 DEF InWindow, TotalStands, AnswersTell, SeriesCountsEveryRow, Idle
<1>4. ASSUME NEW f \in Filters, NEW asked \in Limits, AskTimeSeries(f, asked)
      PROVE  InWindow' /\ TotalStands' /\ AnswersTell'
  <2>1. call'.op = "series" /\ answer' = None
    BY <1>4 DEF AskTimeSeries
  <2>2. InWindow'
    BY <1>4, WindowAsk
  <2> QED
    BY <2>1, <2>2 DEF TotalStands, AnswersTell, SeriesCountsEveryRow,
                      GatewayViewsAgree, None
<1> QED
  BY <1>1, <1>2, <1>3, <1>4 DEF Ask

LEMMA QueryStep ==
  QueryInv /\ AnswersTell /\ [Next]_vars => InWindow' /\ TotalStands' /\ AnswersTell'
<1> SUFFICES ASSUME QueryInv, AnswersTell, [Next]_vars
             PROVE  InWindow' /\ TotalStands' /\ AnswersTell'
  OBVIOUS
<1>1. ASSUME answer' = None PROVE AnswersTell'
  BY <1>1 DEF AnswersTell, SeriesCountsEveryRow, GatewayViewsAgree, None
<1>2. CASE Tick
  BY <1>1, <1>2 DEF Tick, QueryInv, InWindow, TotalStands
<1>3. ASSUME NEW r \in Rows, Insert(r)
      PROVE  InWindow' /\ TotalStands' /\ AnswersTell'
  BY <1>1, <1>3, WindowInsert, TotalInsert DEF QueryInv, Insert
<1>4. ASSUME NEW before, Delete(before)
      PROVE  InWindow' /\ TotalStands' /\ AnswersTell'
  BY <1>1, <1>4, WindowDelete, TotalDelete DEF QueryInv, Delete
<1>5. CASE PruneOlderThan \/ deleteLogs
  BY <1>4, <1>5 DEF PruneOlderThan, deleteLogs
<1>6. CASE Ask
  BY <1>6, AskKeeps
<1>7. CASE ListPage
  <2>1. call'.op = "walk" /\ answer' = None
    BY <1>7 DEF ListPage, QueryInv, TypeOK, Walks, Totals, Charts, Idle
  <2> QED
    BY <1>1, <2>1 DEF InWindow, TotalStands
<1>8. CASE CountRows
  <2>1. call'.op \in {"walk", "idle"} /\ answer'.op = "logs"
    BY <1>8 DEF CountRows, QueryInv, TypeOK, Walks, Totals, Charts, Idle
  <2> QED
    BY <2>1 DEF InWindow, TotalStands, AnswersTell, SeriesCountsEveryRow,
                GatewayViewsAgree
<1>9. CASE GroupMetrics
  <2>1. call' = Idle /\ answer'.op = "metrics"
    BY <1>9 DEF GroupMetrics
  <2>2. GatewayViewsAgree'
    BY <1>9, MetricsTell DEF QueryInv
  <2> QED
    BY <2>1, <2>2 DEF InWindow, TotalStands, AnswersTell, SeriesCountsEveryRow, Idle
<1>10. CASE EarliestRow
  <2>1. call'.op = "series" /\ answer' = None
    BY <1>10 DEF EarliestRow, QueryInv, TypeOK, Walks, Totals, Charts, Idle
  <2>2. InWindow'
    BY <1>10, WindowEarliest DEF QueryInv
  <2> QED
    BY <1>1, <2>1, <2>2 DEF TotalStands
<1>11. CASE GroupTimeSeries
  <2>1. call' = Idle /\ answer'.op = "series"
    BY <1>11 DEF GroupTimeSeries
  <2>2. SeriesCountsEveryRow'
    BY <1>11, SeriesTells DEF QueryInv
  <2> QED
    BY <2>1, <2>2 DEF InWindow, TotalStands, AnswersTell, GatewayViewsAgree, Idle
<1>12. CASE UNCHANGED vars
  BY <1>12 DEF vars, QueryInv, InWindow, TotalStands, AnswersTell,
               SeriesCountsEveryRow, GatewayViewsAgree, LeftOut, Covers
<1> QED
  BY <1>2, <1>3, <1>5, <1>6, <1>7, <1>8, <1>9, <1>10, <1>11, <1>12 DEF Next

LEMMA QueriesTell == Spec => [](InWindow /\ TotalStands /\ AnswersTell)
<1>1. Init => InWindow /\ TotalStands /\ AnswersTell
  BY DEF Init, InWindow, TotalStands, AnswersTell, SeriesCountsEveryRow,
         GatewayViewsAgree, Idle, None
<1>2. TypeOK /\ InWindow /\ TotalStands /\ AnswersTell /\ [Next]_vars
        => (InWindow /\ TotalStands /\ AnswersTell)'
  BY QueryStep, Zenon DEF QueryInv
<1> QED
  BY <1>1, <1>2, LogTypes, PTL DEF Spec

(***************************************************************************)
(* For every table, filter, window and number of buckets: each selected    *)
(* row that was there is counted in the one bucket that covers its second, *)
(* and there is at most one bucket more than was asked for                 *)
(* (storage_timeseries.go:44-69, 81-92, 113-121).                          *)
(***************************************************************************)
THEOREM ChartIsComplete == Spec => []SeriesCountsEveryRow
<1>1. InWindow /\ TotalStands /\ AnswersTell => SeriesCountsEveryRow
  BY DEF AnswersTell
<1> QED
  BY <1>1, QueriesTell, PTL

(***************************************************************************)
(* For every table and filter: what is shown of a gateway is what the      *)
(* same question about it alone would show, and the gateways add up to     *)
(* the totals unless the table changed between the two statements          *)
(* (storage.go:194-220, 249-272, 316-351).                                 *)
(***************************************************************************)
THEOREM GatewaysAddToTotals == Spec => []GatewayViewsAgree
<1>1. InWindow /\ TotalStands /\ AnswersTell => GatewayViewsAgree
  BY DEF AnswersTell
<1> QED
  BY <1>1, QueriesTell, PTL
===============================================================================
