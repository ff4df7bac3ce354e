------------------------- MODULE BodyAdmissionProofs --------------------------
(***************************************************************************)
(* Proofs about BodyAdmission for any number of slots and any budget.      *)
(***************************************************************************)
EXTENDS BodyAdmission, TLAPS

(***************************************************************************)
(* A body is charged between one byte and the largest body.                *)
(***************************************************************************)
LEMMA ChargeBounds ==
  ASSUME NEW l \in Lengths
  PROVE  chargeForBody(l) \in 0..MaxBody
BY AdmissionAssumption DEF chargeForBody

(***************************************************************************)
(* A step that changes neither b.free nor what any request holds keeps the *)
(* ledger balanced.                                                        *)
(***************************************************************************)
LEMMA LedgerFrame ==
  ASSUME Ledger, free' = free, \A q \in Requests : Held(q)' = Held(q)
  PROVE  Ledger'
<1>1. PICK s \in [0..N -> 0..Budget] :
             IsRunningTotal(s) /\ Ascending(s) /\ free + s[N] = Budget
  BY DEF Ledger
<1>2. IsRunningTotal(s)'
  BY <1>1 DEF IsRunningTotal
<1>3. Ascending(s)'
  BY <1>1 DEF Ascending
<1>4. free' + s[N] = Budget
  BY <1>1
<1> QED
  BY <1>2, <1>3, <1>4 DEF Ledger

(***************************************************************************)
(* Granting r moves its charge from b.free to every total from r onwards.  *)
(***************************************************************************)
LEMMA LedgerGrant ==
  ASSUME NEW r \in Requests, TypeOK, Ledger,
         Held(r) = 0, Held(r)' = charge[r], free >= charge[r],
         free' = free - charge[r],
         \A q \in Requests : q # r => Held(q)' = Held(q)
  PROVE  Ledger'
<1>1. PICK s \in [0..N -> 0..Budget] :
             IsRunningTotal(s) /\ Ascending(s) /\ free + s[N] = Budget
  BY DEF Ledger
<1>n. PICK n \in Nat : n = charge[r]
  BY AdmissionAssumption DEF TypeOK
<1> DEFINE t == [i \in 0..N |-> IF i < r THEN s[i] ELSE s[i] + n]
<1>t. N \in Nat /\ Budget \in Nat /\ free \in Nat /\ n \in Nat /\ r \in Nat
  BY <1>n, AdmissionAssumption DEF TypeOK, Requests
<1>2. /\ N \in Nat /\ Budget \in Nat /\ free \in Nat /\ n \in Nat
      /\ n = charge[r]
      /\ r \in 1..N /\ N \in 0..N /\ 0 \in 0..N
  BY <1>1, <1>n, AdmissionAssumption DEF TypeOK, Requests
<1>b. \A i \in 0..N : s[i] \in Nat /\ s[i] <= s[N]
  BY <1>1, <1>2 DEF Ascending
<1>3. t \in [0..N -> 0..Budget]
  <2>1. s[N] \in Nat /\ s[N] + n <= Budget
    BY <1>1, <1>2, <1>b
  <2>2. ASSUME NEW i \in 0..N PROVE t[i] \in 0..Budget
    <3>1. s[i] \in Nat /\ s[i] <= s[N]
      BY <1>b
    <3>2. s[i] \in 0..Budget /\ s[i] + n \in 0..Budget
      BY <2>1, <3>1, <1>t
    <3> QED
      BY <3>2
  <2> QED
    BY <2>2
<1>4. IsRunningTotal(t)'
  <2>1. t[0] = 0
    BY <1>1, <1>2 DEF IsRunningTotal
  <2>2. ASSUME NEW q \in Requests PROVE t[q] = t[q - 1] + Held(q)'
    <3>1. q \in 1..N /\ q \in 0..N /\ q - 1 \in 0..N
      BY <1>2 DEF Requests
    <3>2. s[q] = s[q - 1] + Held(q)
      BY <1>1 DEF IsRunningTotal
    <3>3. CASE q < r
      BY <3>1, <3>2, <3>3, <1>2
    <3>4. CASE q = r
      BY <3>1, <3>2, <3>4, <1>2
    <3>5. CASE q > r
      <4>1. Held(q)' = Held(q)
        BY <3>5, <3>1, <1>2
      <4>2. Held(q) \in Int
        BY <1>2, TypeOK DEF Held, TypeOK, Requests
      <4> QED
        BY SMTT(30), <3>1, <3>2, <3>5, <4>1, <4>2, <1>2
    <3> QED
      BY <3>1, <3>3, <3>4, <3>5, <1>2
  <2> HIDE DEF t
  <2> QED
    BY <2>1, <2>2 DEF IsRunningTotal
<1>5. Ascending(t)'
  <2>1. ASSUME NEW i \in 0..N, NEW j \in 0..N, i <= j PROVE t[i] <= t[j]
    <3>1. s[i] <= s[j] /\ s[i] \in Nat /\ s[j] \in Nat
      BY <1>1, <1>2, <1>b, <2>1 DEF Ascending
    <3>2. t[i] = (IF i < r THEN s[i] ELSE s[i] + n)
      OBVIOUS
    <3>3. t[j] = (IF j < r THEN s[j] ELSE s[j] + n)
      OBVIOUS
    <3> HIDE DEF t
    <3> QED
      BY <3>1, <3>2, <3>3, <2>1, <1>t
  <2> HIDE DEF t
  <2> QED
    BY <2>1 DEF Ascending
<1>6. free' + t[N] = Budget
  BY <1>1, <1>2
<1> HIDE DEF t
<1> QED
  BY <1>3, <1>4, <1>5, <1>6 DEF Ledger

(***************************************************************************)
(* A release moves the charge of r back; every total from r onwards        *)
(* contains it, so none becomes negative.                                  *)
(***************************************************************************)
LEMMA LedgerRelease ==
  ASSUME NEW r \in Requests, TypeOK, Ledger,
         Held(r) = charge[r], Held(r)' = 0,
         free' = free + charge[r],
         \A q \in Requests : q # r => Held(q)' = Held(q)
  PROVE  Ledger'
<1>1. PICK s \in [0..N -> 0..Budget] :
             IsRunningTotal(s) /\ Ascending(s) /\ free + s[N] = Budget
  BY DEF Ledger
<1>n. PICK n \in Nat : n = charge[r]
  BY AdmissionAssumption DEF TypeOK
<1> DEFINE t == [i \in 0..N |-> IF i < r THEN s[i] ELSE s[i] - n]
<1>t. N \in Nat /\ Budget \in Nat /\ free \in Nat /\ n \in Nat /\ r \in Nat
  BY <1>n, AdmissionAssumption DEF TypeOK, Requests
<1>2. /\ N \in Nat /\ Budget \in Nat /\ free \in Nat /\ n \in Nat
      /\ n = charge[r]
      /\ r \in 1..N /\ N \in 0..N /\ 0 \in 0..N /\ r - 1 \in 0..N /\ r \in 0..N
  BY <1>1, <1>n, AdmissionAssumption DEF TypeOK, Requests
<1>b. \A i \in 0..N : s[i] \in Nat /\ s[i] <= Budget
  BY <1>1, <1>2
<1>3. s[r] = s[r - 1] + n
  BY <1>1, <1>n DEF IsRunningTotal
<1>4. \A i \in 0..N : i < r => s[i] <= s[r - 1]
  BY <1>1, <1>2 DEF Ascending
<1>5. \A i \in 0..N : r <= i => s[i] >= s[r - 1] + n
  BY <1>1, <1>2, <1>3 DEF Ascending
<1>6. t \in [0..N -> 0..Budget]
  <2>1. ASSUME NEW i \in 0..N PROVE t[i] \in 0..Budget
    <3>1. s[i] \in Nat /\ s[i] <= Budget /\ s[r - 1] \in Nat
      BY <1>2, <1>b
    <3>2. CASE i < r
      BY <3>1, <3>2, <1>2
    <3>3. CASE r <= i
      <4>1. s[i] >= s[r - 1] + n
        BY <3>3, <1>5
      <4>2. s[i] - n \in 0..Budget
        BY SMTT(30), <4>1, <3>1, <1>t
      <4>3. t[i] = s[i] - n
        BY <3>3, <1>2
      <4> QED
        BY <4>2, <4>3
    <3> QED
      BY <3>2, <3>3, <1>2
  <2> QED
    BY <2>1
<1>7. IsRunningTotal(t)'
  <2>1. t[0] = 0
    BY <1>1, <1>2 DEF IsRunningTotal
  <2>2. ASSUME NEW q \in Requests PROVE t[q] = t[q - 1] + Held(q)'
    <3>1. q \in 1..N /\ q \in 0..N /\ q - 1 \in 0..N
      BY <1>2 DEF Requests
    <3>2. s[q] = s[q - 1] + Held(q)
      BY <1>1 DEF IsRunningTotal
    <3>3. CASE q < r
      BY <3>1, <3>2, <3>3, <1>2
    <3>4. CASE q = r
      BY <3>1, <3>2, <3>4, <1>2
    <3>5. CASE q > r
      <4>1. Held(q)' = Held(q)
        BY <3>5, <3>1, <1>2
      <4>2. Held(q) \in Int
        BY <1>2, TypeOK DEF Held, TypeOK, Requests
      <4> QED
        BY SMTT(30), <3>1, <3>2, <3>5, <4>1, <4>2, <1>2
    <3> QED
      BY <3>1, <3>3, <3>4, <3>5, <1>2
  <2> HIDE DEF t
  <2> QED
    BY <2>1, <2>2 DEF IsRunningTotal
<1>8. Ascending(t)'
  <2>1. ASSUME NEW i \in 0..N, NEW j \in 0..N, i <= j PROVE t[i] <= t[j]
    <3>1. s[i] <= s[j] /\ s[i] \in Nat /\ s[j] \in Nat /\ s[r - 1] \in Nat
      BY <1>1, <1>2, <1>b, <2>1 DEF Ascending
    <3>2. t[i] = (IF i < r THEN s[i] ELSE s[i] - n)
      OBVIOUS
    <3>3. t[j] = (IF j < r THEN s[j] ELSE s[j] - n)
      OBVIOUS
    <3>4. i < r /\ ~(j < r) => s[i] <= s[r - 1] /\ s[j] >= s[r - 1] + n
      BY <1>2, <1>4, <1>5
    <3> HIDE DEF t
    <3> QED
      BY <3>1, <3>2, <3>3, <3>4, <2>1, <1>t
  <2> HIDE DEF t
  <2> QED
    BY <2>1 DEF Ascending
<1>9. free' + t[N] = Budget
  BY <1>1, <1>2
<1> HIDE DEF t
<1> QED
  BY <1>6, <1>7, <1>8, <1>9 DEF Ledger
-------------------------------------------------------------------------------
LEMMA InitInvariant == Init => IInv
<1> SUFFICES ASSUME Init PROVE IInv
  OBVIOUS
<1> USE AdmissionAssumption DEF Init
<1>1. TypeOK
  BY DEF TypeOK, PCs, FnStates
<1>2. MutexHeld /\ CallbacksArmed /\ NoLostWakeup
  BY DEF MutexHeld, CallbacksArmed, NoLostWakeup, Asking, Requests
<1>3. Ledger
  <2> DEFINE s == [i \in 0..N |-> 0]
  <2>1. s \in [0..N -> 0..Budget]
    OBVIOUS
  <2>2. \A r \in Requests : r \in 0..N /\ r - 1 \in 0..N
    BY DEF Requests
  <2>3. IsRunningTotal(s)
    BY <2>2 DEF IsRunningTotal, Held, Holding
  <2>4. Ascending(s)
    BY DEF Ascending
  <2>5. free + s[N] = Budget
    OBVIOUS
  <2> HIDE DEF s
  <2> QED
    BY <2>1, <2>3, <2>4, <2>5 DEF Ledger
<1> QED
  BY <1>1, <1>2, <1>3 DEF IInv

(***************************************************************************)
(* The ledger across each kind of step.                                    *)
(***************************************************************************)
LEMMA LedgerStep == ASSUME IInv, [Next]_vars PROVE Ledger'
<1> USE DEF IInv
<1> USE DEF Held, Holding
<1>1. ASSUME NEW r \in Requests, Arrive(r) PROVE Ledger'
  <2>1. \A q \in Requests : Held(q)' = Held(q)
    BY <1>1 DEF Arrive, TypeOK
  <2> QED
    BY <1>1, <2>1, LedgerFrame DEF Arrive
<1>2. ASSUME NEW r \in Requests, Grant(r) PROVE Ledger'
  <2>1. Held(r) = 0 /\ Held(r)' = charge[r]
    BY <1>2 DEF Grant, TypeOK
  <2>2. \A q \in Requests : q # r => Held(q)' = Held(q)
    BY <1>2 DEF Grant, TypeOK
  <2> QED
    BY <1>2, <2>1, <2>2, LedgerGrant DEF Grant
<1>3. ASSUME NEW r \in Requests, Release(r) PROVE Ledger'
  <2>1. Held(r) = charge[r] /\ Held(r)' = 0
    BY <1>3 DEF Release, Broadcast, TypeOK
  <2>2. \A q \in Requests : q # r => Held(q)' = Held(q)
    BY <1>3 DEF Release, Broadcast, TypeOK
  <2> QED
    BY <1>3, <2>1, <2>2, LedgerRelease DEF Release
<1>4. ASSUME NEW r \in Requests,
             \/ Watch(r) \/ Lock(r) \/ GiveUp(r) \/ DecideToWait(r)
             \/ Park(r) \/ Return(r)
      PROVE  Ledger'
  <2>1. free' = free /\ \A q \in Requests : Held(q)' = Held(q)
    BY <1>4 DEF Watch, Lock, GiveUp, DecideToWait, Park, Return, TypeOK
  <2> QED
    BY <2>1, LedgerFrame
<1>5. ASSUME NEW r \in Requests,
             \/ ClientGone(r) \/ CancelFires(r) \/ TimerFires(r)
             \/ \E c \in Callbacks : Bump(c, r)
      PROVE  Ledger'
  <2>1. free' = free /\ \A q \in Requests : Held(q)' = Held(q)
    BY <1>5 DEF ClientGone, CancelFires, TimerFires, Bump, Broadcast, TypeOK
  <2> QED
    BY <2>1, LedgerFrame
<1>6. CASE UNCHANGED vars
  BY <1>6, LedgerFrame DEF vars
<1> QED
  BY <1>1, <1>2, <1>3, <1>4, <1>5, <1>6 DEF Next, Handler

(***************************************************************************)
(* The bounds of b.free follow from the ledger, the rest action by action. *)
(***************************************************************************)
LEMMA TypeStep == ASSUME IInv, [Next]_vars PROVE TypeOK'
<1>0. free' \in Int => free' \in 0..Budget
  <2>1. PICK s \in [0..N -> 0..Budget] : free' + s[N] = Budget
    BY LedgerStep DEF Ledger
  <2>2. s[N] \in 0..Budget /\ Budget \in Nat
    BY AdmissionAssumption
  <2> QED
    BY <2>1, <2>2
<1> USE AdmissionAssumption DEF IInv, TypeOK, PCs, Asking, Holding, FnStates, Callbacks
<1>1. ASSUME NEW r \in Requests, Arrive(r) PROVE TypeOK'
  BY <1>1, ChargeBounds DEF Arrive
<1>2. ASSUME NEW r \in Requests, Handler(r) PROVE TypeOK'
  <2>1. CASE Watch(r)
    BY <2>1 DEF Watch
  <2>2. CASE Lock(r)
    BY <2>2 DEF Lock
  <2>3. CASE Grant(r)
    BY <2>3, <1>0 DEF Grant
  <2>4. CASE GiveUp(r) \/ DecideToWait(r) \/ Park(r)
    BY <2>4 DEF GiveUp, DecideToWait, Park
  <2>5. CASE Return(r)
    BY <2>5 DEF Return, StopCallbacks
  <2> QED
    BY <1>2, <2>1, <2>2, <2>3, <2>4, <2>5 DEF Handler
<1>3. ASSUME NEW r \in Requests, Release(r) PROVE TypeOK'
  BY <1>3, <1>0 DEF Release, Broadcast
<1>4. ASSUME NEW r \in Requests, ClientGone(r) \/ CancelFires(r) \/ TimerFires(r)
      PROVE  TypeOK'
  <2>1. CASE ClientGone(r)
    BY <2>1 DEF ClientGone
  <2>2. CASE CancelFires(r)
    BY <2>2 DEF CancelFires
  <2>3. CASE TimerFires(r)
    BY <2>3 DEF TimerFires
  <2> QED
    BY <1>4, <2>1, <2>2, <2>3
<1>5. ASSUME NEW r \in Requests, NEW c \in Callbacks, Bump(c, r) PROVE TypeOK'
  BY <1>5 DEF Bump, Broadcast
<1>6. CASE UNCHANGED vars
  BY <1>6 DEF vars
<1> QED
  BY <1>1, <1>2, <1>3, <1>4, <1>5, <1>6 DEF Next

LEMMA MutexStep == ASSUME IInv, [Next]_vars PROVE MutexHeld'
<1> USE AdmissionAssumption DEF IInv, TypeOK, MutexHeld, Requests
<1>1. ASSUME NEW r \in Requests, Arrive(r) \/ Handler(r) \/ Release(r)
      PROVE  MutexHeld'
  <2>1. CASE Arrive(r) \/ Watch(r) \/ Lock(r)
    BY SMTT(30), <2>1 DEF Arrive, Watch, Lock
  <2>2. CASE Grant(r) \/ GiveUp(r) \/ DecideToWait(r) \/ Park(r)
    BY SMTT(30), <2>2 DEF Grant, GiveUp, DecideToWait, Park
  <2>3. CASE Return(r) \/ Release(r)
    BY <2>3 DEF Return, Release, Broadcast
  <2> QED
    BY <1>1, <2>1, <2>2, <2>3 DEF Handler
<1>2. ASSUME NEW r \in Requests,
             \/ ClientGone(r) \/ CancelFires(r) \/ TimerFires(r)
             \/ \E c \in Callbacks : Bump(c, r)
      PROVE  MutexHeld'
  BY <1>2 DEF ClientGone, CancelFires, TimerFires, Bump, Broadcast
<1>3. CASE UNCHANGED vars
  BY <1>3 DEF vars
<1> QED
  BY <1>1, <1>2, <1>3 DEF Next

(***************************************************************************)
(* Both wake-up conjuncts, action by action. The two steps that could lose *)
(* a wake-up, DecideToWait before Park and a callback's broadcast, cannot  *)
(* overlap: one happens with b.mu held, the other needs it free.           *)
(***************************************************************************)
LEMMA WakeupStep ==
  ASSUME IInv, [Next]_vars PROVE CallbacksArmed' /\ NoLostWakeup'
<1> USE AdmissionAssumption
    DEF IInv, TypeOK, CallbacksArmed, NoLostWakeup, Asking, Callbacks
<1> DEFINE Goal == CallbacksArmed' /\ NoLostWakeup'
<1>1. ASSUME NEW r \in Requests, Arrive(r) PROVE Goal
  BY <1>1 DEF Arrive
<1>2. ASSUME NEW r \in Requests, Watch(r) PROVE Goal
  BY <1>2 DEF Watch
<1>3. ASSUME NEW r \in Requests, Lock(r) PROVE Goal
  BY <1>3 DEF Lock
<1>4. ASSUME NEW r \in Requests, Grant(r) PROVE Goal
  BY <1>4 DEF Grant
<1>5. ASSUME NEW r \in Requests, GiveUp(r) \/ DecideToWait(r) \/ Park(r)
      PROVE  Goal
  BY <1>5 DEF GiveUp, DecideToWait, Park
<1>6. ASSUME NEW r \in Requests, Return(r) PROVE Goal
  BY <1>6 DEF Return, StopCallbacks
<1>7. ASSUME NEW r \in Requests, Release(r) PROVE Goal
  <2>1. \A q \in Requests : pc'[q] \notin {"park", "asleep"}
    BY <1>7 DEF Release, Broadcast, MutexHeld, Requests
  <2>2. CallbacksArmed'
    BY <1>7 DEF Release, Broadcast
  <2> QED
    BY <2>1, <2>2
<1>8. ASSUME NEW r \in Requests, ClientGone(r) \/ CancelFires(r) \/ TimerFires(r)
      PROVE  Goal
  BY <1>8 DEF ClientGone, CancelFires, TimerFires
<1>9. ASSUME NEW r \in Requests, NEW c \in Callbacks, Bump(c, r) PROVE Goal
  <2>1. \A q \in Requests : pc'[q] \notin {"park", "asleep"}
    BY <1>9 DEF Bump, Broadcast, MutexHeld, Requests
  <2>2. CallbacksArmed'
    BY <1>9 DEF Bump, Broadcast
  <2> QED
    BY <2>1, <2>2
<1>10. CASE UNCHANGED vars
  BY <1>10 DEF vars
<1> QED
  BY <1>1, <1>2, <1>3, <1>4, <1>5, <1>6, <1>7, <1>8, <1>9, <1>10 DEF Next, Handler

(***************************************************************************)
(* The inductive invariant holds in every reachable state.                 *)
(***************************************************************************)
THEOREM Invariance == SafetySpec => []IInv
<1>1. IInv /\ [Next]_vars => IInv'
  BY LedgerStep, TypeStep, MutexStep, WakeupStep DEF IInv
<1> QED
  BY InitInvariant, <1>1, PTL DEF SafetySpec

(***************************************************************************)
(* b.free and the charges stay within their bounds, for any number of      *)
(* requests and any budget.                                                *)
(***************************************************************************)
THEOREM TypeCorrectness == SafetySpec => []TypeOK
<1>1. IInv => TypeOK
  BY DEF IInv
<1> QED
  BY Invariance, <1>1, PTL

(***************************************************************************)
(* No byte of the body budget is lost or minted.                           *)
(***************************************************************************)
THEOREM Conservation == SafetySpec => []BudgetConserved
<1>1. IInv => BudgetConserved
  BY DEF IInv, Ledger, BudgetConserved
<1> QED
  BY Invariance, <1>1, PTL

(***************************************************************************)
(* A waiter that could go on, or should give up, is never left asleep      *)
(* without a broadcast on its way.                                         *)
(***************************************************************************)
THEOREM WakeupSafety == SafetySpec => []NoLostWakeup
<1>1. IInv => NoLostWakeup
  BY DEF IInv
<1> QED
  BY Invariance, <1>1, PTL
-------------------------------------------------------------------------------
LEMMA Phases ==
  ASSUME NEW p
  PROVE  /\ p \in Asking => PhaseOf(p) = "asking"
         /\ p \in Holding => PhaseOf(p) = "holding"
         /\ p \in {"idle", "refused"} => PhaseOf(p) = "out"
BY DEF PhaseOf, Asking, Holding

(***************************************************************************)
(* A step that changes nothing BodyBudget sees.                            *)
(***************************************************************************)
LEMMA AbstractStutter ==
  ASSUME free' = free, charge' = charge,
         \A q \in Requests : PhaseOf(pc'[q]) = PhaseOf(pc[q]) /\ Overdue(q)' = Overdue(q)
  PROVE  UNCHANGED Abstract!budgetVars
BY DEF Abstract!budgetVars

LEMMA StepRefines == ASSUME IInv, [Next]_vars PROVE [Abstract!Next]_(Abstract!budgetVars)
<1> DEFINE Goal == [Abstract!Next]_(Abstract!budgetVars)
<1> USE AdmissionAssumption DEF IInv, TypeOK
<1>1. ASSUME NEW r \in Requests, Arrive(r) PROVE Abstract!Ask(r)
  <2>1. PICK l \in Lengths : charge' = [charge EXCEPT ![r] = chargeForBody(l)]
    BY <1>1 DEF Arrive
  <2>2. Abstract!chargeForBody(l) = chargeForBody(l)
    BY DEF chargeForBody, Abstract!chargeForBody
  <2>3. charge' \in {[charge EXCEPT ![r] = n] : n \in Abstract!Charges}
    BY <2>1, <2>2 DEF Abstract!Charges
  <2>4. PhaseOf(pc[r]) = "out" /\ PhaseOf(pc'[r]) = "asking"
    BY <1>1, Phases DEF Arrive, Asking
  <2>5. \A q \in Requests : q # r => pc'[q] = pc[q]
    BY <1>1 DEF Arrive
  <2>6. [q \in Requests |-> PhaseOf(pc'[q])]
          = [[q \in Requests |-> PhaseOf(pc[q])] EXCEPT ![r] = "asking"]
    BY <2>4, <2>5
  <2>7. \A q \in Requests : Overdue(q)' = Overdue(q)
    BY <1>1 DEF Arrive, Overdue, Asking
  <2> QED
    BY <1>1, <2>3, <2>4, <2>6, <2>7 DEF Arrive, Abstract!Ask
<1>2. ASSUME NEW r \in Requests, Grant(r) PROVE Abstract!Grant(r)
  <2>1. PhaseOf(pc[r]) = "asking" /\ PhaseOf(pc'[r]) = "holding"
    BY <1>2, Phases DEF Grant, Asking, Holding
  <2>2. \A q \in Requests : q # r => pc'[q] = pc[q]
    BY <1>2 DEF Grant
  <2>3. [q \in Requests |-> PhaseOf(pc'[q])]
          = [[q \in Requests |-> PhaseOf(pc[q])] EXCEPT ![r] = "holding"]
    BY <2>1, <2>2
  <2>4. [q \in Requests |-> Overdue(q)]'
          = [[q \in Requests |-> Overdue(q)] EXCEPT ![r] = FALSE]
    BY <1>2 DEF Grant, Overdue, Asking
  <2>5. charge[r] <= free
    BY <1>2 DEF Grant
  <2> QED
    BY <1>2, <2>1, <2>3, <2>4, <2>5 DEF Grant, Abstract!Grant
<1>3. ASSUME NEW r \in Requests, GiveUp(r) PROVE Abstract!Refuse(r)
  <2>1. PhaseOf(pc[r]) = "asking" /\ PhaseOf(pc'[r]) = "out"
    BY <1>3, Phases DEF GiveUp, Asking
  <2>2. \A q \in Requests : q # r => pc'[q] = pc[q]
    BY <1>3 DEF GiveUp
  <2>3. [q \in Requests |-> PhaseOf(pc'[q])]
          = [[q \in Requests |-> PhaseOf(pc[q])] EXCEPT ![r] = "out"]
    BY <2>1, <2>2
  <2>4. [q \in Requests |-> Overdue(q)]'
          = [[q \in Requests |-> Overdue(q)] EXCEPT ![r] = FALSE]
    BY <1>3 DEF GiveUp, Overdue, Asking
  <2>5. Overdue(r)
    BY <1>3 DEF GiveUp, Overdue, Asking
  <2> QED
    BY <1>3, <2>1, <2>3, <2>4, <2>5 DEF GiveUp, Abstract!Refuse
<1>4. ASSUME NEW r \in Requests, Release(r) PROVE Abstract!GiveBack(r)
  <2>1. PhaseOf(pc[r]) = "holding" /\ PhaseOf(pc'[r]) = "out"
    BY <1>4, Phases DEF Release, Broadcast, Holding
  <2>2. \A q \in Requests : q # r => PhaseOf(pc'[q]) = PhaseOf(pc[q])
    BY <1>4, Phases DEF Release, Broadcast, Asking
  <2>3. [q \in Requests |-> PhaseOf(pc'[q])]
          = [[q \in Requests |-> PhaseOf(pc[q])] EXCEPT ![r] = "out"]
    BY <2>1, <2>2
  <2>4. \A q \in Requests : Overdue(q)' = Overdue(q)
    BY <1>4 DEF Release, Broadcast, Overdue, Asking
  <2> QED
    BY <1>4, <2>1, <2>3, <2>4 DEF Release, Abstract!GiveBack
<1>5. ASSUME NEW r \in Requests, Watch(r) \/ Lock(r) \/ DecideToWait(r) \/ Park(r) \/ Return(r)
      PROVE  Goal
  <2>1. free' = free /\ charge' = charge
    BY <1>5 DEF Watch, Lock, DecideToWait, Park, Return
  <2>2. \A q \in Requests : PhaseOf(pc'[q]) = PhaseOf(pc[q])
    BY <1>5, Phases DEF Watch, Lock, DecideToWait, Park, Return, Asking, Holding
  <2>3. \A q \in Requests : Overdue(q)' = Overdue(q)
    BY <1>5 DEF Watch, Lock, DecideToWait, Park, Return, Overdue, Asking
  <2> QED
    BY <2>1, <2>2, <2>3, AbstractStutter
<1>6. ASSUME NEW r \in Requests, CancelFires(r) \/ \E c \in Callbacks : Bump(c, r)
      PROVE  Goal
  <2>1. free' = free /\ charge' = charge
    BY <1>6 DEF Bump, CancelFires
  <2>2. \A q \in Requests : PhaseOf(pc'[q]) = PhaseOf(pc[q])
    BY <1>6, Phases DEF Bump, CancelFires, Broadcast, Asking
  <2>3. \A q \in Requests : Overdue(q)' = Overdue(q)
    BY <1>6 DEF Bump, CancelFires, Broadcast, Overdue, Asking
  <2> QED
    BY <2>1, <2>2, <2>3, AbstractStutter
<1>7. ASSUME NEW r \in Requests, ClientGone(r) \/ TimerFires(r) PROVE Goal
  <2>1. free' = free /\ charge' = charge /\ pc' = pc
    BY <1>7 DEF ClientGone, TimerFires
  <2>2. CASE pc[r] \in Asking
    <3>1. [q \in Requests |-> Overdue(q)]'
            = [[q \in Requests |-> Overdue(q)] EXCEPT ![r] = TRUE]
      BY <1>7, <2>2 DEF ClientGone, TimerFires, Overdue
    <3>2. PhaseOf(pc[r]) = "asking"
      BY <2>2, Phases
    <3> QED
      BY <2>1, <3>1, <3>2 DEF Abstract!Next, Abstract!BecomeOverdue
  <2>3. CASE pc[r] \notin Asking
    <3>1. \A q \in Requests : Overdue(q)' = Overdue(q)
      BY <1>7, <2>3 DEF ClientGone, TimerFires, Overdue
    <3> QED
      BY <2>1, <3>1, AbstractStutter
  <2> QED
    BY <2>2, <2>3
<1>8. CASE UNCHANGED vars
  BY <1>8, AbstractStutter DEF vars, Overdue
<1>9. ASSUME NEW r \in Requests,
             \/ Abstract!Ask(r) \/ Abstract!Grant(r)
             \/ Abstract!Refuse(r) \/ Abstract!GiveBack(r)
      PROVE  Goal
  BY <1>9 DEF Abstract!Next
<1>10. ASSUME NEW r \in Requests, Arrive(r) \/ Grant(r) \/ GiveUp(r) \/ Release(r)
       PROVE  Goal
  <2> HIDE DEF Goal
  <2> QED
    BY <1>1, <1>2, <1>3, <1>4, <1>9, <1>10
<1> HIDE DEF Goal
<1>11. ASSUME Next PROVE Goal
  <2>1. PICK r \in Requests :
              \/ Arrive(r) \/ Handler(r) \/ Release(r)
              \/ ClientGone(r) \/ CancelFires(r) \/ TimerFires(r)
              \/ \E c \in Callbacks : Bump(c, r)
    BY <1>11, Zenon DEF Next
  <2>2. CASE Handler(r)
    BY <2>2, <1>5, <1>10 DEF Handler
  <2> QED
    BY <2>1, <2>2, <1>6, <1>7, <1>10
<1> QED
  BY <1>8, <1>11 DEF Goal

(***************************************************************************)
(* reserve and release, with their mutex, sleeping and callbacks, do       *)
(* nothing that an atomic budget would not: the safety part of             *)
(* ImplementsBudget, for every N, budget and set of lengths.               *)
(***************************************************************************)
THEOREM Refinement == SafetySpec => Abstract!SafetySpec
<1>1. Init => Abstract!Init
  BY Phases DEF Init, Abstract!Init, Overdue, Asking
<1>2. IInv /\ [Next]_vars => [Abstract!Next]_(Abstract!budgetVars)
  BY StepRefines
<1> QED
  BY Invariance, <1>1, <1>2, PTL DEF SafetySpec, Abstract!SafetySpec
===============================================================================
