---------------------------- MODULE BodyAdmission -----------------------------
(***************************************************************************)
(* The body-budget monitor of internal/proxy/admission.go: one mutex, one  *)
(* condition variable, and per waiting request two callbacks that may wake *)
(* it, the context's AfterFunc and the 30 s timer. A step of this module   *)
(* is one critical section, except where the code does something between   *)
(* reading and sleeping that another goroutine can interleave with.        *)
(*                                                                         *)
(* Requests are 1..N so that the sum of what they hold can be stated by    *)
(* prefix sums. A slot is reused by one request after another.             *)
(***************************************************************************)
EXTENDS Integers

CONSTANTS N,         \* request slots
          Budget,    \* inFlightBodyBudget
          MaxBody,   \* maxBodyBytes
          Lengths,   \* Content-Length values of arriving requests
          NoOne      \* the mutex is free

Requests == 1..N
Callbacks == {"cancel", "timer"}

ASSUME AdmissionAssumption ==
  /\ N \in Nat
  /\ MaxBody \in Nat \ {0}
  /\ Budget \in Nat
  /\ MaxBody <= Budget
  /\ Lengths \subseteq Int
  /\ NoOne \notin Int

VARIABLES mu,       \* the handler inside b.mu, across steps
          free,     \* b.free
          pc,       \* where each handler is in admitBody / reserve / release
          charge,   \* the local of admitBody, captured by its release closure
          gone,     \* the request's context is done
          expired,  \* reserve's local atomic flag
          fn        \* the two callbacks of each reserve call

vars == <<mu, free, pc, charge, gone, expired, fn>>

(***************************************************************************)
(* "watch": about to register the callbacks; "lock": about to take b.mu,   *)
(* first time or on the way out of cond.Wait; "check": at the loop head,   *)
(* holding b.mu; "park": decided to wait, still holding b.mu; "asleep": on *)
(* the condition's notify list; "granted" and "refused": b.mu released,    *)
(* the deferred Stop calls outstanding.                                    *)
(***************************************************************************)
Asking == {"watch", "lock", "check", "park", "asleep"}
Holding == {"granted", "held"}
PCs == {"idle", "refused"} \cup Asking \cup Holding

(***************************************************************************)
(* A callback is "off" (not registered, stopped, or finished), "armed", or *)
(* "running": its goroutine has started and wants b.mu to broadcast.       *)
(***************************************************************************)
FnStates == {"off", "armed", "running"}

(***************************************************************************)
(* What BodyBudget sees of a request.                                      *)
(***************************************************************************)
PhaseOf(p) == CASE p \in Asking -> "asking"
                [] p \in Holding -> "holding"
                [] OTHER -> "out"

Overdue(r) == pc[r] \in Asking /\ (gone[r] \/ expired[r])

Abstract == INSTANCE BodyBudget WITH
  avail <- free,
  phase <- [r \in Requests |-> PhaseOf(pc[r])],
  size <- charge,
  overdue <- [r \in Requests |-> Overdue(r)]

(***************************************************************************)
(* An unknown length (-1, chunked) or none is charged as the largest body, *)
(* a declared one as declared, up to the largest.                          *)
(***************************************************************************)
\* Mutant of chargeForBody: a declared length is charged without the cap.
chargeForBodyUncapped(contentLength) ==
  IF contentLength <= 0 THEN MaxBody ELSE contentLength

chargeForBody(contentLength) ==
  IF contentLength \in 1..MaxBody THEN contentLength ELSE MaxBody

(***************************************************************************)
(* cond.Broadcast: everyone on the notify list goes back to locking b.mu.  *)
(***************************************************************************)
Broadcast(f) == [r \in Requests |-> IF f[r] = "asleep" THEN "lock" ELSE f[r]]

Init == /\ mu = NoOne
        /\ free = Budget
        /\ pc = [r \in Requests |-> "idle"]
        /\ charge = [r \in Requests |-> 0]
        /\ gone = [r \in Requests |-> FALSE]
        /\ expired = [r \in Requests |-> FALSE]
        /\ fn = [c \in Callbacks |-> [r \in Requests |-> "off"]]
-------------------------------------------------------------------------------
(***************************************************************************)
(* A request reaches admitBody. Callbacks of the slot's previous request   *)
(* that Stop came too late for have run out first: with more slots than    *)
(* requests that loses nothing.                                            *)
(***************************************************************************)
Arrive(r) ==
  /\ pc[r] = "idle"
  /\ \A c \in Callbacks : fn[c][r] = "off"
  /\ \E l \in Lengths : charge' = [charge EXCEPT ![r] = chargeForBody(l)]
  /\ pc' = [pc EXCEPT ![r] = "watch"]
  /\ gone' = [gone EXCEPT ![r] = FALSE]
  /\ expired' = [expired EXCEPT ![r] = FALSE]
  /\ UNCHANGED <<mu, free, fn>>

(***************************************************************************)
(* context.AfterFunc and time.AfterFunc.                                   *)
(***************************************************************************)
Watch(r) ==
  /\ pc[r] = "watch"
  /\ fn' = [c \in Callbacks |-> [fn[c] EXCEPT ![r] = "armed"]]
  /\ pc' = [pc EXCEPT ![r] = "lock"]
  /\ UNCHANGED <<mu, free, charge, gone, expired>>

Lock(r) ==
  /\ pc[r] = "lock"
  /\ mu = NoOne
  /\ mu' = r
  /\ pc' = [pc EXCEPT ![r] = "check"]
  /\ UNCHANGED <<free, charge, gone, expired, fn>>

(***************************************************************************)
(* The loop condition is read before the context and the flag: a charge    *)
(* that fits is granted even to a request that is overdue.                 *)
(***************************************************************************)
Grant(r) ==
  /\ pc[r] = "check"
  /\ free >= charge[r]
  /\ free' = free - charge[r]
  /\ mu' = NoOne
  /\ pc' = [pc EXCEPT ![r] = "granted"]
  /\ UNCHANGED <<charge, gone, expired, fn>>

\* Mutant of GiveUp: the context and the flag are looked at before the budget.
GiveUpUnchecked(r) ==
  /\ pc[r] = "check"
  /\ gone[r] \/ expired[r]
  /\ mu' = NoOne
  /\ pc' = [pc EXCEPT ![r] = "refused"]
  /\ UNCHANGED <<free, charge, gone, expired, fn>>

GiveUp(r) ==
  /\ pc[r] = "check"
  /\ free < charge[r]
  /\ gone[r] \/ expired[r]
  /\ mu' = NoOne
  /\ pc' = [pc EXCEPT ![r] = "refused"]
  /\ UNCHANGED <<free, charge, gone, expired, fn>>

DecideToWait(r) ==
  /\ pc[r] = "check"
  /\ free < charge[r]
  /\ ~gone[r] /\ ~expired[r]
  /\ pc' = [pc EXCEPT ![r] = "park"]
  /\ UNCHANGED <<mu, free, charge, gone, expired, fn>>

(***************************************************************************)
(* cond.Wait joins the notify list, then unlocks b.mu.                     *)
(***************************************************************************)
Park(r) ==
  /\ pc[r] = "park"
  /\ mu' = NoOne
  /\ pc' = [pc EXCEPT ![r] = "asleep"]
  /\ UNCHANGED <<free, charge, gone, expired, fn>>

(***************************************************************************)
(* The deferred timer.Stop and stopOnCancel of a returning reserve, and    *)
(* what admitBody makes of its result: a closure that gives the charge     *)
(* back, or one that does nothing.                                         *)
(***************************************************************************)
StopCallbacks(r) ==
  fn' = [c \in Callbacks |->
           [fn[c] EXCEPT ![r] = IF @ = "armed" THEN "off" ELSE @]]

\* Mutant of Return: a refused request gives back a charge it never took.
ReturnRefundingAll(r) ==
  /\ pc[r] \in {"granted", "refused"}
  /\ StopCallbacks(r)
  /\ pc' = [pc EXCEPT ![r] = IF @ = "granted" THEN "held" ELSE "idle"]
  /\ free' = IF pc[r] = "refused" THEN free + charge[r] ELSE free
  /\ UNCHANGED <<mu, charge, gone, expired>>

Return(r) ==
  /\ pc[r] \in {"granted", "refused"}
  /\ StopCallbacks(r)
  /\ pc' = [pc EXCEPT ![r] = IF @ = "granted" THEN "held" ELSE "idle"]
  /\ UNCHANGED <<mu, free, charge, gone, expired>>

(***************************************************************************)
(* release: one critical section that adds the charge and broadcasts.      *)
(***************************************************************************)
Release(r) ==
  /\ pc[r] = "held"
  /\ mu = NoOne
  /\ free' = free + charge[r]
  /\ pc' = Broadcast([pc EXCEPT ![r] = "idle"])
  /\ UNCHANGED <<mu, charge, gone, expired, fn>>

Handler(r) == \/ Watch(r)
              \/ Lock(r)
              \/ Grant(r)
              \/ GiveUp(r)
              \/ DecideToWait(r)
              \/ Park(r)
              \/ Return(r)
-------------------------------------------------------------------------------
(***************************************************************************)
(* The client disconnects while its request is being admitted.             *)
(***************************************************************************)
ClientGone(r) ==
  /\ pc[r] \in Asking
  /\ ~gone[r]
  /\ gone' = [gone EXCEPT ![r] = TRUE]
  /\ UNCHANGED <<mu, free, pc, charge, expired, fn>>

(***************************************************************************)
(* The context package starts the AfterFunc's goroutine, at once when the  *)
(* context was already done at registration.                               *)
(***************************************************************************)
CancelFires(r) ==
  /\ fn["cancel"][r] = "armed"
  /\ gone[r]
  /\ fn' = [fn EXCEPT !["cancel"][r] = "running"]
  /\ UNCHANGED <<mu, free, pc, charge, gone, expired>>

(***************************************************************************)
(* The timer fires: the flag is stored, outside b.mu, before the bump.     *)
(***************************************************************************)
\* Mutant of TimerFires: the timer wakes the waiter without storing the flag.
TimerFiresUnflagged(r) ==
  /\ fn["timer"][r] = "armed"
  /\ fn' = [fn EXCEPT !["timer"][r] = "running"]
  /\ UNCHANGED <<mu, free, pc, charge, gone, expired>>

TimerFires(r) ==
  /\ fn["timer"][r] = "armed"
  /\ expired' = [expired EXCEPT ![r] = TRUE]
  /\ fn' = [fn EXCEPT !["timer"][r] = "running"]
  /\ UNCHANGED <<mu, free, pc, charge, gone>>

(***************************************************************************)
(* bump: lock, broadcast, unlock. It may come after reserve has returned.  *)
(***************************************************************************)
\* Mutant of Bump: the broadcast without the mutex.
BumpUnlocked(c, r) ==
  /\ fn[c][r] = "running"
  /\ fn' = [fn EXCEPT ![c][r] = "off"]
  /\ pc' = Broadcast(pc)
  /\ UNCHANGED <<mu, free, charge, gone, expired>>

Bump(c, r) ==
  /\ fn[c][r] = "running"
  /\ mu = NoOne
  /\ fn' = [fn EXCEPT ![c][r] = "off"]
  /\ pc' = Broadcast(pc)
  /\ UNCHANGED <<mu, free, charge, gone, expired>>

Next == \E r \in Requests :
          \/ Arrive(r)
          \/ Handler(r)
          \/ Release(r)
          \/ ClientGone(r)
          \/ CancelFires(r)
          \/ TimerFires(r)
          \/ \E c \in Callbacks : Bump(c, r)

(***************************************************************************)
(* Goroutines are scheduled, timers fire, and a Go mutex hands itself to a *)
(* starving waiter, so taking b.mu is strongly fair. Arrivals, departures  *)
(* and releases are the callers' and are not fair: a stream holds its      *)
(* charge for as long as it lasts.                                         *)
(***************************************************************************)
Fairness == \A r \in Requests :
  /\ WF_vars(Watch(r)) /\ SF_vars(Lock(r))
  /\ WF_vars(Grant(r) \/ GiveUp(r) \/ DecideToWait(r))
  /\ WF_vars(Park(r)) /\ WF_vars(Return(r))
  /\ WF_vars(CancelFires(r)) /\ WF_vars(TimerFires(r))
  /\ \A c \in Callbacks : SF_vars(Bump(c, r))

SafetySpec == Init /\ [][Next]_vars
Spec == SafetySpec /\ Fairness
-------------------------------------------------------------------------------
(***************************************************************************)
(* Every variable has its type; in particular b.free never goes negative   *)
(* and no charge exceeds the largest body.                                 *)
(***************************************************************************)
TypeOK ==
  /\ mu \in Requests \cup {NoOne}
  /\ free \in 0..Budget
  /\ pc \in [Requests -> PCs]
  /\ charge \in [Requests -> 0..MaxBody]
  /\ gone \in [Requests -> BOOLEAN]
  /\ expired \in [Requests -> BOOLEAN]
  /\ fn \in [Callbacks -> [Requests -> FnStates]]

(***************************************************************************)
(* s lists the running totals of what the requests hold.                   *)
(***************************************************************************)
Held(r) == IF pc[r] \in Holding THEN charge[r] ELSE 0

IsRunningTotal(s) ==
  /\ s[0] = 0
  /\ \A r \in Requests : s[r] = s[r - 1] + Held(r)

(***************************************************************************)
(* No byte of the budget is lost or minted: what is free and what admitted *)
(* requests hold add up to the budget, over any mixture of grants,         *)
(* refusals, disconnects and releases (reserve and release, and the        *)
(* no-op closure admitBody returns with an error).                         *)
(***************************************************************************)
BudgetConserved ==
  \E s \in [0..N -> 0..Budget] : IsRunningTotal(s) /\ free + s[N] = Budget

(***************************************************************************)
(* Nobody sleeps who should be awake. A handler on the notify list, or     *)
(* about to join it, has a charge that does not fit; if its client left,   *)
(* its cancel callback has still to broadcast; and its timer either is     *)
(* armed or has stored the flag and has still to broadcast.                *)
(***************************************************************************)
NoLostWakeup ==
  \A r \in Requests : pc[r] \in {"park", "asleep"} =>
    /\ free < charge[r]
    /\ gone[r] => fn["cancel"][r] # "off"
    /\ IF expired[r] THEN fn["timer"][r] = "running" ELSE fn["timer"][r] = "armed"

(***************************************************************************)
(* reserve always returns, with the charge or an error, even when no       *)
(* holder ever releases.                                                   *)
(***************************************************************************)
ReserveReturns == \A r \in Requests : pc[r] \in Asking ~> pc[r] \notin Asking

(***************************************************************************)
(* The monitor implements the abstract budget, its fairness included: a    *)
(* request whose charge stays available is admitted, an overdue one is     *)
(* decided, and a refusal never happens while the charge fits.             *)
(***************************************************************************)
ImplementsBudget == Abstract!Spec
-------------------------------------------------------------------------------
(***************************************************************************)
(* The inductive invariant behind the safety properties. MutexHeld: a      *)
(* handler is between Lock and Unlock exactly when it is recorded in mu.   *)
(* CallbacksArmed: until what it waits for has happened, a callback of a   *)
(* request inside reserve is still armed. Ledger: BudgetConserved, with    *)
(* running totals that never decrease.                                     *)
(***************************************************************************)
MutexHeld == \A r \in Requests : pc[r] \in {"check", "park"} <=> mu = r

CallbacksArmed ==
  \A r \in Requests : pc[r] \in Asking \ {"watch"} =>
    /\ ~gone[r] => fn["cancel"][r] = "armed"
    /\ ~expired[r] => fn["timer"][r] = "armed"

Ascending(s) == \A i, j \in 0..N : i <= j => s[i] <= s[j]

Ledger ==
  \E s \in [0..N -> 0..Budget] :
    IsRunningTotal(s) /\ Ascending(s) /\ free + s[N] = Budget

IInv == TypeOK /\ MutexHeld /\ CallbacksArmed /\ NoLostWakeup /\ Ledger
===============================================================================
