------------------------------ MODULE BodyBudget ------------------------------
(***************************************************************************)
(* What the proxy's body admission promises its callers, without the       *)
(* mutex, the condition variable and the timers that provide it: a budget  *)
(* of request-body bytes from which a request is granted its charge in one *)
(* step, and a refusal that only an overdue request, one whose client left *)
(* or whose time ran out, gets, and only while its charge does not fit.    *)
(*                                                                         *)
(* BodyAdmission implements this specification; ProxyRequest uses it.      *)
(***************************************************************************)
EXTENDS Integers

CONSTANTS Requests,  \* the request slots (one handler goroutine each)
          Budget,    \* inFlightBodyBudget
          MaxBody,   \* maxBodyBytes
          Lengths    \* the Content-Length values requests arrive with

VARIABLES avail,    \* bytes of the budget nobody holds
          phase,    \* where each request is
          size,     \* what each request is charged
          overdue   \* the client left or the wait timed out

budgetVars == <<avail, phase, size, overdue>>

Phases == {"out", "asking", "holding"}

(***************************************************************************)
(* A length that is unknown (-1, chunked) or zero is charged as the        *)
(* largest body; a declared one is charged as declared, up to the largest. *)
(***************************************************************************)
chargeForBody(contentLength) ==
  IF contentLength \in 1..MaxBody THEN contentLength ELSE MaxBody

Charges == {chargeForBody(l) : l \in Lengths}
-------------------------------------------------------------------------------
Init == /\ avail = Budget
        /\ phase = [r \in Requests |-> "out"]
        /\ size = [r \in Requests |-> 0]
        /\ overdue = [r \in Requests |-> FALSE]

Ask(r) == /\ phase[r] = "out"
          /\ phase' = [phase EXCEPT ![r] = "asking"]
          /\ size' \in {[size EXCEPT ![r] = n] : n \in Charges}
          /\ UNCHANGED <<avail, overdue>>

BecomeOverdue(r) == /\ phase[r] = "asking"
                    /\ overdue' = [overdue EXCEPT ![r] = TRUE]
                    /\ UNCHANGED <<avail, phase, size>>

Grant(r) == /\ phase[r] = "asking"
            /\ size[r] <= avail
            /\ avail' = avail - size[r]
            /\ phase' = [phase EXCEPT ![r] = "holding"]
            /\ overdue' = [overdue EXCEPT ![r] = FALSE]
            /\ UNCHANGED size

Refuse(r) == /\ phase[r] = "asking"
             /\ overdue[r]
             /\ avail < size[r]
             /\ phase' = [phase EXCEPT ![r] = "out"]
             /\ overdue' = [overdue EXCEPT ![r] = FALSE]
             /\ UNCHANGED <<avail, size>>

GiveBack(r) == /\ phase[r] = "holding"
               /\ avail' = avail + size[r]
               /\ phase' = [phase EXCEPT ![r] = "out"]
               /\ UNCHANGED <<size, overdue>>

Next == \E r \in Requests : \/ Ask(r)
                            \/ BecomeOverdue(r)
                            \/ Grant(r)
                            \/ Refuse(r)
                            \/ GiveBack(r)

(***************************************************************************)
(* An asking request becomes overdue at the latest when its timer fires,   *)
(* and an overdue request is decided one way or the other. Nothing makes a *)
(* holder give its bytes back: a response stream may last for ever.        *)
(***************************************************************************)
Fairness == \A r \in Requests :
              /\ WF_budgetVars(Grant(r) \/ Refuse(r))
              /\ WF_budgetVars(BecomeOverdue(r))

SafetySpec == Init /\ [][Next]_budgetVars
Spec == SafetySpec /\ Fairness
===============================================================================
