----------------------------- MODULE ProgramProofs -----------------------------
(***************************************************************************)
(* Proofs about Program. NoSpaceForgotten is not inductive: a deletion     *)
(* that finds the flag set starts no reclaim of its own, and nothing in    *)
(* the property says that somebody else's is under way. FlagMeansReclaim   *)
(* is the missing half.                                                    *)
(***************************************************************************)
EXTENDS Program, TLAPS

FlagMeansReclaim == reclaiming => \E d \in Deletions : reclaim[d] # "off"

IInv == TypeOK /\ FlagMeansReclaim /\ NoSpaceForgotten

LEMMA InitIInv == Init => IInv
  BY DEF Init, IInv, TypeOK, FlagMeansReclaim, NoSpaceForgotten, VacuumAhead

LEMMA StutterIInv == IInv /\ UNCHANGED vars => IInv'
  BY DEF IInv, TypeOK, FlagMeansReclaim, NoSpaceForgotten, VacuumAhead, vars,
         server, upkeep, space

(***************************************************************************)
(* The steps that leave the upkeep and the space alone.                    *)
(***************************************************************************)
LEMMA ServerSteps ==
  ASSUME IInv,
         \/ \E r \in Requests : Arrive(r) \/ Respond(r)
         \/ Signal \/ Shutting \/ ServeFails \/ Main
  PROVE  IInv'
<1>1. UNCHANGED <<upkeep, space>>
  BY DEF Arrive, Respond, Signal, Shutting, Shutdown, Drained, DrainTimesOut,
         ServeFails, Main, Launch, ListenAndServe, ServerClosed, CloseStore, Exit
<1>2. FlagMeansReclaim' /\ NoSpaceForgotten'
  BY <1>1 DEF IInv, FlagMeansReclaim, NoSpaceForgotten, VacuumAhead, upkeep, space
<1>3. TypeOK'
  <2>1. CASE \E r \in Requests : Arrive(r) \/ Respond(r)
    BY <1>1, <2>1 DEF IInv, TypeOK, Arrive, Respond, upkeep, space
  <2>2. CASE Signal \/ ServeFails
    BY ZenonT(30), <1>1, <2>2 DEF IInv, TypeOK, Signal, ServeFails, upkeep, space
  <2>3. CASE Shutting
    <3>1. UNCHANGED <<signalled, main, req>> /\ listening' \in {listening, FALSE}
      BY <2>3 DEF Shutting, Shutdown, Drained, DrainTimesOut
    <3>2. drain' \in {"waiting", "drained", "timeout"}
      BY <2>3 DEF Shutting, Shutdown, Drained, DrainTimesOut
    <3> QED
      BY ZenonT(30), <1>1, <3>1, <3>2 DEF IInv, TypeOK, upkeep, space
  <2>4. CASE Main
    <3>1. UNCHANGED <<signalled, drain, req>> /\ listening' \in BOOLEAN
      BY <2>4 DEF IInv, TypeOK, Main, Launch, ListenAndServe, ServerClosed, CloseStore,
                  Exit
    <3>2. main' \in {"launched", "serving", "returning", "closed", "exited"}
      BY <2>4 DEF Main, Launch, ListenAndServe, ServerClosed, CloseStore, Exit
    <3> QED
      BY <1>1, <3>1, <3>2 DEF IInv, TypeOK, upkeep, space
  <2> QED BY <2>1, <2>2, <2>3, <2>4
<1> QED BY <1>2, <1>3 DEF IInv

LEMMA AuditStep ==
  ASSUME IInv, NEW r \in Requests, Audit(r)
  PROVE  IInv'
<1>1. TypeOK'
  BY DEF IInv, TypeOK, Audit, upkeep
<1>2. FlagMeansReclaim' /\ NoSpaceForgotten'
  BY DEF IInv, FlagMeansReclaim, NoSpaceForgotten, VacuumAhead, Audit, upkeep
<1> QED BY <1>1, <1>2 DEF IInv

(***************************************************************************)
(* maintain(): a prune that frees pages goes on to its VACUUM.             *)
(***************************************************************************)
LEMMA MaintenanceSteps ==
  ASSUME IInv, Maintenance \/ MaintenanceLoop
  PROVE  IInv'
<1>1. TypeOK'
  <2>1. CASE Prune
    <3>1. garbage' \in BOOLEAN /\ excused' \in BOOLEAN /\ row' \subseteq row
      BY <2>1 DEF IInv, TypeOK, Prune, remove, space
    <3>2. maint' \in {"vacuum", "checkpoint"}
      BY <2>1 DEF Prune
    <3> QED BY <2>1, <3>1, <3>2 DEF IInv, TypeOK, Prune, server
  <2>2. CASE MaintenanceVacuum
    <3>1. garbage' \in BOOLEAN /\ excused' \in BOOLEAN /\ row' = row
      BY <2>2 DEF IInv, TypeOK, MaintenanceVacuum, vacuum
    <3>2. maint' \in {"checkpoint", "idle"}
      BY <2>2 DEF MaintenanceVacuum
    <3> QED BY <2>2, <3>1, <3>2 DEF IInv, TypeOK, MaintenanceVacuum, server
  <2>3. CASE MaintenanceCheckpoint
    BY <2>3 DEF IInv, TypeOK, MaintenanceCheckpoint, server, space
  <2>4. CASE MaintenanceLoop
    BY <2>4 DEF IInv, TypeOK, MaintenanceLoop, server, space
  <2> QED BY <2>1, <2>2, <2>3, <2>4 DEF Maintenance
<1>2. FlagMeansReclaim'
  BY DEF IInv, FlagMeansReclaim, Maintenance, MaintenanceLoop, Prune,
         MaintenanceVacuum, MaintenanceCheckpoint
<1>3. NoSpaceForgotten'
  <2>1. CASE Prune
    <3>1. CASE \E rows \in SUBSET row :
                 /\ remove(rows)
                 /\ maint' = IF rows # {} THEN "vacuum" ELSE "checkpoint"
      <4>1. PICK rows \in SUBSET row :
              /\ remove(rows)
              /\ maint' = IF rows # {} THEN "vacuum" ELSE "checkpoint"
        BY <3>1
      <4>2. CASE rows = {}
        <5>1. garbage' = garbage /\ excused' = excused
          BY <4>1, <4>2 DEF remove, IInv, TypeOK
        <5> QED BY <2>1, <5>1 DEF IInv, NoSpaceForgotten, VacuumAhead, Prune
      <4>3. CASE rows # {}
        BY <4>1, <4>3 DEF NoSpaceForgotten, VacuumAhead
      <4> QED BY <4>2, <4>3
    <3>2. CASE UNCHANGED space
      BY <2>1, <3>2 DEF IInv, NoSpaceForgotten, VacuumAhead, Prune, space
    <3> QED BY <2>1, <3>1, <3>2 DEF Prune
  <2>2. CASE MaintenanceVacuum
    BY <2>2 DEF IInv, TypeOK, NoSpaceForgotten, VacuumAhead, MaintenanceVacuum,
                vacuum
  <2>3. CASE MaintenanceCheckpoint \/ MaintenanceLoop
    BY <2>3 DEF IInv, NoSpaceForgotten, VacuumAhead, MaintenanceCheckpoint,
                MaintenanceLoop, space
  <2> QED BY <2>1, <2>2, <2>3 DEF Maintenance
<1> QED BY <1>1, <1>2, <1>3 DEF IInv

(***************************************************************************)
(* A deletion that freed pages is on its way to a reclaim; there it starts *)
(* one, or meets one: that one's VACUUM is to come, or excused is set.     *)
(***************************************************************************)
LEMMA DeletionSteps ==
  ASSUME IInv, NEW d \in Deletions,
         ArriveDelete(d) \/ deleteLogs(d) \/ reclaimSpaceAsync(d)
  PROVE  IInv'
<1>1. TypeOK'
  <2>1. CASE ArriveDelete(d)
    BY <2>1 DEF IInv, TypeOK, ArriveDelete, server, space
  <2>2. CASE deleteLogs(d)
    <3>1. garbage' \in BOOLEAN /\ excused' \in BOOLEAN /\ row' \subseteq row
      BY <2>2 DEF IInv, TypeOK, deleteLogs, remove, space
    <3>2. del' \in [Deletions -> {"none", "open", "reclaim", "done"}]
      BY <2>2 DEF IInv, TypeOK, deleteLogs
    <3> QED BY <2>2, <3>1, <3>2 DEF IInv, TypeOK, deleteLogs, server
  <2>3. CASE reclaimSpaceAsync(d)
    <3>1. del' \in [Deletions -> {"none", "open", "reclaim", "done"}]
      BY <2>3 DEF IInv, TypeOK, reclaimSpaceAsync
    <3>2. reclaim' \in [Deletions -> {"off", "vacuum", "checkpoint", "clear"}]
      BY <2>3 DEF IInv, TypeOK, reclaimSpaceAsync
    <3>3. reclaiming' \in BOOLEAN /\ excused' \in BOOLEAN
      BY <2>3 DEF IInv, TypeOK, reclaimSpaceAsync
    <3> QED BY <2>3, <3>1, <3>2, <3>3 DEF IInv, TypeOK, reclaimSpaceAsync, server
  <2> QED BY <2>1, <2>2, <2>3
<1>2. FlagMeansReclaim'
  BY DEF IInv, TypeOK, FlagMeansReclaim, ArriveDelete, deleteLogs,
         reclaimSpaceAsync
<1>3. NoSpaceForgotten'
  <2>1. CASE ArriveDelete(d)
    BY <2>1 DEF IInv, TypeOK, NoSpaceForgotten, VacuumAhead, ArriveDelete, space
  <2>2. CASE deleteLogs(d)
    <3>1. CASE \E rows \in SUBSET row :
                 /\ remove(rows)
                 /\ del' = [del EXCEPT ![d] = IF rows # {} THEN "reclaim"
                                                          ELSE "done"]
      <4>1. PICK rows \in SUBSET row :
              /\ remove(rows)
              /\ del' = [del EXCEPT ![d] = IF rows # {} THEN "reclaim" ELSE "done"]
        BY <3>1
      <4>2. CASE rows = {}
        <5>1. garbage' = garbage /\ excused' = excused
          BY <4>1, <4>2 DEF remove, IInv, TypeOK
        <5>2. \A e \in Deletions : del[e] = "reclaim" => e = d \/ del'[e] = "reclaim"
          BY <4>1 DEF IInv, TypeOK
        <5>3. del[d] = "open" /\ UNCHANGED <<maint, reclaim>>
          BY <2>2 DEF deleteLogs
        <5> QED BY <5>1, <5>2, <5>3 DEF IInv, NoSpaceForgotten, VacuumAhead
      <4>3. CASE rows # {}
        <5>1. del'[d] = "reclaim"
          BY <4>1, <4>3 DEF IInv, TypeOK
        <5> QED BY <5>1 DEF NoSpaceForgotten, VacuumAhead
      <4> QED BY <4>2, <4>3
    <3>2. CASE del' = [del EXCEPT ![d] = "done"] /\ UNCHANGED space
      BY <2>2, <3>2 DEF IInv, TypeOK, NoSpaceForgotten, VacuumAhead, deleteLogs,
                        space
    <3> QED BY <2>2, <3>1, <3>2 DEF deleteLogs
  <2>3. CASE reclaimSpaceAsync(d)
    <3>1. CASE ~reclaiming
      BY <2>3, <3>1 DEF IInv, TypeOK, NoSpaceForgotten, VacuumAhead,
                        reclaimSpaceAsync
    <3>2. CASE reclaiming
      <4>1. PICK e \in Deletions : reclaim[e] # "off"
        BY <3>2 DEF IInv, FlagMeansReclaim
      <4>2. reclaim[e] \in {"vacuum", "checkpoint", "clear"}
        BY <4>1 DEF IInv, TypeOK
      <4>3. CASE reclaim[e] = "vacuum"
        BY <2>3, <3>2, <4>3 DEF reclaimSpaceAsync, NoSpaceForgotten, VacuumAhead
      <4>4. CASE reclaim[e] \in {"checkpoint", "clear"}
        BY <2>3, <3>2, <4>4 DEF reclaimSpaceAsync, NoSpaceForgotten
      <4> QED BY <4>2, <4>3, <4>4
    <3> QED BY <3>1, <3>2
  <2> QED BY <2>1, <2>2, <2>3
<1> QED BY <1>1, <1>2, <1>3 DEF IInv

LEMMA ReclaimSteps ==
  ASSUME IInv, NEW d \in Deletions,
         ReclaimVacuum(d) \/ ReclaimCheckpoint(d) \/ ReclaimEnds(d)
  PROVE  IInv'
<1>1. TypeOK'
  <2>1. CASE ReclaimVacuum(d)
    <3>1. garbage' \in BOOLEAN /\ excused' \in BOOLEAN /\ row' = row
      BY <2>1 DEF IInv, TypeOK, ReclaimVacuum, vacuum
    <3>2. reclaim' \in [Deletions -> {"off", "vacuum", "checkpoint", "clear"}]
      BY <2>1 DEF IInv, TypeOK, ReclaimVacuum
    <3> QED BY <2>1, <3>1, <3>2 DEF IInv, TypeOK, ReclaimVacuum, server
  <2>2. CASE ReclaimCheckpoint(d)
    BY <2>2 DEF IInv, TypeOK, ReclaimCheckpoint, server, space
  <2>3. CASE ReclaimEnds(d)
    BY ZenonT(30), <2>3 DEF IInv, TypeOK, ReclaimEnds, server, space
  <2> QED BY <2>1, <2>2, <2>3
<1>2. FlagMeansReclaim'
  BY DEF IInv, TypeOK, FlagMeansReclaim, ReclaimVacuum, ReclaimCheckpoint,
         ReclaimEnds
<1>3. NoSpaceForgotten'
  <2>1. CASE ReclaimVacuum(d)
    BY <2>1 DEF IInv, TypeOK, NoSpaceForgotten, VacuumAhead, ReclaimVacuum, vacuum
  <2>2. CASE ReclaimCheckpoint(d) \/ ReclaimEnds(d)
    BY <2>2 DEF IInv, TypeOK, NoSpaceForgotten, VacuumAhead, ReclaimCheckpoint,
                ReclaimEnds, space
  <2> QED BY <2>1, <2>2
<1> QED BY <1>1, <1>2, <1>3 DEF IInv

LEMMA StepIInv == IInv /\ [Next]_vars => IInv'
<1> SUFFICES ASSUME IInv, [Next]_vars PROVE IInv'
  OBVIOUS
<1>1. CASE UNCHANGED vars
  BY <1>1, StutterIInv
<1>2. ASSUME NEW r \in Requests, Arrive(r) \/ Respond(r) \/ Audit(r)
      PROVE  IInv'
  BY <1>2, ServerSteps, AuditStep
<1>3. ASSUME NEW d \in Deletions, ArriveDelete(d) \/ deleteLogs(d) \/ Reclaim(d)
      PROVE  IInv'
  BY <1>3, DeletionSteps, ReclaimSteps DEF Reclaim
<1>4. CASE Maintenance \/ MaintenanceLoop
  BY <1>4, MaintenanceSteps
<1>5. CASE Signal \/ Shutting \/ ServeFails \/ Main
  BY <1>5, ServerSteps
<1> QED BY <1>1, <1>2, <1>3, <1>4, <1>5 DEF Next

LEMMA Inductive == Spec => []IInv
  BY InitIInv, StepIInv, PTL DEF Spec, SafetySpec

(***************************************************************************)
(* The variables of the program keep their types (main.go:93-174).         *)
(***************************************************************************)
THEOREM ProgramTypes == Spec => []TypeOK
<1>1. IInv => TypeOK
  BY DEF IInv
<1> QED BY <1>1, Inductive, PTL

(***************************************************************************)
(* For any number of requests and deletions: free pages have a VACUUM      *)
(* ahead, but for the two cases excused names (app.go:508-527).            *)
(***************************************************************************)
THEOREM SpaceRemembered == Spec => []NoSpaceForgotten
<1>1. IInv => NoSpaceForgotten
  BY DEF IInv
<1> QED BY <1>1, Inductive, PTL
===============================================================================
