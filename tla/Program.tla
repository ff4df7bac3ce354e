-------------------------------- MODULE Program --------------------------------
(***************************************************************************)
(* The program from its start to its end and the upkeep of the log         *)
(* database meanwhile: main.go, with deleteLogs and reclaimSpaceAsync of   *)
(* internal/web/app.go and the statements of internal/store/storage.go     *)
(* they run. The goroutines are main, the one that waits for the signal,   *)
(* the hourly maintenance (which main runs itself before it serves), one   *)
(* for each request and deletion, and those that reclaim space.            *)
(*                                                                         *)
(* net/http closes the listeners first thing in Shutdown, and              *)
(* ListenAndServe then returns at once; it does not wait for Shutdown.     *)
(* Leaving main ends the process and every goroutine in it.                *)
(*                                                                         *)
(* There is one database connection, so every statement is one step. Any   *)
(* statement can fail: the disk is full, its context is cancelled or timed *)
(* out while a VACUUM holds the connection, or the store is closed.        *)
(***************************************************************************)
EXTENDS FiniteSets

CONSTANTS Requests,   \* requests to gateways
          Deletions,  \* requests to delete logs
          Past        \* rows an earlier run of the program left

VARIABLES listening,   \* the server accepts requests
          signalled,   \* SIGINT or SIGTERM came: ctx is done
          drain,       \* server.Shutdown: "off", "waiting", "drained", "timeout"
          main,        \* where main is
          req,         \* where each request is
          del,         \* where each deletion is
          row,         \* the rows in the table
          maint,       \* where maintain() is
          reclaiming,  \* App.reclaiming
          reclaim,     \* where the goroutine is that a deletion started
          garbage,     \* the file has pages that deleted rows left free
          excused      \* a VACUUM failed, or a deletion relied on a reclaim
                       \* that had done its VACUUM already

server == <<listening, signalled, drain, main, req>>
upkeep == <<del, maint, reclaiming, reclaim>>
space == <<row, garbage, excused>>
vars == <<server, upkeep, space>>

InFlight == {r \in Requests : req[r] \in {"open", "audit"}}
              \cup {d \in Deletions : del[d] \in {"open", "reclaim"}}
Alive == main # "exited"
StoreOpen == main \notin {"closed", "exited"}
-------------------------------------------------------------------------------
Init == /\ listening = FALSE
        /\ signalled = FALSE
        /\ drain = "off"
        /\ main = "starting"
        /\ req = [r \in Requests |-> "none"]
        /\ del = [d \in Deletions |-> "none"]
        /\ row = Past
        /\ maint = "prune"
        /\ reclaiming = FALSE
        /\ reclaim = [d \in Deletions |-> "off"]
        /\ garbage = FALSE
        /\ excused = FALSE

\* Rows are deleted; that frees their pages.
remove(rows) == /\ row' = row \ rows
                /\ garbage' = (garbage \/ rows # {})
                /\ UNCHANGED excused

vacuum(done) == /\ garbage' = (garbage /\ ~done)
                /\ excused' = (excused \/ ~done)
                /\ UNCHANGED row

(***************************************************************************)
(* maintain(): first by main, then once an hour until the signal.          *)
(***************************************************************************)
\* Mutant: only the checkpoint is run after a prune.
PruneOnly == /\ Alive /\ maint = "prune"
             /\ StoreOpen /\ ~signalled
             /\ \E rows \in SUBSET row : remove(rows)
             /\ maint' = "checkpoint"
             /\ UNCHANGED <<server, del, reclaiming, reclaim>>

\* A retention of 0 prunes nothing.
Prune == /\ Alive /\ maint = "prune"
         /\ \/ /\ StoreOpen /\ ~signalled
               /\ \E rows \in SUBSET row :
                    /\ remove(rows)
                    /\ maint' = IF rows # {} THEN "vacuum" ELSE "checkpoint"
            \/ /\ maint' = "checkpoint"
               /\ UNCHANGED space
         /\ UNCHANGED <<server, del, reclaiming, reclaim>>

MaintenanceVacuum ==
  /\ Alive /\ maint = "vacuum"
  /\ \/ StoreOpen /\ ~signalled /\ vacuum(TRUE) /\ maint' = "checkpoint"
     \/ vacuum(FALSE) /\ maint' = "idle"
  /\ UNCHANGED <<server, del, reclaiming, reclaim>>

MaintenanceCheckpoint ==
  /\ Alive /\ maint = "checkpoint"
  /\ maint' = "idle"
  /\ UNCHANGED <<server, space, del, reclaiming, reclaim>>

\* The select of the goroutine; both arms can be ready.
MaintenanceLoop ==
  /\ Alive /\ main # "starting"
  /\ maint = "idle"
  /\ maint' \in {"prune"} \cup (IF signalled THEN {"stopped"} ELSE {})
  /\ UNCHANGED <<server, space, del, reclaiming, reclaim>>
-------------------------------------------------------------------------------
(***************************************************************************)
(* Requests. A stream may never end. The deferred insert of the handler    *)
(* can fail, and does once the store is closed.                            *)
(***************************************************************************)
Arrive(r) == /\ Alive /\ listening
             /\ req[r] = "none"
             /\ req' = [req EXCEPT ![r] = "open"]
             /\ UNCHANGED <<listening, signalled, drain, main, upkeep, space>>

Respond(r) == /\ Alive
              /\ req[r] = "open"
              /\ req' = [req EXCEPT ![r] = "audit"]
              /\ UNCHANGED <<listening, signalled, drain, main, upkeep, space>>

Audit(r) == /\ Alive
            /\ req[r] = "audit"
            /\ req' = [req EXCEPT ![r] = "done"]
            /\ row' \in {row} \cup (IF StoreOpen THEN {row \cup {r}} ELSE {})
            /\ UNCHANGED <<listening, signalled, drain, main, upkeep, garbage,
                           excused>>

(***************************************************************************)
(* DELETE /api/logs: the statement, the answer, and the reclaim if it      *)
(* deleted anything and none is under way.                                 *)
(***************************************************************************)
ArriveDelete(d) == /\ Alive /\ listening
                   /\ del[d] = "none"
                   /\ del' = [del EXCEPT ![d] = "open"]
                   /\ UNCHANGED <<server, maint, reclaiming, reclaim, space>>

deleteLogs(d) ==
  /\ Alive
  /\ del[d] = "open"
  /\ \/ \E rows \in SUBSET row :
          /\ StoreOpen
          /\ remove(rows)
          /\ del' = [del EXCEPT ![d] = IF rows # {} THEN "reclaim" ELSE "done"]
     \/ /\ del' = [del EXCEPT ![d] = "done"]
        /\ UNCHANGED space
  /\ UNCHANGED <<server, maint, reclaiming, reclaim>>

reclaimSpaceAsync(d) ==
  /\ Alive
  /\ del[d] = "reclaim"
  /\ del' = [del EXCEPT ![d] = "done"]
  /\ IF reclaiming
     THEN /\ excused' = (excused \/ \E e \in Deletions :
                                      reclaim[e] \in {"checkpoint", "clear"})
          /\ UNCHANGED <<reclaiming, reclaim>>
     ELSE /\ reclaiming' = TRUE
          /\ reclaim' = [reclaim EXCEPT ![d] = "vacuum"]
          /\ UNCHANGED excused
  /\ UNCHANGED <<server, maint, row, garbage>>

ReclaimVacuum(d) ==
  /\ Alive
  /\ reclaim[d] = "vacuum"
  /\ \/ StoreOpen /\ vacuum(TRUE) /\ reclaim' = [reclaim EXCEPT ![d] = "checkpoint"]
     \/ vacuum(FALSE) /\ reclaim' = [reclaim EXCEPT ![d] = "clear"]
  /\ UNCHANGED <<server, del, maint, reclaiming>>

ReclaimCheckpoint(d) ==
  /\ Alive
  /\ reclaim[d] = "checkpoint"
  /\ reclaim' = [reclaim EXCEPT ![d] = "clear"]
  /\ UNCHANGED <<server, del, maint, reclaiming, space>>

\* Mutant: the flag is not put back.
ReclaimForgets(d) ==
  /\ Alive
  /\ reclaim[d] = "clear"
  /\ reclaim' = [reclaim EXCEPT ![d] = "off"]
  /\ UNCHANGED <<server, del, maint, reclaiming, space>>

ReclaimEnds(d) ==
  /\ Alive
  /\ reclaim[d] = "clear"
  /\ reclaim' = [reclaim EXCEPT ![d] = "off"]
  /\ reclaiming' = FALSE
  /\ UNCHANGED <<server, del, maint, space>>
-------------------------------------------------------------------------------
(***************************************************************************)
(* The start: maintain() ends, the goroutines are started, the server      *)
(* listens unless Shutdown was called before.                              *)
(***************************************************************************)
Launch == /\ main = "starting"
          /\ maint = "idle"
          /\ main' = "launched"
          /\ UNCHANGED <<listening, signalled, drain, req, upkeep, space>>

ListenAndServe == /\ main = "launched"
                  /\ main' = "serving"
                  /\ listening' = (drain = "off")
                  /\ UNCHANGED <<signalled, drain, req, upkeep, space>>

\* SIGINT or SIGTERM.
Signal == /\ Alive
          /\ ~signalled
          /\ signalled' = TRUE
          /\ UNCHANGED <<listening, drain, main, req, upkeep, space>>

Shutdown == /\ Alive /\ main # "starting"
            /\ signalled
            /\ drain = "off"
            /\ drain' = "waiting"
            /\ listening' = FALSE
            /\ UNCHANGED <<signalled, main, req, upkeep, space>>

Drained == /\ Alive
           /\ drain = "waiting"
           /\ InFlight = {}
           /\ drain' = "drained"
           /\ UNCHANGED <<listening, signalled, main, req, upkeep, space>>

DrainTimesOut == /\ Alive
                 /\ drain = "waiting"
                 /\ drain' = "timeout"
                 /\ UNCHANGED <<listening, signalled, main, req, upkeep, space>>

\* The listener fails of itself.
ServeFails == /\ main = "serving"
              /\ listening
              /\ listening' = FALSE
              /\ main' = "returning"
              /\ UNCHANGED <<signalled, drain, req, upkeep, space>>

\* Mutant of ServerClosed: main waits until every request has ended.
ServerClosedAfterDrain == /\ main = "serving"
                          /\ drain = "drained"
                          /\ main' = "returning"
                          /\ UNCHANGED <<listening, signalled, drain, req, upkeep,
                                         space>>

\* ListenAndServe returns ErrServerClosed.
ServerClosed == /\ main = "serving"
                /\ ~listening
                /\ main' = "returning"
                /\ UNCHANGED <<listening, signalled, drain, req, upkeep, space>>

CloseStore == /\ main = "returning"
              /\ main' = "closed"
              /\ UNCHANGED <<listening, signalled, drain, req, upkeep, space>>

Exit == /\ main = "closed"
        /\ main' = "exited"
        /\ UNCHANGED <<listening, signalled, drain, req, upkeep, space>>
-------------------------------------------------------------------------------
Maintenance == Prune \/ MaintenanceVacuum \/ MaintenanceCheckpoint

Reclaim(d) == \/ reclaimSpaceAsync(d)
              \/ ReclaimVacuum(d)
              \/ ReclaimCheckpoint(d)
              \/ ReclaimEnds(d)

Shutting == Shutdown \/ Drained \/ DrainTimesOut

Main == Launch \/ ListenAndServe \/ ServerClosed \/ CloseStore \/ Exit

Next == \/ \E r \in Requests : Arrive(r) \/ Respond(r) \/ Audit(r)
        \/ \E d \in Deletions : ArriveDelete(d) \/ deleteLogs(d) \/ Reclaim(d)
        \/ Maintenance
        \/ MaintenanceLoop
        \/ Signal
        \/ Shutting
        \/ ServeFails
        \/ Main

(***************************************************************************)
(* The goroutines of the program run and its statements end. No request    *)
(* has to end, and nobody has to stop the program.                         *)
(***************************************************************************)
Fairness == /\ WF_vars(Maintenance)
            /\ \A d \in Deletions : WF_vars(Reclaim(d))
            /\ WF_vars(Shutting)
            /\ WF_vars(Main)

SafetySpec == Init /\ [][Next]_vars
Spec == SafetySpec /\ Fairness
-------------------------------------------------------------------------------
(***************************************************************************)
(* Type invariant; the flag is set exactly while a reclaim is under way.   *)
(***************************************************************************)
TypeOK ==
  /\ listening \in BOOLEAN /\ signalled \in BOOLEAN
  /\ drain \in {"off", "waiting", "drained", "timeout"}
  /\ main \in {"starting", "launched", "serving", "returning", "closed", "exited"}
  /\ req \in [Requests -> {"none", "open", "audit", "done"}]
  /\ del \in [Deletions -> {"none", "open", "reclaim", "done"}]
  /\ row \subseteq Past \cup Requests
  /\ maint \in {"prune", "vacuum", "checkpoint", "idle", "stopped"}
  /\ reclaim \in [Deletions -> {"off", "vacuum", "checkpoint", "clear"}]
  /\ reclaiming \in BOOLEAN
  /\ garbage \in BOOLEAN /\ excused \in BOOLEAN

(***************************************************************************)
(* A signal ends the program although a stream may last for ever, even one *)
(* that comes while the program starts (main.go:98-139, 158-173).          *)
(***************************************************************************)
SignalEndsProgram == signalled ~> main = "exited"

(***************************************************************************)
(* main.go:29: the shutdown timeout is the longest time that a graceful    *)
(* shutdown waits for the requests in flight. So the program asked to end  *)
(* only ends when they have ended or that time is over.                    *)
(***************************************************************************)
EndsAfterRequests ==
  main = "exited" /\ drain # "off" => InFlight = {} \/ drain = "timeout"

(***************************************************************************)
(* Free pages are never forgotten: while the file has any, a VACUUM is     *)
(* still to come of the maintenance, of a reclaim or of a deletion on its  *)
(* way to one. The exceptions are named by excused: a VACUUM that failed,  *)
(* and a deletion that came between the VACUUM of another one's reclaim    *)
(* and the end of it (app.go:502-527, main.go:115-121).                    *)
(***************************************************************************)
VacuumAhead == \/ maint = "vacuum"
               \/ \E d \in Deletions : del[d] = "reclaim" \/ reclaim[d] = "vacuum"

NoSpaceForgotten == garbage => VacuumAhead \/ excused

(***************************************************************************)
(* And so they do come back, unless the program ends first: what the name  *)
(* of TestDeleteLogsReclaimsSpace says (app_test.go:438).                  *)
(***************************************************************************)
SpaceComesBack == garbage ~> (~garbage \/ excused \/ main = "exited")
===============================================================================
