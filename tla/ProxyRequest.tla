----------------------------- MODULE ProxyRequest -----------------------------
(***************************************************************************)
(* One proxied request from arrival to audit row (internal/proxy/proxy.go, *)
(* ServeHTTP and what it calls, and the response capture it wraps the      *)
(* writer in), for several concurrent requests that share the body budget. *)
(*                                                                         *)
(* The budget is the atomic one of BodyBudget, which BodyAdmission         *)
(* implements. What upstream, the client and the adapters do is a choice   *)
(* among the outcomes the code distinguishes; bodies are sizes in units.   *)
(***************************************************************************)
EXTENDS Integers, FiniteSets, Functions

CONSTANTS Requests,   \* handler goroutines (slots, reused)
          Budget,     \* inFlightBodyBudget
          MaxBody,    \* maxBodyBytes
          Lengths,    \* Content-Length values, -1 for chunked
          ChunkedSizes,     \* real sizes of chunked bodies
          RewriteFactor,    \* how many times its size a rewrite may make of a body
          KeyLength,        \* what a prompt_cache_key may add to it
          CaptureLimit,     \* bodyLimit, what resolveBodyLimit returns
          UpstreamStatuses  \* status codes upstream answers with

\* What the client's transport returns and the server's WriteHeader takes.
FinalStatuses == {101} \cup 200..999

ASSUME RequestAssumption ==
  /\ IsFiniteSet(Requests)
  /\ MaxBody \in Nat \ {0}
  /\ Budget \in Nat
  /\ MaxBody <= Budget
  /\ Lengths \subseteq Int
  /\ ChunkedSizes \subseteq Nat
  /\ RewriteFactor \in Nat /\ KeyLength \in Nat
  /\ CaptureLimit \in Nat \ {0}
  /\ UpstreamStatuses \subseteq FinalStatuses

VARIABLES avail, phase, size, overdue,   \* the budget (BodyBudget)
          pc,        \* where each handler is
          length,    \* the request's Content-Length
          body,      \* units of its body held in memory
          forwarded, \* upstreamBody: units of a rewritten body held besides
          audited,   \* units in logEntry.RequestBody and logEntry.UpstreamBody
          stream,    \* it asked for a streamed response
          entry,     \* logEntry, the audit row being filled in
          sent,      \* capture.statusCode: the status written through capture
          seen,      \* the status line the client was really sent
          whole,     \* the client was written all of upstream's body
          panicked,  \* the handler is unwinding from a panic
          row        \* the row the store keeps of the slot's last request

budgetVars == <<avail, phase, size, overdue>>
copies == <<body, forwarded, audited>>
handlerVars == <<length, copies, stream, entry, sent, seen, whole, panicked, row>>
requestVars == <<budgetVars, pc, handlerVars>>

Bodies == INSTANCE BodyBudget

(***************************************************************************)
(* The fields of store.RequestLog the handler's control flow sets. status  *)
(* is StatusCode, client is ClientResponseStatusCode, upstream is          *)
(* UpstreamResponseStatusCode; error says that Error is not empty.         *)
(***************************************************************************)
newAuditLog == [status |-> 0, client |-> 0, upstream |-> 0,
                error |-> FALSE, success |-> FALSE, usage |-> FALSE]

NoRow == [lost |-> TRUE]

Working == {"admit", "read", "resolve", "build", "do", "relay", "copy"}

RequestInit ==
  /\ Bodies!Init
  /\ pc = [r \in Requests |-> "idle"]
  /\ length = [r \in Requests |-> 0]
  /\ body = [r \in Requests |-> 0]
  /\ forwarded = [r \in Requests |-> 0]
  /\ audited = [r \in Requests |-> 0]
  /\ stream = [r \in Requests |-> FALSE]
  /\ entry = [r \in Requests |-> newAuditLog]
  /\ sent = [r \in Requests |-> 0]
  /\ seen = [r \in Requests |-> 0]
  /\ whole = [r \in Requests |-> FALSE]
  /\ panicked = [r \in Requests |-> FALSE]
  /\ row = [r \in Requests |-> NoRow]
-------------------------------------------------------------------------------
GoTo(r, next) == pc' = [pc EXCEPT ![r] = next]

(***************************************************************************)
(* responseCapture.WriteHeader: the first status wins and reaches the      *)
(* client.                                                                 *)
(***************************************************************************)
WriteHeader(r, status) ==
  /\ sent' = [sent EXCEPT ![r] = IF @ = 0 THEN status ELSE @]
  /\ seen' = [seen EXCEPT ![r] = IF @ = 0 THEN status ELSE @]

(***************************************************************************)
(* The handler answers with an error of its own: Error and StatusCode of   *)
(* the row, WriteError, return.                                            *)
(***************************************************************************)
Reject(r, status, next) ==
  /\ entry' = [entry EXCEPT ![r].error = TRUE, ![r].status = status]
  /\ WriteHeader(r, status)
  /\ GoTo(r, next)
  /\ UNCHANGED <<length, stream, whole, panicked, row>>

(***************************************************************************)
(* An adapter panics: nothing is recorded, the deferred calls run.         *)
(***************************************************************************)
\* Mutant of Panic: a panic skips the release.
PanicKeepingCharge(r) ==
  /\ panicked' = [panicked EXCEPT ![r] = TRUE]
  /\ GoTo(r, "audit")
  /\ UNCHANGED <<budgetVars, length, copies, stream, entry, sent, seen, whole, row>>

Panic(r) ==
  /\ panicked' = [panicked EXCEPT ![r] = TRUE]
  /\ GoTo(r, "release")
  /\ UNCHANGED <<budgetVars, length, copies, stream, entry, sent, seen, whole, row>>

Arrive(r) ==
  /\ pc[r] = "idle"
  /\ \E l \in Lengths :
       /\ Bodies!Ask(r)
       /\ size'[r] = Bodies!chargeForBody(l)
       /\ length' = [length EXCEPT ![r] = l]
  /\ entry' = [entry EXCEPT ![r] = newAuditLog]
  /\ sent' = [sent EXCEPT ![r] = 0]
  /\ seen' = [seen EXCEPT ![r] = 0]
  /\ whole' = [whole EXCEPT ![r] = FALSE]
  /\ panicked' = [panicked EXCEPT ![r] = FALSE]
  /\ stream' = [stream EXCEPT ![r] = FALSE]
  /\ row' = [row EXCEPT ![r] = NoRow]
  /\ GoTo(r, "admit")
  /\ UNCHANGED copies

Overdue(r) ==
  /\ ~overdue[r]
  /\ Bodies!BecomeOverdue(r)
  /\ UNCHANGED <<pc, handlerVars>>

Admit(r) ==
  /\ pc[r] = "admit"
  /\ Bodies!Grant(r)
  /\ GoTo(r, "read")
  /\ UNCHANGED handlerVars

(***************************************************************************)
(* admitBody fails: 503, and the release it returns does nothing.          *)
(***************************************************************************)
\* Mutant of RefuseAdmission: a refused request is not answered.
RefuseAdmissionSilently(r) ==
  /\ pc[r] = "admit"
  /\ Bodies!Refuse(r)
  /\ GoTo(r, "audit")
  /\ UNCHANGED handlerVars

RefuseAdmission(r) ==
  /\ pc[r] = "admit"
  /\ Bodies!Refuse(r)
  /\ Reject(r, 503, "audit")
  /\ UNCHANGED copies

(***************************************************************************)
(* capBody: an audit copy, cut at the capture limit. It is charged to      *)
(* nobody.                                                                 *)
(***************************************************************************)
capBody(n) == IF n > CaptureLimit THEN CaptureLimit ELSE n

KeepCopy(r, n) == audited' = [audited EXCEPT ![r] = @ + capBody(n)]

(***************************************************************************)
(* readRequestBody. A body declared too large is refused unread; a chunked *)
(* one when MaxBytesReader, set to maxBodyBytes + 1, overflows; any body   *)
(* may fail to arrive (400).                                               *)
(***************************************************************************)
BodySizes(r) == IF length[r] < 0 THEN ChunkedSizes ELSE {length[r]}

readRequestBodyRejects(r) ==
  /\ pc[r] = "read"
  /\ \/ length[r] > MaxBody /\ Reject(r, 413, "release")
     \/ /\ length[r] <= MaxBody
        /\ \E n \in BodySizes(r) : n > MaxBody + 1
        /\ Reject(r, 413, "release")
     \/ length[r] <= MaxBody /\ Reject(r, 400, "release")
  /\ UNCHANGED <<budgetVars, copies>>

\* Mutant of readRequestBody: a chunked body read without MaxBytesReader.
readRequestBodyUnlimited(r) ==
  /\ pc[r] = "read"
  /\ length[r] <= MaxBody
  /\ \E n \in BodySizes(r) : body' = [body EXCEPT ![r] = n] /\ KeepCopy(r, n)
  /\ \E s \in BOOLEAN : stream' = [stream EXCEPT ![r] = s]
  /\ GoTo(r, "resolve")
  /\ UNCHANGED <<budgetVars, length, forwarded, entry, sent, seen, whole, panicked, row>>

readRequestBody(r) ==
  /\ pc[r] = "read"
  /\ length[r] <= MaxBody
  /\ \E n \in BodySizes(r) :
       /\ n <= MaxBody + 1
       /\ body' = [body EXCEPT ![r] = n]
       /\ KeepCopy(r, n)
  /\ \E s \in BOOLEAN : stream' = [stream EXCEPT ![r] = s]
  /\ GoTo(r, "resolve")
  /\ UNCHANGED <<budgetVars, length, forwarded, entry, sent, seen, whole, panicked, row>>

(***************************************************************************)
(* resolveGateway: unknown path, no adapter, gateway disabled, method or   *)
(* path refused, body invalid; or the gateway is found.                    *)
(***************************************************************************)
resolveGateway(r) ==
  /\ pc[r] = "resolve"
  /\ \/ /\ \E status \in {404, 501, 503, 405, 400} : Reject(r, status, "release")
        /\ UNCHANGED <<budgetVars, copies>>
     \/ Panic(r)
     \/ GoTo(r, "build") /\ UNCHANGED <<budgetVars, handlerVars>>

(***************************************************************************)
(* buildUpstreamRequest: no base URL, unusable URL, untransformable body;  *)
(* or the adapter hands on the bytes it got or a body of its own, to which *)
(* a prompt_cache_key may be added, and the audit row gets a copy of what  *)
(* is to be sent. http.NewRequest may then still refuse the URL.           *)
(***************************************************************************)
RewriteBound(n) == RewriteFactor * n + KeyLength

TransformBody(r) ==
  \/ UNCHANGED forwarded /\ KeepCopy(r, body[r])
  \/ \E n \in 1..RewriteBound(body[r]) :
       forwarded' = [forwarded EXCEPT ![r] = n] /\ KeepCopy(r, n)

buildUpstreamRequest(r) ==
  /\ pc[r] = "build"
  /\ \/ /\ \E status \in {503, 502, 400} : Reject(r, status, "release")
        /\ UNCHANGED <<budgetVars, copies>>
     \/ Panic(r)
     \/ /\ TransformBody(r)
        /\ \/ Reject(r, 502, "release")
           \/ /\ GoTo(r, "do")
              /\ UNCHANGED <<length, stream, entry, sent, seen, whole, panicked, row>>
        /\ UNCHANGED <<budgetVars, body>>

(***************************************************************************)
(* client.Do fails: 504 when the context is done or timed out, 502         *)
(* otherwise. Nothing was sent yet, so ServeHTTP answers.                  *)
(***************************************************************************)
upstreamFails(r) ==
  /\ pc[r] = "do"
  /\ \E status \in {504, 502} : Reject(r, status, "release")
  /\ UNCHANGED <<budgetVars, copies>>

(***************************************************************************)
(* client.Do answers: the row takes upstream's status. Below 400 the       *)
(* status line is passed on at once.                                       *)
(***************************************************************************)
upstreamAnswers(r) ==
  /\ pc[r] = "do"
  /\ \E s \in UpstreamStatuses :
       /\ entry' = [entry EXCEPT ![r].status = s, ![r].upstream = s]
       /\ IF s >= 400
            THEN GoTo(r, "relay") /\ UNCHANGED <<sent, seen>>
            ELSE GoTo(r, "copy") /\ WriteHeader(r, s)
  /\ UNCHANGED <<budgetVars, length, copies, stream, whole, panicked, row>>

(***************************************************************************)
(* An upstream error is read (in full or not), then passed on with its     *)
(* status. Neither the read nor the write error changes the outcome.       *)
(***************************************************************************)
\* Mutant of relayUpstreamError: only a failed read is an error of the row.
relayUpstreamErrorUnexplained(r) ==
  /\ pc[r] = "relay"
  /\ \E readFailed \in BOOLEAN :
       /\ entry' = [entry EXCEPT ![r].error = readFailed]
       /\ whole' = [whole EXCEPT ![r] = ~readFailed]
  /\ WriteHeader(r, entry[r].upstream)
  /\ GoTo(r, "release")
  /\ UNCHANGED <<budgetVars, length, copies, stream, panicked, row>>

relayUpstreamError(r) ==
  /\ pc[r] = "relay"
  /\ entry' = [entry EXCEPT ![r].error = TRUE, ![r].success = FALSE]
  /\ \E all \in BOOLEAN : whole' = [whole EXCEPT ![r] = all]
  /\ WriteHeader(r, entry[r].upstream)
  /\ GoTo(r, "release")
  /\ UNCHANGED <<budgetVars, length, copies, stream, panicked, row>>

Is2xx(status) == status \in 200..299

(***************************************************************************)
(* The body is copied through the adapter. It arrives whole, or the copy   *)
(* fails (upstream broke off, the deadline struck, the client left), or an *)
(* answer that is not an event stream is rejected by the adapter and       *)
(* passed on as it came: an error of the row although the client got all.  *)
(***************************************************************************)
\* Mutant of copyResponse: success judged by the status alone.
copyResponseIgnoringErrors(r) ==
  /\ pc[r] = "copy"
  /\ \E ok, counted, all \in BOOLEAN :
       /\ ok => all
       /\ entry' = [entry EXCEPT ![r].error = ~ok,
                                 ![r].success = Is2xx(entry[r].upstream),
                                 ![r].usage = Is2xx(entry[r].upstream) /\ counted]
       /\ whole' = [whole EXCEPT ![r] = all]
  /\ GoTo(r, "release")
  /\ UNCHANGED <<budgetVars, length, copies, stream, sent, seen, panicked, row>>

copyResponse(r) ==
  /\ pc[r] = "copy"
  /\ \/ /\ \E counted \in BOOLEAN :
             entry' = [entry EXCEPT ![r].success = Is2xx(entry[r].upstream),
                                    ![r].usage = Is2xx(entry[r].upstream) /\ counted]
        /\ whole' = [whole EXCEPT ![r] = TRUE]
     \/ /\ entry' = [entry EXCEPT ![r].error = TRUE]
        /\ \E all \in BOOLEAN : whole' = [whole EXCEPT ![r] = all]
  /\ GoTo(r, "release")
  /\ UNCHANGED <<budgetVars, length, copies, stream, sent, seen, panicked, row>>

copyPanics(r) == pc[r] = "copy" /\ Panic(r)
-------------------------------------------------------------------------------
(***************************************************************************)
(* The deferred calls run in reverse: the body's charge goes back first,   *)
(* with the bodies that were only the handler's, then the row is finished  *)
(* and written, within 15 s or not at all. Its copies live until then.     *)
(***************************************************************************)
release(r) ==
  /\ pc[r] = "release"
  /\ Bodies!GiveBack(r)
  /\ body' = [body EXCEPT ![r] = 0]
  /\ forwarded' = [forwarded EXCEPT ![r] = 0]
  /\ GoTo(r, "audit")
  /\ UNCHANGED <<length, audited, stream, entry, sent, seen, whole, panicked, row>>

(***************************************************************************)
(* finalizeLog: the client's status is the one captured; a row without a   *)
(* status takes it, or 500 if nothing was sent.                            *)
(***************************************************************************)
Finalized(e, captured) ==
  LET status == IF e.status = 0 THEN captured ELSE e.status
  IN [e EXCEPT !.client = captured,
               !.status = IF status = 0 THEN 500 ELSE status]

\* Mutant of finalizeLog: only panics get a status of their own.
finalizeLogAlways500(r) ==
  /\ pc[r] = "audit"
  /\ LET final == [entry[r] EXCEPT !.client = sent[r],
                                   !.status = IF panicked[r] THEN 500 ELSE @]
     IN /\ entry' = [entry EXCEPT ![r] = final]
        /\ \E stored \in {final, NoRow} : row' = [row EXCEPT ![r] = stored]
  /\ audited' = [audited EXCEPT ![r] = 0]
  /\ GoTo(r, IF panicked[r] THEN "recover" ELSE "idle")
  /\ UNCHANGED <<budgetVars, length, body, forwarded, stream, sent, seen, whole, panicked>>

finalizeLog(r) ==
  /\ pc[r] = "audit"
  /\ LET final == Finalized(entry[r], sent[r])
     IN /\ entry' = [entry EXCEPT ![r] = final]
        /\ \E stored \in {final, NoRow} : row' = [row EXCEPT ![r] = stored]
  /\ audited' = [audited EXCEPT ![r] = 0]
  /\ GoTo(r, IF panicked[r] THEN "recover" ELSE "idle")
  /\ UNCHANGED <<budgetVars, length, body, forwarded, stream, sent, seen, whole, panicked>>

(***************************************************************************)
(* RecoverMiddleware answers 500 past the capture, if nothing was sent.    *)
(***************************************************************************)
recoverPanic(r) ==
  /\ pc[r] = "recover"
  /\ seen' = [seen EXCEPT ![r] = IF @ = 0 THEN 500 ELSE @]
  /\ GoTo(r, "idle")
  /\ UNCHANGED <<budgetVars, length, copies, stream, entry, sent, whole, panicked, row>>

(***************************************************************************)
(* upstreamContext: a plain request carries a deadline that also ends the  *)
(* reading of its response, error bodies included; a stream has only its   *)
(* client's context.                                                       *)
(***************************************************************************)
\* Mutant of HasDeadline: no request carries a deadline.
NoDeadline(r) == FALSE

HasDeadline(r) == ~stream[r]

ReadStep(r) == relayUpstreamError(r) \/ copyResponse(r) \/ copyPanics(r)

(***************************************************************************)
(* These steps end whatever the request is: the body read within the       *)
(* server's ReadTimeout, upstream's answer within the deadline or the      *)
(* stream client's header timeout (once upstream has taken the request's   *)
(* bytes), the audit write within 15 s.                                    *)
(***************************************************************************)
BoundedStep(r) == \/ Admit(r) \/ RefuseAdmission(r)
                  \/ readRequestBodyRejects(r) \/ readRequestBody(r)
                  \/ resolveGateway(r)
                  \/ buildUpstreamRequest(r)
                  \/ upstreamFails(r) \/ upstreamAnswers(r)
                  \/ release(r) \/ finalizeLog(r) \/ recoverPanic(r)

RequestNext == \E r \in Requests :
                 Arrive(r) \/ Overdue(r) \/ BoundedStep(r) \/ ReadStep(r)

(***************************************************************************)
(* The environment's part: the client reads what it is written or leaves   *)
(* (the server sets no WriteTimeout).                                      *)
(***************************************************************************)
RequestFairness == \A r \in Requests :
                     /\ WF_requestVars(Overdue(r))
                     /\ WF_requestVars(BoundedStep(r))
                     /\ WF_requestVars(HasDeadline(r) /\ ReadStep(r))

RequestSafety == RequestInit /\ [][RequestNext]_requestVars
RequestSpec == RequestSafety /\ RequestFairness
-------------------------------------------------------------------------------
Answered(r) == pc[r] = "idle" /\ row[r] # NoRow

(***************************************************************************)
(* A row's StatusCode is the status line the client was sent, whichever of *)
(* the handler's returns, upstream's answers or panics ended the request;  *)
(* also when finalizeLog writes the row before RecoverMiddleware answers.  *)
(***************************************************************************)
RowTellsStatus == \A r \in Requests : Answered(r) => row[r].status = seen[r]

(***************************************************************************)
(* A row that says Success is of a request whose client was written the    *)
(* whole of a 2xx upstream answer under upstream's own status, and carries *)
(* no Error; usage is counted for no other row.                            *)
(***************************************************************************)
SuccessMeansDelivered ==
  \A r \in Requests : Answered(r) =>
    /\ row[r].success =>
         /\ whole[r] /\ ~panicked[r] /\ ~row[r].error
         /\ Is2xx(seen[r])
         /\ row[r].upstream = seen[r] /\ row[r].client = seen[r]
    /\ row[r].usage => row[r].success

(***************************************************************************)
(* A row that does not say Success says why, except after a panic and for  *)
(* an upstream redirect or other answer between 300 and 399, or a 101,     *)
(* whose row the code leaves without an Error.                             *)
(***************************************************************************)
FailureExplained ==
  \A r \in Requests : Answered(r) =>
    row[r].success \/ row[r].error \/ panicked[r]
      \/ row[r].upstream \in {101} \cup 300..399

\* The row of an ended request tells how it ended (proxy.go:132-144, 343-391,
\* 431-458, middleware.go:28-38): the three parts above.
RowTellsOutcome == RowTellsStatus /\ SuccessMeansDelivered /\ FailureExplained

HeldBy(r) == IF phase[r] = "holding" THEN size[r] ELSE 0

(***************************************************************************)
(* What the budget covers and what it does not. No request sits on it      *)
(* while its audit row is written (the order of ServeHTTP's defers), and   *)
(* none that ended, by any return or panic, still holds a charge. The body *)
(* that is read is only in memory under a charge that covers it, but for   *)
(* one unit: MaxBytesReader is given one byte more than maxBodyBytes, and  *)
(* a chunked body of that length is read and forwarded under a charge of   *)
(* maxBodyBytes (proxy.go:156). Charged to nobody are a body the adapter   *)
(* has rewritten, which ends with the charge, and the row's two copies,    *)
(* which outlive the charge and are gone once the row is written           *)
(* (proxy.go:165, 230-242): the 64 MB of README.md:73 bound neither.       *)
(***************************************************************************)
BodyCharged(r) ==
  body[r] # 0 =>
    /\ phase[r] = "holding"
    /\ body[r] <= size[r] \/ (length[r] < 0 /\ body[r] = MaxBody + 1)

RewriteEndsWithCharge(r) ==
  forwarded[r] # 0 => phase[r] = "holding" /\ forwarded[r] <= RewriteBound(body[r])

CopiesEndWithRow(r) ==
  /\ audited[r] <= 2 * CaptureLimit
  /\ pc[r] \in {"idle", "admit", "recover"} => audited[r] = 0

ChargeCoversBody ==
  /\ \A r \in Requests :
       phase[r] = "holding" <=> pc[r] \in {"release"} \cup (Working \ {"admit"})
  /\ avail + SumFunctionOnSet([r \in Requests |-> HeldBy(r)], Requests) = Budget
  /\ \A r \in Requests : BodyCharged(r) /\ RewriteEndsWithCharge(r) /\ CopiesEndWithRow(r)

(***************************************************************************)
(* Every request is answered, even while other requests stream for ever on *)
(* the whole of the budget. The exception is the code's: the error body of *)
(* a streamed request is read to its end, without a deadline, before the   *)
(* status line is passed on. A request that does not stream also ends: its *)
(* charge is returned and its row attempted (proxy.go:60-119, 183-191).    *)
(***************************************************************************)
EveryRequestAnswered ==
  \A r \in Requests :
    /\ pc[r] = "admit" ~> seen[r] # 0 \/ (stream[r] /\ pc[r] = "relay")
    /\ pc[r] \in Working \cup {"release"} /\ ~stream[r] ~> pc[r] = "idle" \/ stream[r]
===============================================================================
