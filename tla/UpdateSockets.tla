--------------------------- MODULE UpdateSockets ---------------------------
(***************************************************************************)
(* How a page learns of the end of the run or submission it has posted.    *)
(* The page opens a WebSocket (frontend/src/app/problems/[id]/page.tsx);   *)
(* its handler sends the row as it is, subscribes to the job's Redis       *)
(* channel and forwards what workers publish (internal/server/             *)
(* ws_handler.go); workers publish when they start and when they finish    *)
(* (internal/worker/pool.go, internal/judge/engine.go).                    *)
(*                                                                         *)
(* One page watches one row.  The row of a run is the one of               *)
(* ExecutionStore with its statements; here a worker may claim it whenever *)
(* the WHERE clause allows (RunPipeline models the messages).  The row of  *)
(* a submission is judged once and by one worker (SubmissionJudging).      *)
(*                                                                         *)
(* Redis keeps no published message: it reaches who is subscribed at that  *)
(* moment.  Subscribe of the Redis client does not wait for the answer of  *)
(* the server, so the subscription takes effect some time later.           *)
(***************************************************************************)
EXTENDS ExecutionStore, Sequences

CONSTANTS
  Id,         \* the id of the watched row
  Kind,       \* what may be watched: "run", "submission"
  MaxFaults   \* bound: faults per behaviour

ASSUME SocketConstants ==
  /\ Job = {Id}
  /\ Kind \subseteq {"run", "submission"}
  /\ MaxFaults \in Nat

VARIABLES
  kind,        \* what the page has posted
  submission,  \* the row of the submission
  ann,         \* ann[w]: progress of worker w and the copy it will publish
  inbox,       \* published messages the handler has not received yet
  sock,        \* the handler
  wire,        \* frames on their way to the page
  page,        \* the page: what it waits for and the last state it showed
  faults       \* faults so far

workVars == <<executions, submission, ann>>
sockVars == <<sock, inbox>>
vars == <<kind, executions, submission, ann, inbox, sock, wire, page, faults>>

\* What of a row the two sides look at: the results or the verdict.
State(status, answer) == [status |-> status, answer |-> answer]

RowNow == IF kind = "run" THEN State(executions[Id].status, executions[Id].results)
                          ELSE submission

\* The statuses on which the handlers close the socket.
Over(s) == s.status \in IF kind = "run" THEN {"COMPLETED", "DEAD_LETTERED"} ELSE {"COMPLETED"}

\* The states on which the page stops waiting.
PageDone(s) == IF kind = "run"
               THEN s.status \in {"COMPLETED", "DEAD_LETTERED", "FAILED"}
               ELSE s.answer # "PENDING" /\ s.status \notin {"QUEUED", "RUNNING"}

NotFound == State("undefined", "undefined")      \* {"error": "not found"}
Nothing  == State("none", "none")

Data(s) == [frame |-> "data", state |-> s]
Close   == [frame |-> "close", state |-> Nothing]   \* a close frame
Cut     == [frame |-> "cut", state |-> Nothing]     \* the connection just ends

Resting == [pc |-> "idle", copy |-> Nothing]

Init ==
  /\ kind \in Kind
  /\ executions \in [Job -> {QueuedRow(m) : m \in MaxAttempts}]
  /\ submission = State("QUEUED", "PENDING")
  /\ ann   = [w \in Worker |-> Resting]
  /\ inbox = <<>>
  /\ sock  = [pc |-> "none", sub |-> "off"]
  /\ wire  = <<>>
  /\ page  = [pc |-> "posted", shown |-> Nothing]
  /\ faults = 0

Fault == faults < MaxFaults /\ faults' = faults + 1

-----------------------------------------------------------------------------
(* Workers *)

At(w, k)     == ann[w].pc = k
Go(w, k)     == ann' = [ann EXCEPT ![w].pc = k]
Take(w, k, s) == ann' = [ann EXCEPT ![w] = [pc |-> k, copy |-> s]]
Stop(w)      == ann' = [ann EXCEPT ![w] = [Resting EXCEPT !.pc = IF kind = "run" THEN "idle" ELSE "done"]]

OnRow == UNCHANGED <<kind, inbox, sock, wire, page, faults>>

\* PublishJobUpdate
Publish(s) ==
  /\ inbox' = IF sock.sub = "on" THEN Append(inbox, s) ELSE inbox
  /\ UNCHANGED <<kind, executions, submission, sock, wire, page>>

AfterTelling(w) == IF At(w, "tell") THEN Go(w, "work") ELSE Stop(w)

Tell(w) ==
  /\ ann[w].pc \in {"tell", "tellEnd"}
  /\ Publish(ann[w].copy)
  /\ AfterTelling(w)
  /\ UNCHANGED faults

(* processRun *)

TakeRun(w) ==
  /\ kind = "run" /\ At(w, "idle")
  /\ Claim(Id, w) /\ Go(w, "claimed")
  /\ UNCHANGED submission /\ OnRow

StartRun(w) ==
  /\ kind = "run" /\ At(w, "claimed")
  /\ MarkRunning(Id, w) /\ Go(w, "fetch")
  /\ UNCHANGED submission /\ OnRow

\* Both Gets; the second is made for the sake of publishing.
FetchRun(w) ==
  /\ At(w, "fetch") /\ Take(w, "tell", RowNow)
  /\ UNCHANGED <<executions, submission>> /\ OnRow

RefetchReusesJob(w) ==
  /\ At(w, "refetch") /\ Go(w, "tellEnd")
  /\ UNCHANGED <<executions, submission>> /\ OnRow
RefetchRun(w) ==
  /\ At(w, "refetch") /\ Take(w, "tellEnd", RowNow)
  /\ UNCHANGED <<executions, submission>> /\ OnRow

\* Every input was executed.
FinishTellsFirst(w) ==
  /\ kind = "run" /\ At(w, "work")
  /\ \E res \in Result : Take(w, "tellEnd", State("COMPLETED", res))
  /\ UNCHANGED <<executions, submission>> /\ OnRow
FinishRun(w) ==
  /\ kind = "run" /\ At(w, "work")
  /\ \E res \in Result : Complete(Id, w, res)
  /\ Go(w, "refetch")
  /\ UNCHANGED submission /\ OnRow

\* Platform failure: nothing is published.
FailRun(w) ==
  /\ kind = "run" /\ At(w, "work")
  /\ FailJob(Id, w, "future") /\ Stop(w)
  /\ UNCHANGED submission /\ OnRow

\* ErrInvalidState from MarkRunning, Complete or FailJob.
Refused(w) ==
  /\ kind = "run"
  /\ \/ At(w, "claimed") /\ ~ HeldBy(executions[Id], w)
     \/ At(w, "work") /\ ~ Completable(executions[Id], w)
  /\ Stop(w)
  /\ UNCHANGED <<executions, submission>> /\ OnRow

(* Judge *)

TakeSubmission(w) ==
  /\ kind = "submission" /\ \A v \in Worker : At(v, "idle")
  /\ Take(w, "update", State("RUNNING", submission.answer))
  /\ UNCHANGED <<executions, submission>> /\ OnRow

SaveSubmission(w) ==
  /\ ann[w].pc \in {"update", "finalize"}
  /\ submission' = ann[w].copy
  /\ Go(w, IF At(w, "update") THEN "tell" ELSE "tellEnd")
  /\ UNCHANGED executions /\ OnRow

\* Judge leaves with a verdict, whichever it is; the deferred function goes on.
Decide(w) ==
  /\ kind = "submission" /\ At(w, "work")
  /\ Take(w, "finalize", State("COMPLETED", "VERDICT"))
  /\ UNCHANGED <<executions, submission>> /\ OnRow

WorkerStep(w) ==
  \/ TakeRun(w) \/ StartRun(w) \/ FetchRun(w) \/ FinishRun(w) \/ FailRun(w)
  \/ RefetchRun(w) \/ Refused(w)
  \/ TakeSubmission(w) \/ SaveSubmission(w) \/ Decide(w)
  \/ Tell(w)

(* Their faults *)

\* PUBLISH, or an Update of Judge, fails; both errors are dropped.
IgnoredCallFails(w) ==
  /\ Fault
  /\ \/ ann[w].pc \in {"tell", "tellEnd"} /\ AfterTelling(w)
     \/ At(w, "update") /\ Go(w, "tell")
     \/ At(w, "finalize") /\ Go(w, "tellEnd")
  /\ UNCHANGED <<kind, executions, submission, inbox, sock, wire, page>>

\* The worker dies, or gives up on a failed call.
Abandon(w) ==
  /\ Fault
  /\ ann[w].pc \notin {"idle", "done"}
  /\ Stop(w)
  /\ UNCHANGED <<kind, executions, submission, inbox, sock, wire, page>>

\* A panic: FailJob for a run; Judge's deferred function for a submission.
Panic(w) ==
  /\ Fault
  /\ \/ /\ kind = "run" /\ ann[w].pc # "idle"
        /\ FailJob(Id, w, "due") /\ Stop(w)
     \/ /\ kind = "submission" /\ At(w, "work")
        /\ Take(w, "finalize", State("COMPLETED", "PENDING"))
        /\ UNCHANGED executions
  /\ UNCHANGED <<kind, submission, inbox, sock, wire, page>>

(* The rest of the table: renewal, recovery, and NOW(). *)
TableStep ==
  /\ kind = "run"
  /\ \/ \E w \in Worker : ~ At(w, "idle") /\ RenewLease(Id, w)
     \/ RecoverAbandonedJobs
     \/ LeaseExpires(Id)
     \/ RetryComesDue(Id)
  /\ UNCHANGED <<submission, ann>> /\ OnRow

-----------------------------------------------------------------------------
(* handleRunWS and handleSubmissionWS *)

Left == page.pc \in {"ended", "failed", "gone"}     \* the client's end is closed

\* Writing to a connection the page has closed fails; the error is dropped.
Write(frames) == wire' = IF Left THEN wire ELSE wire \o frames

\* Any return runs the deferred pubsub.Close and conn.Close.
Return == sock' = [pc |-> "closed", sub |-> "closed"] /\ inbox' = <<>>

OnSocket == UNCHANGED <<kind, workVars, page>>

\* Upgrade, which the handler does first.
Connect ==
  /\ page.pc = "posted"
  /\ page' = [page EXCEPT !.pc = "waiting"]
  /\ sock' = [sock EXCEPT !.pc = "get"]
  /\ UNCHANGED <<kind, workVars, inbox, wire, faults>>

\* The initial fetch: sent, and final if the job is already over.
InitialFetch ==
  /\ sock.pc = "get"
  /\ IF Over(RowNow)
     THEN Write(<<Data(RowNow), Close>>) /\ Return
     ELSE /\ Write(<<Data(RowNow)>>)
          /\ sock' = [sock EXCEPT !.pc = "subscribe"] /\ UNCHANGED inbox
  /\ OnSocket /\ UNCHANGED faults

\* Any error of the fetch is reported as "not found".
FetchFails ==
  /\ sock.pc = "get" /\ Fault
  /\ Write(<<Data(NotFound), Cut>>) /\ Return
  /\ OnSocket

Subscribe ==
  /\ sock.pc = "subscribe"
  /\ sock' = [pc |-> "listen", sub |-> "asked"]
  /\ OnSocket /\ UNCHANGED <<inbox, wire, faults>>

\* Redis takes the subscription.
SubscriptionStarts ==
  /\ sock.sub = "asked"
  /\ sock' = [sock EXCEPT !.sub = "on"]
  /\ OnSocket /\ UNCHANGED <<inbox, wire, faults>>

Receive ==
  /\ sock.pc = "listen" /\ inbox # <<>>
  /\ IF Over(Head(inbox))
     THEN Write(<<Data(Head(inbox)), Close>>) /\ Return
     ELSE Write(<<Data(Head(inbox))>>) /\ inbox' = Tail(inbox) /\ UNCHANGED sock
  /\ OnSocket /\ UNCHANGED faults

\* The reader goroutine sees the page's end of the connection close.
ReaderCloses ==
  /\ sock.pc = "listen" /\ sock.sub # "closed" /\ Left
  /\ sock' = [sock EXCEPT !.sub = "closed"]
  /\ OnSocket /\ UNCHANGED <<inbox, wire, faults>>

\* A loop that skips nil and drops the error of a ping as it does other errors.
LoopSkipsNil ==
  /\ sock.pc = "listen" /\ sock.sub = "closed" /\ inbox = <<>>
  /\ UNCHANGED <<sock, inbox, wire, faults>> /\ OnSocket
\* Its channel closed and empty, the loop receives nil and the dereference
\* panics, which the RecoverPanic middleware catches; or a ping fails first.
LoopEnds ==
  /\ sock.pc = "listen"
  /\ \/ sock.sub = "closed" /\ inbox = <<>>
     \/ Left
  /\ Return
  /\ OnSocket /\ UNCHANGED <<wire, faults>>

\* The API process dies.
ServerDies ==
  /\ sock.pc \notin {"none", "closed"} /\ Fault
  /\ Write(<<Cut>>) /\ Return
  /\ OnSocket

SocketStep == \/ InitialFetch \/ Subscribe \/ SubscriptionStarts
              \/ Receive \/ ReaderCloses \/ LoopEnds

-----------------------------------------------------------------------------
(* handleRun and handleSubmit of the page *)

OnPage == UNCHANGED <<kind, workVars, sockVars, faults>>

\* onmessage
PageMessage ==
  /\ page.pc = "waiting" /\ wire # <<>> /\ Head(wire).frame = "data"
  /\ LET s == Head(wire).state IN
       IF PageDone(s) THEN page' = [pc |-> "ended", shown |-> s] /\ wire' = <<>>
                      ELSE page' = [page EXCEPT !.shown = s] /\ wire' = Tail(wire)
  /\ OnPage

\* The page has no onclose; whether a broken connection calls onerror is the
\* browser's business.
PageClosed ==
  /\ page.pc = "waiting" /\ wire # <<>> /\ Head(wire).frame # "data"
  /\ page' \in {page} \cup IF Head(wire).frame = "cut" THEN {[page EXCEPT !.pc = "failed"]} ELSE {}
  /\ wire' = Tail(wire)
  /\ OnPage

PageLeaves ==
  /\ page.pc = "waiting"
  /\ page' = [page EXCEPT !.pc = "gone"] /\ wire' = <<>>
  /\ OnPage

PageStep == PageMessage \/ PageClosed

Next ==
  \/ \E w \in Worker : WorkerStep(w) \/ IgnoredCallFails(w) \/ Abandon(w) \/ Panic(w)
  \/ TableStep
  \/ Connect \/ SocketStep \/ FetchFails \/ ServerDies
  \/ PageStep \/ PageLeaves

\* Workers, server, browser and Redis go on; time passes.
Spec ==
  /\ Init /\ [][Next]_vars
  /\ \A w \in Worker : WF_vars(WorkerStep(w))
  /\ WF_vars(kind = "run" /\ RetryComesDue(Id) /\ UNCHANGED <<submission, ann>> /\ OnRow)
  /\ WF_vars(SocketStep) /\ WF_vars(SubscriptionStarts) /\ WF_vars(PageStep)

-----------------------------------------------------------------------------
(* Properties *)

\* A page that stops waiting shows how the job really ended: for a run also
\* with slow workers whose lease was taken away, dead letters and failing
\* calls, since what is published is read back from the table.  Judge publishes
\* its own copy even if the update failed, so for a submission this needs calls
\* that succeed.
ShownEndIsTheEnd ==
  (page.pc = "ended" /\ (kind = "run" \/ faults = 0)) => page.shown = RowNow

\* A page that is subscribed before the job ends is told, unless the run is
\* dead-lettered (which nobody publishes) or something fails.  If the job ends
\* between the initial fetch and the subscription, nothing tells the page.
SubscriberIsTold ==
  (sock.sub = "on" /\ page.pc = "waiting" /\ ~ Over(RowNow)) ~>
    (page.pc # "waiting" \/ RowNow.status = "DEAD_LETTERED" \/ faults > 0)

\* A handler does not outlive its page: whenever the page leaves, in the middle
\* of the subscription too or with updates in the channel, and whoever of reader
\* goroutine and ping notices first, the handler returns and its subscription is
\* closed, although nothing may ever be published again and writes drop errors.
HandlerEndsWithPage == Left ~> (sock.pc = "closed" /\ sock.sub = "closed")
=============================================================================
