------------------------ MODULE UpdateSocketsProofs ------------------------
(***************************************************************************)
(* Proofs about UpdateSockets for any set of workers, results and budgets  *)
(* and any number of faults.                                               *)
(*                                                                         *)
(* What ends the waiting of the page passes through four hands: the copy   *)
(* of a worker that is about to publish, the inbox of the handler, the     *)
(* wire, and the page.  The invariant says of each that a state on which   *)
(* the page would stop is the row as it is now; it stays so because such a *)
(* row is never written again, which for a run is the store's theorem      *)
(* TerminalIsFinal, and for a submission follows from its one judge.       *)
(***************************************************************************)
EXTENDS UpdateSockets, ExecutionStoreProofs, SequenceTheorems

\* The states anybody ever holds.
Seen == [status : JobStatus \cup {"ABSENT", "undefined", "none"},
         answer : Result \cup {NoResult, "PENDING", "VERDICT", "undefined", "none"}]

Frame == [frame : {"data", "close", "cut"}, state : Seen]

RunPC == {"idle", "claimed", "fetch", "tell", "work", "refetch", "tellEnd"}
SubPC == {"idle", "update", "tell", "work", "finalize", "tellEnd", "done"}
Ann   == [pc : RunPC \cup SubPC, copy : Seen]

\* The property is about these behaviours.
Trusted == kind = "run" \/ faults = 0

\* Whoever holds s is right to stop on it.
IsTrue(s) == Trusted /\ PageDone(s) => s = RowNow

TypesInv ==
  /\ kind \in {"run", "submission"} /\ submission \in Seen /\ faults \in Nat
  /\ ann \in [Worker -> Ann] /\ inbox \in Seq(Seen) /\ wire \in Seq(Frame)
  /\ page \in [pc : {"posted", "waiting", "ended", "failed", "gone"}, shown : Seen]

CopiesTrue == \A w \in Worker : ann[w].pc \in {"tell", "tellEnd"} => IsTrue(ann[w].copy)
InboxTrue  == \A n \in DOMAIN inbox : IsTrue(inbox[n])
WireTrue   == \A n \in DOMAIN wire : wire[n].frame = "data" => IsTrue(wire[n].state)
PageTrue   == page.pc = "ended" => PageDone(page.shown) /\ IsTrue(page.shown)

Queued  == State("QUEUED", "PENDING")
Running == State("RUNNING", "PENDING")
Decided == State("COMPLETED", "VERDICT")

\* How far the judge with the variables u has brought the row s.
JudgeInv(u, s) ==
  /\ u.pc \in SubPC
  /\ u.pc = "update"   => s = Queued  /\ u.copy = Running
  /\ u.pc = "tell"     => s = Running /\ u.copy = Running
  /\ u.pc = "work"     => s = Running
  /\ u.pc = "finalize" => s = Running /\ u.copy = Decided
  /\ u.pc = "tellEnd"  => s = Decided /\ u.copy = Decided
  /\ u.pc = "done"     => s = Decided

RunInv == kind = "run" => \A w \in Worker : ann[w].pc \in RunPC

\* There is one judge.
SubInv ==
  (kind = "submission" /\ faults = 0) =>
    /\ \A w \in Worker : JudgeInv(ann[w], submission)
    /\ \A v, w \in Worker : v # w => ann[v].pc = "idle" \/ ann[w].pc = "idle"
    /\ (\A w \in Worker : ann[w].pc = "idle") => submission = Queued

\* The inductive invariant.
SockInv == /\ StoreInv /\ TypesInv /\ RunInv /\ SubInv
           /\ CopiesTrue /\ InboxTrue /\ WireTrue /\ PageTrue

-----------------------------------------------------------------------------
(* The rows *)

\* Whatever is done to the row of a run is a statement of the store.
LEMMA TableSteps ==
  ASSUME SockInv, [Next]_vars
  PROVE  [StoreNext]_storeVars
<1>0. Id \in Job
  BY SocketConstants
<1>1. ASSUME NEW w \in Worker, WorkerStep(w) PROVE [StoreNext]_storeVars
  <2>1. CASE TakeRun(w) \/ StartRun(w)
    BY <1>0, <2>1 DEF TakeRun, StartRun, StoreNext, JobStep
  <2>2. CASE FinishRun(w) \/ FailRun(w)
    BY <1>0, <2>2 DEF FinishRun, FailRun, StoreNext, JobStep
  <2>3. CASE \/ FetchRun(w) \/ RefetchRun(w) \/ Refused(w) \/ TakeSubmission(w)
             \/ SaveSubmission(w) \/ Decide(w) \/ Tell(w)
    BY <2>3 DEF FetchRun, RefetchRun, Refused, TakeSubmission, SaveSubmission, Decide, Tell,
                Publish, storeVars
  <2>4. QED
    BY <1>1, <2>1, <2>2, <2>3 DEF WorkerStep
<1>2. ASSUME NEW w \in Worker, IgnoredCallFails(w) \/ Abandon(w) \/ Panic(w)
      PROVE  [StoreNext]_storeVars
  BY <1>0, <1>2 DEF IgnoredCallFails, Abandon, Panic, StoreNext, JobStep, storeVars
<1>3. CASE TableStep
  BY <1>0, <1>3 DEF TableStep, StoreNext, JobStep
<1>4. CASE Connect \/ SocketStep \/ FetchFails \/ ServerDies
  BY <1>4 DEF Connect, SocketStep, InitialFetch, Subscribe, SubscriptionStarts, Receive,
              ReaderCloses, LoopEnds, FetchFails, ServerDies, OnSocket, workVars, storeVars
<1>5. CASE PageStep \/ PageLeaves
  BY <1>5 DEF PageStep, PageMessage, PageClosed, PageLeaves, OnPage, workVars, storeVars
<1>6. CASE UNCHANGED vars
  BY <1>6 DEF vars, storeVars
<1>7. QED
  BY <1>1, <1>2, <1>3, <1>4, <1>5, <1>6 DEF Next

\* Only a judge writes the row of a submission; faults are not forgotten.
LEMMA OtherVariables ==
  ASSUME SockInv, [Next]_vars
  PROVE  /\ kind' = kind
         /\ faults' \in Nat /\ (faults' = 0 => faults = 0)
         /\ submission' = submission \/ \E w \in Worker : SaveSubmission(w)
<1>0. faults \in Nat
  BY DEF SockInv, TypesInv
<1>1. ASSUME NEW w \in Worker, WorkerStep(w)
      PROVE  /\ UNCHANGED <<kind, faults>>
             /\ submission' = submission \/ SaveSubmission(w)
  BY <1>1 DEF WorkerStep, TakeRun, StartRun, FinishRun, FailRun, FetchRun, RefetchRun, Refused,
              TakeSubmission, SaveSubmission, Decide, Tell, Publish, OnRow
<1>2. ASSUME NEW w \in Worker, IgnoredCallFails(w) \/ Abandon(w) \/ Panic(w)
      PROVE  UNCHANGED <<kind, submission>> /\ faults' = faults + 1
  BY <1>2 DEF IgnoredCallFails, Abandon, Panic, Fault
<1>3. CASE TableStep
  BY <1>0, <1>3 DEF TableStep, OnRow
<1>4. CASE Connect \/ SocketStep \/ FetchFails \/ ServerDies
  <2>1. UNCHANGED <<kind, submission>> /\ (UNCHANGED faults \/ faults' = faults + 1)
    BY <1>4 DEF Connect, SocketStep, InitialFetch, Subscribe, SubscriptionStarts, Receive,
                ReaderCloses, LoopEnds, FetchFails, ServerDies, OnSocket, workVars, Fault
  <2>2. QED
    BY <1>0, <2>1
<1>5. CASE PageStep \/ PageLeaves
  BY <1>0, <1>5 DEF PageStep, PageMessage, PageClosed, PageLeaves, OnPage, workVars
<1>6. CASE UNCHANGED vars
  BY <1>0, <1>6 DEF vars
<1>7. QED
  BY <1>0, <1>1, <1>2, <1>3, <1>4, <1>5, <1>6 DEF Next

\* A row on which the page would stop stays as it is.
LEMMA RowKept ==
  ASSUME SockInv, [Next]_vars
  PROVE  /\ Trusted' /\ PageDone(RowNow) => RowNow' = RowNow
         /\ RowNow \in Seen
<1>0. Id \in Job /\ kind \in {"run", "submission"} /\ submission \in Seen
  BY SocketConstants DEF SockInv, TypesInv
<1>1. StoreInv /\ executions[Id] \in Row /\ RowInv(executions[Id])
  BY <1>0 DEF SockInv, StoreInv
<1>2. kind' = kind /\ (faults' = 0 => faults = 0)
  BY OtherVariables
<1>3. RowNow \in Seen
  BY <1>0, <1>1 DEF RowNow, State, Seen, Row
<1>4. ASSUME kind = "run", PageDone(RowNow) PROVE RowNow' = RowNow
  <2> DEFINE r == executions[Id]
             s == executions'[Id]
  <2>1. Terminal(r)
    BY <1>0, <1>1, <1>4 DEF PageDone, RowNow, State, Terminal, Row, JobStatus
  <2>2. RowStep(r, s)
    BY <1>0, <1>1, TableSteps, StepsAreRowSteps
  <2>3. s = [r EXCEPT !.dispatched = s.dispatched]
    BY <1>1, <2>1, <2>2, TerminalRowStep
  <2>4. s.status = r.status /\ s.results = r.results
    BY <1>1, <2>3 DEF Row
  <2>5. QED
    BY <1>2, <1>4, <2>4 DEF RowNow, State
<1>5. ASSUME kind = "submission", faults = 0, PageDone(RowNow) PROVE RowNow' = RowNow
  <2>1. RowNow = submission /\ RowNow' = submission'
    BY <1>2, <1>5 DEF RowNow
  <2>2. ASSUME NEW w \in Worker, SaveSubmission(w) PROVE FALSE
    <3>1. submission = Queued \/ submission = Running
      BY <1>5, <2>2 DEF SaveSubmission, SockInv, SubInv, JudgeInv
    <3>2. QED
      BY <1>5, <2>1, <3>1 DEF PageDone, Queued, Running, State
  <2>3. QED
    BY <2>1, <2>2, OtherVariables
<1>6. QED
  BY <1>0, <1>2, <1>3, <1>4, <1>5 DEF Trusted

\* So whoever was right to stop still is.
LEMMA TrueKept ==
  ASSUME SockInv, [Next]_vars, NEW s, IsTrue(s)
  PROVE  IsTrue(s)'
<1>1. kind' = kind /\ (Trusted' => Trusted)
  BY OtherVariables DEF Trusted
<1>2. PageDone(s)' = PageDone(s)
  BY <1>1 DEF PageDone
<1>3. ASSUME Trusted', PageDone(s)' PROVE s = RowNow'
  <2>1. s = RowNow /\ PageDone(RowNow)
    BY <1>1, <1>2, <1>3 DEF IsTrue
  <2>2. QED
    BY <1>3, <2>1, RowKept
<1>4. QED
  BY <1>3 DEF IsTrue

-----------------------------------------------------------------------------
(* The hands *)

\* What nobody touches stays true.
LEMMA HandsRest ==
  ASSUME SockInv, [Next]_vars
  PROVE  /\ UNCHANGED ann => CopiesTrue' /\ RunInv'
         /\ UNCHANGED <<ann, submission>> => SubInv'
         /\ UNCHANGED inbox => InboxTrue'
         /\ UNCHANGED wire => WireTrue'
         /\ UNCHANGED page => PageTrue'
<1>0. kind' = kind /\ (faults' = 0 => faults = 0)
  BY OtherVariables
<1>1. UNCHANGED ann => CopiesTrue' /\ RunInv'
  BY <1>0, TrueKept DEF SockInv, CopiesTrue, RunInv
<1>2. UNCHANGED <<ann, submission>> => SubInv'
  BY <1>0 DEF SockInv, SubInv
<1>3. UNCHANGED inbox => InboxTrue'
  BY TrueKept DEF SockInv, InboxTrue
<1>4. UNCHANGED wire => WireTrue'
  BY TrueKept DEF SockInv, WireTrue
<1>5. UNCHANGED page => PageTrue'
  BY <1>0, TrueKept DEF SockInv, PageTrue, PageDone
<1>6. QED
  BY <1>1, <1>2, <1>3, <1>4, <1>5

\* The next of the messages is one of them.
LEMMA InboxShrinks ==
  ASSUME SockInv, [Next]_vars, inbox' = <<>> \/ (inbox # <<>> /\ inbox' = Tail(inbox))
  PROVE  inbox' \in Seq(Seen) /\ InboxTrue'
<1>0. inbox \in Seq(Seen) /\ \A n \in DOMAIN inbox : IsTrue(inbox[n])
  BY DEF SockInv, TypesInv, InboxTrue
<1>1. CASE inbox' = <<>>
  BY <1>1 DEF InboxTrue
<1>2. CASE inbox # <<>> /\ inbox' = Tail(inbox)
  <2>1. /\ inbox' \in Seq(Seen)
        /\ \A n \in DOMAIN inbox' : n + 1 \in DOMAIN inbox /\ inbox'[n] = inbox[n + 1]
    BY <1>0, <1>2
  <2>2. ASSUME NEW n \in DOMAIN inbox' PROVE IsTrue(inbox[n])'
    <3>1. IsTrue(inbox[n + 1]) /\ inbox'[n] = inbox[n + 1]
      BY <1>0, <2>1, <2>2
    <3> DEFINE s == inbox[n + 1]
    <3>2. ASSUME NEW x, IsTrue(x), inbox'[n] = x PROVE IsTrue(inbox[n])'
      <4>1. IsTrue(x)'
        BY <3>2, TrueKept
      <4>2. QED
        BY <3>2, <4>1 DEF IsTrue, PageDone
    <3>3. QED
      BY <3>1, <3>2
  <2>3. QED
    BY <2>1, <2>2 DEF InboxTrue
<1>3. QED
  BY <1>1, <1>2

\* Frames that carry the truth are written, or dropped.
LEMMA WireGrows ==
  ASSUME SockInv, [Next]_vars, NEW fs \in Seq(Frame), Write(fs),
         \A n \in DOMAIN fs : fs[n].frame = "data" => IsTrue(fs[n].state)'
  PROVE  wire' \in Seq(Frame) /\ WireTrue'
<1>0. wire \in Seq(Frame) /\ \A n \in DOMAIN wire : wire[n].frame = "data" => IsTrue(wire[n].state)
  BY DEF SockInv, TypesInv, WireTrue
<1>1. CASE wire' = wire
  BY <1>0, <1>1, HandsRest
<1>2. CASE wire' = wire \o fs
  <2>1. /\ wire' \in Seq(Frame)
        /\ \A n \in DOMAIN wire' : \/ n \in DOMAIN wire /\ wire'[n] = wire[n]
                                   \/ n - Len(wire) \in DOMAIN fs /\ wire'[n] = fs[n - Len(wire)]
    BY <1>0, <1>2
  <2>2. ASSUME NEW f, f.frame = "data" => IsTrue(f.state)', NEW n, wire'[n] = f
        PROVE  wire'[n].frame = "data" => IsTrue(wire[n].state)'
    BY <2>2 DEF IsTrue, PageDone
  <2>3. ASSUME NEW n \in DOMAIN wire'
        PROVE  wire'[n].frame = "data" => IsTrue(wire[n].state)'
    <3>1. CASE n \in DOMAIN wire /\ wire'[n] = wire[n]
      BY <1>0, <2>2, <3>1, TrueKept
    <3>2. CASE n - Len(wire) \in DOMAIN fs /\ wire'[n] = fs[n - Len(wire)]
      BY <2>2, <3>2
    <3>3. QED
      BY <2>1, <3>1, <3>2
  <2>4. QED
    BY <2>1, <2>3 DEF WireTrue
<1>3. QED
  BY <1>1, <1>2 DEF Write

\* The page takes the next of the frames, or is not interested in any.
LEMMA WireShrinks ==
  ASSUME SockInv, [Next]_vars, wire' = <<>> \/ (wire # <<>> /\ wire' = Tail(wire))
  PROVE  wire' \in Seq(Frame) /\ WireTrue'
<1>0. wire \in Seq(Frame) /\ \A n \in DOMAIN wire : wire[n].frame = "data" => IsTrue(wire[n].state)
  BY DEF SockInv, TypesInv, WireTrue
<1>1. CASE wire' = <<>>
  BY <1>1 DEF WireTrue
<1>2. CASE wire # <<>> /\ wire' = Tail(wire)
  <2>1. /\ wire' \in Seq(Frame)
        /\ \A n \in DOMAIN wire' : n + 1 \in DOMAIN wire /\ wire'[n] = wire[n + 1]
    BY <1>0, <1>2
  <2>2. ASSUME NEW n \in DOMAIN wire', wire'[n].frame = "data" PROVE IsTrue(wire[n].state)'
    <3>1. IsTrue(wire[n + 1].state) /\ wire'[n].state = wire[n + 1].state
      BY <1>0, <2>1, <2>2
    <3>2. ASSUME NEW x, IsTrue(x), wire'[n].state = x PROVE IsTrue(wire[n].state)'
      <4>1. IsTrue(x)'
        BY <3>2, TrueKept
      <4>2. QED
        BY <3>2, <4>1 DEF IsTrue, PageDone
    <3>3. QED
      BY <3>1, <3>2
  <2>3. QED
    BY <2>1, <2>2 DEF WireTrue
<1>3. QED
  BY <1>1, <1>2

-----------------------------------------------------------------------------
(* The socket and the page *)

\* What the wire carries.
LEMMA FrameTypes ==
  /\ Nothing \in Seen /\ NotFound \in Seen /\ Close \in Frame /\ Cut \in Frame
  /\ Close.frame # "data" /\ Cut.frame # "data"
  /\ \A s \in Seen : Data(s) \in Frame /\ Data(s).state = s
BY DEF Nothing, NotFound, State, Close, Cut, Data, Seen, Frame

\* A state is written alone, or as the last before the connection is closed.
LEMMA WritesState ==
  ASSUME SockInv, [Next]_vars, NEW s \in Seen, IsTrue(s)',
         \/ Write(<<Data(s)>>) \/ Write(<<Data(s), Close>>) \/ Write(<<Data(s), Cut>>)
  PROVE  wire' \in Seq(Frame) /\ WireTrue'
<1>1. ASSUME NEW fs, fs \in {<<Data(s)>>, <<Data(s), Close>>, <<Data(s), Cut>>}
      PROVE  /\ fs \in Seq(Frame)
             /\ \A n \in DOMAIN fs : fs[n].frame = "data" => IsTrue(fs[n].state)'
  <2>1. CASE fs = <<Data(s)>>
    BY <2>1, FrameTypes
  <2>2. CASE fs = <<Data(s), Close>>
    BY <2>2, FrameTypes
  <2>3. CASE fs = <<Data(s), Cut>>
    BY <2>3, FrameTypes
  <2>4. QED
    BY <1>1, <2>1, <2>2, <2>3
<1>2. QED
  BY <1>1, WireGrows

\* The handler only passes on.
LEMMA SocketSteps ==
  ASSUME SockInv, Next, Connect \/ SocketStep \/ FetchFails \/ ServerDies
  PROVE  SockInv'
<1>0. UNCHANGED <<kind, executions, submission, ann>>
  BY DEF Connect, SocketStep, InitialFetch, Subscribe, SubscriptionStarts, Receive,
         ReaderCloses, LoopEnds, FetchFails, ServerDies, OnSocket, workVars
<1>1. StoreInv' /\ CopiesTrue' /\ RunInv' /\ SubInv'
  BY <1>0, HandsRest DEF SockInv, StoreInv
<1>2. faults' \in Nat
  BY OtherVariables
<1>3. /\ page' \in [pc : {"posted", "waiting", "ended", "failed", "gone"}, shown : Seen]
      /\ PageTrue'
  <2>1. CASE Connect
    BY <2>1, HandsRest DEF Connect, SockInv, TypesInv, PageTrue
  <2>2. CASE UNCHANGED page
    BY <2>2, HandsRest DEF SockInv, TypesInv
  <2>3. QED
    BY <2>1, <2>2 DEF SocketStep, InitialFetch, Subscribe, SubscriptionStarts, Receive,
                      ReaderCloses, LoopEnds, FetchFails, ServerDies, OnSocket
<1>4. inbox' \in Seq(Seen) /\ InboxTrue'
  <2>1. CASE UNCHANGED inbox
    BY <2>1, HandsRest DEF SockInv, TypesInv
  <2>2. CASE inbox' = <<>> \/ (inbox # <<>> /\ inbox' = Tail(inbox))
    BY <2>2, InboxShrinks
  <2>3. QED
    BY <2>1, <2>2 DEF Connect, SocketStep, InitialFetch, Subscribe, SubscriptionStarts, Receive,
                      ReaderCloses, LoopEnds, FetchFails, ServerDies, Return
<1>5. wire' \in Seq(Frame) /\ WireTrue'
  <2>1. CASE UNCHANGED wire
    BY <2>1, HandsRest DEF SockInv, TypesInv
  <2>2. CASE InitialFetch
    <3>1. RowNow \in Seen /\ IsTrue(RowNow)
      BY RowKept DEF IsTrue
    <3>2. QED
      BY <2>2, <3>1, WritesState, TrueKept DEF InitialFetch
  <2>3. CASE Receive
    <3>1. Head(inbox) \in Seen /\ IsTrue(Head(inbox))
      BY <2>3 DEF Receive, SockInv, TypesInv, InboxTrue
    <3>2. QED
      BY <2>3, <3>1, WritesState, TrueKept DEF Receive
  <2>4. CASE FetchFails
    <3>1. faults' # 0 /\ kind \in {"run", "submission"}
      BY <2>4 DEF FetchFails, Fault, SockInv, TypesInv
    <3>2. NotFound \in Seen /\ IsTrue(NotFound)'
      BY <1>0, <3>1, FrameTypes DEF IsTrue, Trusted, PageDone, NotFound, State
    <3>3. QED
      BY <2>4, <3>2, WritesState DEF FetchFails
  <2>5. CASE ServerDies
    <3>1. <<Cut>> \in Seq(Frame) /\ \A n \in DOMAIN <<Cut>> : <<Cut>>[n].frame # "data"
      BY FrameTypes
    <3>2. QED
      BY <2>5, <3>1, WireGrows DEF ServerDies
  <2>6. QED
    BY <2>1, <2>2, <2>3, <2>4, <2>5
    DEF Connect, SocketStep, Subscribe, SubscriptionStarts, ReaderCloses, LoopEnds
<1>6. QED
  BY <1>0, <1>1, <1>2, <1>3, <1>4, <1>5 DEF SockInv, TypesInv

\* The page stops on a state that is true.
LEMMA PageSteps ==
  ASSUME SockInv, Next, PageStep \/ PageLeaves
  PROVE  SockInv'
<1>0. UNCHANGED <<kind, executions, submission, ann, inbox, faults>>
  BY DEF PageStep, PageMessage, PageClosed, PageLeaves, OnPage, workVars, sockVars
<1>1. StoreInv' /\ CopiesTrue' /\ RunInv' /\ SubInv' /\ InboxTrue'
  BY <1>0, HandsRest DEF SockInv, StoreInv
<1>2. wire' \in Seq(Frame) /\ WireTrue'
  BY WireShrinks DEF PageStep, PageMessage, PageClosed, PageLeaves
<1>3. /\ page' \in [pc : {"posted", "waiting", "ended", "failed", "gone"}, shown : Seen]
      /\ PageTrue'
  <2>0. /\ page \in [pc : {"posted", "waiting", "ended", "failed", "gone"}, shown : Seen]
        /\ wire \in Seq(Frame)
    BY DEF SockInv, TypesInv
  <2>1. CASE PageMessage
    <3> DEFINE s == Head(wire).state
    <3>1. 1 \in DOMAIN wire /\ Head(wire) = wire[1] /\ wire[1] \in Frame
      BY <2>0, <2>1 DEF PageMessage
    <3>2. s \in Seen /\ IsTrue(s)
      BY <2>1, <3>1 DEF PageMessage, SockInv, WireTrue, Frame
    <3>3. CASE PageDone(s)
      <4>1. page' = [pc |-> "ended", shown |-> s]
        BY <2>1, <3>3 DEF PageMessage
      <4>2. page'.shown = s /\ PageDone(page'.shown) /\ IsTrue(page'.shown)
        BY <3>2, <3>3, <4>1
      <4>3. PageTrue'
        BY <1>0, <4>2 DEF PageTrue, IsTrue, PageDone, Trusted, RowNow
      <4>4. QED
        BY <3>2, <4>1, <4>3
    <3>4. CASE ~ PageDone(s)
      BY <2>0, <2>1, <3>2, <3>4 DEF PageMessage, PageTrue
    <3>5. QED
      BY <3>3, <3>4
  <2>2. CASE PageClosed
    <3>1. page' = page \/ page' = [page EXCEPT !.pc = "failed"]
      BY <2>2 DEF PageClosed
    <3>2. CASE page' = page
      BY <2>0, <3>2, HandsRest
    <3>3. CASE page' = [page EXCEPT !.pc = "failed"]
      BY <2>0, <3>3 DEF PageTrue
    <3>4. QED
      BY <3>1, <3>2, <3>3
  <2>3. CASE PageLeaves
    BY <2>0, <2>3 DEF PageLeaves, PageTrue
  <2>4. QED
    BY <2>1, <2>2, <2>3 DEF PageStep
<1>4. QED
  BY <1>0, <1>1, <1>2, <1>3 DEF SockInv, TypesInv

-----------------------------------------------------------------------------
(* Workers *)

\* Worker w goes on to u and leaves socket and page alone, but for what it
\* publishes.
LEMMA WorkerMoves ==
  ASSUME SockInv, Next, NEW w \in Worker, NEW u \in Ann, ann' = [ann EXCEPT ![w] = u],
         UNCHANGED <<wire, page>>,
         UNCHANGED inbox \/ (ann[w].pc \in {"tell", "tellEnd"} /\ inbox' = Append(inbox, ann[w].copy)),
         submission' \in Seen,
         u.pc \in {"tell", "tellEnd"} => IsTrue(u.copy)',
         kind = "run" => u.pc \in RunPC,
         (kind = "submission" /\ faults' = 0) =>
           /\ JudgeInv(u, submission')
           /\ u.pc # "idle"
           /\ submission' = submission \/ ann[w].pc # "idle"
           /\ ann[w].pc # "idle" \/ \A v \in Worker : ann[v].pc = "idle"
  PROVE  SockInv'
<1>0. /\ kind' = kind /\ faults' \in Nat /\ (faults' = 0 => faults = 0)
      /\ ann \in [Worker -> Ann] /\ inbox \in Seq(Seen)
  BY OtherVariables DEF SockInv, TypesInv
<1>1. StoreInv'
  BY TableSteps, NextInv DEF SockInv
<1>2. WireTrue' /\ PageTrue'
  BY HandsRest
<1>3. ann' \in [Worker -> Ann] /\ ann'[w] = u /\ \A v \in Worker : v # w => ann'[v] = ann[v]
  BY <1>0
<1>4. CopiesTrue'
  <2>1. ASSUME NEW v \in Worker, ann'[v].pc \in {"tell", "tellEnd"} PROVE IsTrue(ann[v].copy)'
    <3>1. ASSUME NEW x, IsTrue(x)', ann'[v].copy = x PROVE IsTrue(ann[v].copy)'
      BY <3>1 DEF IsTrue, PageDone
    <3>2. CASE v = w
      BY <1>3, <2>1, <3>1, <3>2
    <3>3. CASE v # w
      <4>1. IsTrue(ann[v].copy) /\ ann'[v].copy = ann[v].copy
        BY <1>3, <2>1, <3>3 DEF SockInv, CopiesTrue
      <4>2. QED
        BY <3>1, <4>1, TrueKept
    <3>4. QED
      BY <3>2, <3>3
  <2>2. QED
    BY <2>1 DEF CopiesTrue
<1>5. inbox' \in Seq(Seen) /\ InboxTrue'
  <2>1. CASE UNCHANGED inbox
    BY <1>0, <2>1, HandsRest
  <2>2. CASE ann[w].pc \in {"tell", "tellEnd"} /\ inbox' = Append(inbox, ann[w].copy)
    <3>1. ann[w].copy \in Seen /\ IsTrue(ann[w].copy)
      BY <1>0, <2>2 DEF Ann, SockInv, CopiesTrue
    <3>2. /\ inbox' \in Seq(Seen)
          /\ \A n \in DOMAIN inbox' : \/ n \in DOMAIN inbox /\ inbox'[n] = inbox[n]
                                      \/ inbox'[n] = ann[w].copy
      BY <1>0, <2>2, <3>1
    <3>3. ASSUME NEW n \in DOMAIN inbox' PROVE IsTrue(inbox[n])'
      <4>1. ASSUME NEW x, IsTrue(x), inbox'[n] = x PROVE IsTrue(inbox[n])'
        <5>1. IsTrue(x)'
          BY <4>1, TrueKept
        <5>2. QED
          BY <4>1, <5>1 DEF IsTrue, PageDone
      <4>2. QED
        BY <3>1, <3>2, <4>1 DEF SockInv, InboxTrue
    <3>4. QED
      BY <3>2, <3>3 DEF InboxTrue
  <2>3. QED
    BY <2>1, <2>2
<1>6. RunInv'
  BY <1>0, <1>3 DEF SockInv, RunInv
<1>7. SubInv'
  <2> SUFFICES ASSUME kind = "submission", faults' = 0
               PROVE  /\ \A v \in Worker : JudgeInv(ann'[v], submission')
                      /\ \A x, v \in Worker : x # v => ann'[x].pc = "idle" \/ ann'[v].pc = "idle"
                      /\ (\A v \in Worker : ann'[v].pc = "idle") => submission' = Queued
    BY <1>0 DEF SubInv
  <2>1. /\ \A v \in Worker : JudgeInv(ann[v], submission)
        /\ \A x, v \in Worker : x # v => ann[x].pc = "idle" \/ ann[v].pc = "idle"
    BY <1>0 DEF SockInv, SubInv
  <2>2. \A v \in Worker : v # w => ann'[v].pc = "idle"
    BY <1>3, <2>1
  <2>3. QED
    BY <1>3, <2>2 DEF JudgeInv, SubPC
<1>8. QED
  BY <1>0, <1>1, <1>2, <1>3, <1>4, <1>5, <1>6, <1>7 DEF SockInv, TypesInv

\* What the local steps make of the variables of a worker.
LEMMA LocalMoves ==
  ASSUME SockInv, NEW w \in Worker
  PROVE  /\ ann[w] \in Ann
         /\ \A k \in RunPC \cup SubPC : Go(w, k) =>
              \E u \in Ann : /\ ann' = [ann EXCEPT ![w] = u]
                             /\ u.pc = k /\ u.copy = ann[w].copy
         /\ \A k \in RunPC \cup SubPC, s \in Seen : Take(w, k, s) =>
              \E u \in Ann : ann' = [ann EXCEPT ![w] = u] /\ u.pc = k /\ u.copy = s
         /\ Stop(w) =>
              \E u \in Ann : /\ ann' = [ann EXCEPT ![w] = u]
                             /\ u.pc = IF kind = "run" THEN "idle" ELSE "done"
<1>1. ann \in [Worker -> Ann] /\ ann[w] \in Ann
  BY DEF SockInv, TypesInv
<1>2. ASSUME NEW k \in RunPC \cup SubPC, Go(w, k)
      PROVE  \E u \in Ann : ann' = [ann EXCEPT ![w] = u] /\ u.pc = k /\ u.copy = ann[w].copy
  <2> DEFINE u == [ann[w] EXCEPT !.pc = k]
  <2>1. u \in Ann /\ u.pc = k /\ u.copy = ann[w].copy
    BY <1>1 DEF Ann
  <2>2. ann' = [ann EXCEPT ![w] = u]
    BY <1>2 DEF Go
  <2>3. QED
    BY <2>1, <2>2
<1>3. ASSUME NEW k \in RunPC \cup SubPC, NEW s \in Seen, Take(w, k, s)
      PROVE  \E u \in Ann : ann' = [ann EXCEPT ![w] = u] /\ u.pc = k /\ u.copy = s
  <2> DEFINE u == [pc |-> k, copy |-> s]
  <2>1. u \in Ann /\ u.pc = k /\ u.copy = s
    BY DEF Ann
  <2>2. QED
    BY <1>3, <2>1 DEF Take
<1>4. ASSUME Stop(w)
      PROVE  \E u \in Ann : /\ ann' = [ann EXCEPT ![w] = u]
                            /\ u.pc = IF kind = "run" THEN "idle" ELSE "done"
  <2> DEFINE k == IF kind = "run" THEN "idle" ELSE "done"
             u == [Resting EXCEPT !.pc = k]
  <2>1. k \in RunPC \cup SubPC
    BY DEF RunPC, SubPC
  <2> HIDE DEF k
  <2>2. u \in Ann /\ u.pc = k
    BY <2>1, FrameTypes DEF Ann, Resting
  <2>3. ann' = [ann EXCEPT ![w] = u]
    BY <1>4 DEF Stop, k
  <2>4. QED
    BY <2>2, <2>3 DEF k
<1>5. QED
  BY <1>1, <1>2, <1>3, <1>4

\* Steps on the row of a run.
LEMMA RunSteps ==
  ASSUME SockInv, Next, NEW w \in Worker,
         \/ TakeRun(w) \/ StartRun(w) \/ FetchRun(w) \/ FinishRun(w) \/ FailRun(w)
         \/ RefetchRun(w) \/ Refused(w)
  PROVE  SockInv'
<1>0. UNCHANGED <<kind, submission, inbox, wire, page, faults>> /\ submission' \in Seen
  BY DEF TakeRun, StartRun, FetchRun, FinishRun, FailRun, RefetchRun, Refused, OnRow,
         SockInv, TypesInv
<1>1. kind = "run" \/ (kind = "submission" /\ faults # 0)
  <2>1. kind \in {"run", "submission"}
    BY DEF SockInv, TypesInv
  <2>2. ASSUME kind = "submission", faults = 0 PROVE ann[w].pc \in SubPC
    BY <2>2 DEF SockInv, SubInv, JudgeInv
  <2>3. QED
    BY <2>1, <2>2 DEF TakeRun, StartRun, FetchRun, FinishRun, FailRun, RefetchRun, Refused,
                      At, SubPC
<1>2. RowNow \in Seen /\ IsTrue(RowNow)
  BY RowKept DEF IsTrue
<1>3. PICK u \in Ann :
        /\ ann' = [ann EXCEPT ![w] = u] /\ u.pc \in RunPC \cup {"done"}
        /\ kind = "run" => u.pc \in RunPC
        /\ u.pc \in {"tell", "tellEnd"} => u.copy = RowNow
  <2>1. CASE TakeRun(w)
    BY <2>1, LocalMoves DEF TakeRun, RunPC
  <2>2. CASE StartRun(w)
    BY <2>2, LocalMoves DEF StartRun, RunPC
  <2>3. CASE FetchRun(w)
    BY <1>2, <2>3, LocalMoves DEF FetchRun, RunPC
  <2>4. CASE FinishRun(w)
    BY <2>4, LocalMoves DEF FinishRun, RunPC
  <2>5. CASE FailRun(w)
    BY <2>5, LocalMoves DEF FailRun, RunPC
  <2>6. CASE RefetchRun(w)
    BY <1>2, <2>6, LocalMoves DEF RefetchRun, RunPC
  <2>7. CASE Refused(w)
    BY <2>7, LocalMoves DEF Refused, RunPC
  <2>8. QED
    BY <2>1, <2>2, <2>3, <2>4, <2>5, <2>6, <2>7
<1>4. u.pc \in {"tell", "tellEnd"} => IsTrue(u.copy)'
  BY <1>2, <1>3, TrueKept
<1>5. QED
  BY <1>0, <1>1, <1>3, <1>4, WorkerMoves

\* Steps of Judge.
LEMMA JudgeSteps ==
  ASSUME SockInv, Next, NEW w \in Worker,
         TakeSubmission(w) \/ SaveSubmission(w) \/ Decide(w)
  PROVE  SockInv'
<1>0. /\ UNCHANGED <<kind, inbox, wire, page, faults, executions>>
      /\ submission \in Seen /\ kind \in {"run", "submission"} /\ faults \in Nat
  BY DEF TakeSubmission, SaveSubmission, Decide, OnRow, SockInv, TypesInv
<1>1. kind = "submission"
  BY <1>0 DEF TakeSubmission, SaveSubmission, Decide, SockInv, RunInv, RunPC
<1>2. /\ Running \in Seen /\ Decided \in Seen
  BY DEF Running, Decided, State, Seen, JobStatus
<1>3. faults = 0 => /\ JudgeInv(ann[w], submission)
                    /\ (\A v \in Worker : ann[v].pc = "idle") => submission = Queued
  BY <1>1 DEF SockInv, SubInv
<1>4. CASE TakeSubmission(w)
  <2>1. State("RUNNING", submission.answer) \in Seen
    BY <1>0 DEF State, Seen, JobStatus
  <2>2. PICK u \in Ann : /\ ann' = [ann EXCEPT ![w] = u] /\ u.pc = "update"
                         /\ u.copy = State("RUNNING", submission.answer)
    BY <1>4, <2>1, LocalMoves DEF TakeSubmission, SubPC
  <2>3. UNCHANGED submission /\ \A v \in Worker : ann[v].pc = "idle"
    BY <1>4 DEF TakeSubmission, At
  <2>4. faults = 0 => JudgeInv(u, submission')
    BY <1>3, <2>2, <2>3 DEF JudgeInv, SubPC, Queued, Running, State
  <2>5. QED
    BY <1>0, <1>1, <2>2, <2>3, <2>4, WorkerMoves
<1>5. CASE SaveSubmission(w)
  <2>1. ann[w].copy \in Seen /\ submission' = ann[w].copy
    BY <1>5, LocalMoves DEF SaveSubmission, Ann
  <2>2. PICK u \in Ann : /\ ann' = [ann EXCEPT ![w] = u] /\ u.copy = ann[w].copy
                         /\ u.pc = IF ann[w].pc = "update" THEN "tell" ELSE "tellEnd"
    BY <1>5, LocalMoves DEF SaveSubmission, SubPC, At
  <2>3. ann[w].pc \in {"update", "finalize"}
    BY <1>5 DEF SaveSubmission
  <2>4. faults = 0 => JudgeInv(u, submission')
    BY <1>3, <2>1, <2>2, <2>3 DEF JudgeInv, SubPC
  <2>5. IsTrue(u.copy)'
    BY <1>0, <1>1, <2>1, <2>2 DEF IsTrue, RowNow
  <2>6. QED
    BY <1>0, <1>1, <2>1, <2>2, <2>3, <2>4, <2>5, WorkerMoves
<1>6. CASE Decide(w)
  <2>1. PICK u \in Ann : ann' = [ann EXCEPT ![w] = u] /\ u.pc = "finalize" /\ u.copy = Decided
    BY <1>2, <1>6, LocalMoves DEF Decide, SubPC, Decided
  <2>2. UNCHANGED submission /\ ann[w].pc = "work"
    BY <1>6 DEF Decide, At
  <2>3. faults = 0 => JudgeInv(u, submission')
    BY <1>3, <2>1, <2>2 DEF JudgeInv, SubPC
  <2>4. QED
    BY <1>0, <1>1, <2>1, <2>2, <2>3, WorkerMoves
<1>7. QED
  BY <1>4, <1>5, <1>6

\* A copy is published.
LEMMA TellStep ==
  ASSUME SockInv, Next, NEW w \in Worker, Tell(w)
  PROVE  SockInv'
<1>0. /\ UNCHANGED <<kind, submission, wire, page, faults>> /\ submission' \in Seen
      /\ kind \in {"run", "submission"} /\ ann[w].pc \in {"tell", "tellEnd"}
      /\ UNCHANGED inbox \/ inbox' = Append(inbox, ann[w].copy)
  BY DEF Tell, Publish, SockInv, TypesInv
<1>1. PICK u \in Ann :
        /\ ann' = [ann EXCEPT ![w] = u]
        /\ u.pc = IF ann[w].pc = "tell" THEN "work" ELSE IF kind = "run" THEN "idle" ELSE "done"
  BY LocalMoves DEF Tell, AfterTelling, At, RunPC
<1>2. (kind = "submission" /\ faults = 0) => JudgeInv(ann[w], submission)
  BY DEF SockInv, SubInv
<1>3. (kind = "submission" /\ faults' = 0) => JudgeInv(u, submission')
  BY <1>0, <1>1, <1>2 DEF JudgeInv, SubPC
<1>4. QED
  BY <1>0, <1>1, <1>3, WorkerMoves DEF RunPC

\* After a fault nothing is claimed of a submission.
LEMMA FaultSteps ==
  ASSUME SockInv, Next, NEW w \in Worker, IgnoredCallFails(w) \/ Abandon(w) \/ Panic(w)
  PROVE  SockInv'
<1>0. /\ UNCHANGED <<kind, submission, inbox, wire, page>> /\ submission' \in Seen
      /\ kind \in {"run", "submission"} /\ faults' # 0
  BY DEF IgnoredCallFails, Abandon, Panic, Fault, SockInv, TypesInv
<1>1. State("COMPLETED", "PENDING") \in Seen
  BY DEF State, Seen, JobStatus
<1>2. PICK u \in Ann :
        /\ ann' = [ann EXCEPT ![w] = u]
        /\ kind = "run" => u.pc \in RunPC \ {"tell", "tellEnd"}
  <2>1. CASE IgnoredCallFails(w)
    <3>1. CASE ann[w].pc \in {"tell", "tellEnd"} /\ AfterTelling(w)
      BY <3>1, LocalMoves DEF AfterTelling, At, RunPC
    <3>2. CASE At(w, "update") /\ Go(w, "tell")
      BY <3>2, LocalMoves DEF At, RunPC, SockInv, RunInv
    <3>3. CASE At(w, "finalize") /\ Go(w, "tellEnd")
      BY <3>3, LocalMoves DEF At, RunPC, SockInv, RunInv
    <3>4. QED
      BY <2>1, <3>1, <3>2, <3>3 DEF IgnoredCallFails
  <2>2. CASE Abandon(w)
    BY <2>2, LocalMoves DEF Abandon, RunPC
  <2>3. CASE Panic(w)
    <3>1. CASE Stop(w)
      BY <3>1, LocalMoves DEF RunPC
    <3>2. CASE kind = "submission" /\ Take(w, "finalize", State("COMPLETED", "PENDING"))
      BY <1>1, <3>2, LocalMoves DEF SubPC
    <3>3. QED
      BY <2>3, <3>1, <3>2 DEF Panic
  <2>4. QED
    BY <2>1, <2>2, <2>3
<1>3. u.pc \in {"tell", "tellEnd"} => IsTrue(u.copy)'
  BY <1>0, <1>2 DEF IsTrue, Trusted
<1>4. QED
  BY <1>0, <1>2, <1>3, WorkerMoves

\* The steps that change the row keep the invariant.
LEMMA TableStepInv ==
  ASSUME SockInv, Next, TableStep
  PROVE  SockInv'
<1>0. UNCHANGED <<kind, submission, ann, inbox, wire, page, faults>>
  BY DEF TableStep, OnRow
<1>1. StoreInv'
  BY TableSteps, NextInv DEF SockInv
<1>2. QED
  BY <1>0, <1>1, HandsRest DEF SockInv, TypesInv

-----------------------------------------------------------------------------
(* Theorems *)

LEMMA SockInitInv == Init => SockInv
<1> SUFFICES ASSUME Init PROVE SockInv
  OBVIOUS
<1>1. StoreInv
  BY InitInv DEF Init, StoreInit
<1>2. submission = Queued /\ Queued \in Seen /\ Nothing \in Seen
  BY FrameTypes DEF Init, Queued, State, Seen, JobStatus
<1>3. Resting \in Ann /\ Resting.pc = "idle"
  BY <1>2 DEF Resting, Ann, RunPC
<1>4. TypesInv
  BY <1>2, <1>3, SocketConstants DEF Init, TypesInv
<1>5. RunInv /\ SubInv /\ CopiesTrue
  BY <1>2, <1>3 DEF Init, RunInv, SubInv, CopiesTrue, JudgeInv, RunPC, SubPC
<1>6. InboxTrue /\ WireTrue /\ PageTrue
  BY DEF Init, InboxTrue, WireTrue, PageTrue
<1>7. QED
  BY <1>1, <1>4, <1>5, <1>6 DEF SockInv

\* The invariant is inductive.
LEMMA SockNextInv == SockInv /\ [Next]_vars => SockInv'
<1> SUFFICES ASSUME SockInv, [Next]_vars PROVE SockInv'
  OBVIOUS
<1>1. CASE Next
  <2>1. ASSUME NEW w \in Worker, WorkerStep(w) PROVE SockInv'
    BY <1>1, <2>1, RunSteps, JudgeSteps, TellStep DEF WorkerStep
  <2>2. ASSUME NEW w \in Worker, IgnoredCallFails(w) \/ Abandon(w) \/ Panic(w) PROVE SockInv'
    BY <1>1, <2>2, FaultSteps
  <2>3. QED
    BY <1>1, <2>1, <2>2, TableStepInv, SocketSteps, PageSteps DEF Next
<1>2. CASE UNCHANGED vars
  BY <1>2 DEF vars, SockInv, StoreInv, TypesInv, RunInv, SubInv, CopiesTrue, InboxTrue, WireTrue,
              PageTrue, IsTrue, Trusted, PageDone, RowNow
<1>3. QED
  BY <1>1, <1>2

\* Whatever is on its way to the page and would end its waiting is the row as
\* it is now.
THEOREM SockInvariant == Spec => []SockInv
<1>1. QED
  BY SockInitInv, SockNextInv, PTL DEF Spec

\* A page that stops waiting shows how the job really ended, whichever workers
\* lost their lease, were late or failed in between.
THEOREM ShownIsTrue == Spec => []ShownEndIsTheEnd
<1>1. SockInv => ShownEndIsTheEnd
  BY DEF SockInv, PageTrue, IsTrue, Trusted, ShownEndIsTheEnd
<1>2. QED
  BY <1>1, SockInvariant, PTL

\* Under a page the table is used as the store allows: the pages, sockets and
\* publishing workers implement ExecutionStore, and have its properties.
THEOREM SocketsImplementStore == Spec => StoreSpec
<1>1. Init => StoreInit
  BY DEF Init, StoreInit
<1>2. SockInv /\ [Next]_vars => [StoreNext]_storeVars
  BY TableSteps
<1>3. QED
  BY <1>1, <1>2, SockInvariant, PTL DEF Spec, StoreSpec
=============================================================================
