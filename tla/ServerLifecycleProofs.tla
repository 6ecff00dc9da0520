----------------------- MODULE ServerLifecycleProofs -----------------------
(***************************************************************************)
(* Proofs about ServerLifecycle for any number of processes, goroutines,   *)
(* requests and faults, any environments and any clock.                    *)
(*                                                                         *)
(* Three arguments share one invariant: a pool that was drained has no     *)
(* goroutine left that could take a message; a request is only under way   *)
(* while its server is up or was given up waiting for; and the row of a    *)
(* living worker is no older than its ticker says, plus one interval if a  *)
(* heartbeat failed.                                                       *)
(***************************************************************************)
EXTENDS ServerLifecycle, SequenceTheorems, FiniteSetTheorems, TLAPS

MainPC  == {"down", "connect", "exit"} \cup Started
Outcome == {"never", "error", "panic", "timeout", "drained", "crash"}
LoopPC  == {"none", "check", "consume", "read", "busy", "left", "lost"}
FaultKind == {"register", "call", "serve", "crash", "beat"}

WorkerRow == [status : {"ABSENT", "ACTIVE", "DRAINING", "STOPPED"}, age : Nat]

RequestRec ==
  [pc : {"new", "gate", "store", "enqueue", "done", "cut"}, at : Instance \cup {"none"},
   gated : BOOLEAN, late : BOOLEAN, code : {0, 202, 400, 500, 503},
   stored : BOOLEAN, queued : BOOLEAN]

TypesInv ==
  /\ pc \in [Instance -> MainPC] /\ how \in [Instance -> Outcome]
  /\ env \in [Instance -> Environment] /\ beat \in [Instance -> Nat]
  /\ loop \in [Instance -> [Goroutine -> LoopPC]]
  /\ workers \in [Instance -> WorkerRow]
  /\ rq \in [Request -> RequestRec]
  /\ backlog \in Nat /\ scale \in Scale /\ faults \in Seq(FaultKind)

\* A pool that was drained is empty, and one that was not had its time.
PoolInv(i) ==
  /\ how[i] = "timeout" => pc[i] \in {"grace", "last", "down"}
  /\ how[i] = "drained" => /\ pc[i] \in {"last", "down"}
                           /\ \A g \in Goroutine : loop[i][g] \in {"none", "left"}

\* A request that is under way is at a server that is up, or gave up on it.
UnderWay(q) == q.pc \in {"gate", "store", "enqueue"}
AtServer(q) ==
  UnderWay(q) => /\ q.at \in Instance /\ HasApi(q.at)
                 /\ pc[q.at] \in {"up", "http"} \/ (q.late /\ pc[q.at] \in Started \cup {"exit"})

\* What it has done so far, and what it is told.
Honest(q, failed) ==
  /\ q.pc \in {"new", "gate", "store"} => q.code = 0 /\ ~ q.stored
  /\ q.pc = "enqueue" => q.code = 0 /\ q.stored
  /\ q.pc = "cut" => q.code = 0
  /\ q.code = 202 => q.stored /\ q.queued
  /\ q.code \in {400, 503} => ~ q.stored
  /\ q.code = 500 /\ q.stored => failed \/ q.late

RequestInv(r) == AtServer(rq[r]) /\ Honest(rq[r], Happened("call"))

\* The process runs in one of its environments.
EnvInv(i) == pc[i] # "down" => env[i] \in Environ[i] /\ Loads(env[i])

Interval(i) == Cfg(i, "WORKER_HEARTBEAT_INTERVAL")

TwoBeatsFailed ==
  \E m, n \in DOMAIN faults : m # n /\ faults[m] = "beat" /\ faults[n] = "beat"

\* The row of a living worker is as old as its ticker says; a failed heartbeat
\* adds an interval.
BeatInv(i) ==
  Beating(i) /\ Interval(i) > 0 =>
    /\ beat[i] <= Interval(i) + Lateness
    /\ ~ Happened("register") /\ ~ TwoBeatsFailed =>
         workers[i].age <= beat[i] + IF Happened("beat") THEN Interval(i) ELSE 0

\* The inductive invariant.
LifeInv == /\ TypesInv
           /\ \A i \in Instance : PoolInv(i) /\ EnvInv(i) /\ BeatInv(i)
           /\ \A r \in Request : RequestInv(r)

-----------------------------------------------------------------------------
(* Types *)

\* The interval and the timeout of heartbeats are whole numbers of seconds.
LEMMA DurationTypes ==
  ASSUME NEW e \in Environment
  PROVE  /\ Field(e, "WORKER_HEARTBEAT_INTERVAL") \in Int
         /\ Field(e, "WORKER_HEARTBEAT_TIMEOUT") \in Int
<1>1. ASSUME NEW k \in {"WORKER_HEARTBEAT_INTERVAL", "WORKER_HEARTBEAT_TIMEOUT"}
      PROVE  Field(e, k) \in Int
  <2>1. k \in DefaultedKey /\ k \notin NarrowKey /\ k \in Key
    BY DEF DefaultedKey, NarrowKey, Key
  <2>2. e.vars[k].n \in Int
    BY <2>1 DEF Environment
  <2>3. Fallback[k] \in Int
    BY DEF Fallback
  <2>4. Field(e, k) = DurationOr(e.vars[k], Fallback[k])
    BY <2>1 DEF Field
  <2>5. QED
    BY <2>2, <2>3, <2>4 DEF DurationOr
<1>2. QED
  BY <1>1

\* The environment with nothing set is one.
LEMMA BlankType == Blank \in Environment
BY DEF Blank, Unset, Environment, Role

\* The quantities of time are naturals.
LEMMA ClockTypes ==
  /\ Lateness \in Nat /\ MaxAge \in Nat
  /\ TypesInv => scale.step \in Nat \ {0}
BY LifeConstants DEF TypesInv

\* What the faults say once one more has happened.
LEMMA FaultAppended ==
  ASSUME TypesInv, NEW k \in FaultKind, Fault(k)
  PROVE  /\ faults' \in Seq(FaultKind) /\ Happened(k)'
         /\ \A x \in FaultKind : Happened(x)' <=> Happened(x) \/ x = k
         /\ TwoBeatsFailed => TwoBeatsFailed'
         /\ k = "beat" /\ Happened("beat") => TwoBeatsFailed'
<1>0. faults \in Seq(FaultKind) /\ faults' = Append(faults, k)
  BY DEF TypesInv, Fault
<1> DEFINE n == Len(faults) + 1
<1>1. /\ faults' \in Seq(FaultKind) /\ n \in DOMAIN faults' /\ faults'[n] = k
      /\ n \notin DOMAIN faults
      /\ DOMAIN faults \subseteq DOMAIN faults'
      /\ \A m \in DOMAIN faults : faults'[m] = faults[m]
      /\ \A m \in DOMAIN faults' : m \in DOMAIN faults \/ m = n
  BY <1>0
<1> HIDE DEF n
<1>2. \A x \in FaultKind : Happened(x)' <=> Happened(x) \/ x = k
  BY <1>1 DEF Happened
<1>3. TwoBeatsFailed => TwoBeatsFailed'
  BY <1>1 DEF TwoBeatsFailed
<1>4. k = "beat" /\ Happened("beat") => TwoBeatsFailed'
  BY <1>1 DEF TwoBeatsFailed, Happened
<1>5. QED
  BY <1>1, <1>2, <1>3, <1>4

\* Without a fault, what has happened has not changed.
LEMMA FaultsSame ==
  ASSUME UNCHANGED faults
  PROVE  (\A x : Happened(x)' <=> Happened(x)) /\ (TwoBeatsFailed' <=> TwoBeatsFailed)
BY DEF Happened, TwoBeatsFailed

\* Faults are not forgotten.
FaultsGrow ==
  /\ faults' \in Seq(FaultKind)
  /\ \A x \in FaultKind : Happened(x) => Happened(x)'
  /\ TwoBeatsFailed => TwoBeatsFailed'

\* No step forgets a fault.
LEMMA FaultsDoGrow ==
  ASSUME TypesInv, UNCHANGED faults \/ \E k \in FaultKind : Fault(k)
  PROVE  FaultsGrow
<1>1. CASE UNCHANGED faults
  BY <1>1, FaultsSame DEF FaultsGrow, TypesInv
<1>2. CASE \E k \in FaultKind : Fault(k)
  BY <1>2, FaultAppended DEF FaultsGrow
<1>3. QED
  BY <1>1, <1>2

-----------------------------------------------------------------------------
(* One process moves, the others do not notice *)

ProcessInv(i) == PoolInv(i) /\ EnvInv(i) /\ BeatInv(i)

\* An interval that is a number.
LEMMA IntervalType ==
  ASSUME TypesInv, NEW i \in Instance
  PROVE  Interval(i) \in Int /\ beat[i] \in Nat /\ workers[i].age \in Nat /\ Lateness \in Nat
BY DurationTypes, ClockTypes DEF TypesInv, Interval, Cfg, WorkerRow

\* A process whose main and goroutines stay where they are keeps its part of
\* the pool.
LEMMA PoolRests ==
  ASSUME NEW i \in Instance, PoolInv(i), pc'[i] = pc[i], how'[i] = how[i], loop'[i] = loop[i]
  PROVE  PoolInv(i)'
BY DEF PoolInv

\* A process that runs keeps the environment it was loaded with.
LEMMA EnvRests ==
  ASSUME NEW i \in Instance, EnvInv(i), pc[i] # "down", env'[i] = env[i]
  PROVE  EnvInv(i)'
BY DEF EnvInv

\* The ticker goes on and the row does not age meanwhile.
LEMMA BeatRests ==
  ASSUME TypesInv, TypesInv', FaultsGrow, NEW i \in Instance, BeatInv(i),
         Beating(i)' => Beating(i),
         env'[i] = env[i], beat'[i] = beat[i], workers'[i].age <= workers[i].age
  PROVE  BeatInv(i)'
<1>1. Interval(i)' = Interval(i)
  BY DEF Interval, Cfg
<1>2. Interval(i) \in Int /\ beat[i] \in Nat /\ workers[i].age \in Nat /\ Lateness \in Nat
  BY IntervalType
<1>3. workers'[i].age \in Nat
  BY DEF TypesInv, WorkerRow
<1>4. /\ Happened("register") => Happened("register")'
      /\ Happened("beat") => Happened("beat")'
      /\ TwoBeatsFailed => TwoBeatsFailed'
  BY DEF FaultsGrow, FaultKind
<1>5. SUFFICES ASSUME Beating(i)', Interval(i) > 0, ~ Happened("register")', ~ TwoBeatsFailed'
               PROVE  workers'[i].age <= beat[i] + IF Happened("beat")' THEN Interval(i) ELSE 0
  BY <1>1 DEF BeatInv
<1>6. workers[i].age <= beat[i] + IF Happened("beat") THEN Interval(i) ELSE 0
  BY <1>4, <1>5 DEF BeatInv
<1>7. QED
  BY <1>2, <1>3, <1>4, <1>5, <1>6

\* A process that takes no part in a step, but for a younger row, keeps its
\* part.
LEMMA OtherProcess ==
  ASSUME LifeInv, TypesInv', FaultsGrow, NEW i \in Instance,
         pc'[i] = pc[i], how'[i] = how[i], loop'[i] = loop[i], env'[i] = env[i],
         beat'[i] = beat[i], workers'[i].age <= workers[i].age
  PROVE  ProcessInv(i)'
<1>1. PoolInv(i) /\ EnvInv(i) /\ BeatInv(i) /\ TypesInv
  BY DEF LifeInv
<1>2. Beating(i)' <=> Beating(i)
  BY DEF Beating, HasPool
<1>3. EnvInv(i)'
  BY <1>1 DEF EnvInv
<1>4. QED
  BY <1>1, <1>2, <1>3, PoolRests, BeatRests DEF ProcessInv

\* A request that nobody serves stays honest.
LEMMA StaysHonest ==
  ASSUME NEW q, NEW a \in BOOLEAN, NEW b \in BOOLEAN, a => b, Honest(q, a)
  PROVE  Honest(q, b)
BY DEF Honest

\* The requests of process i are over; the others are where they were.
LEMMA RequestsElsewhere ==
  ASSUME LifeInv, FaultsGrow, NEW i \in Instance, NEW r \in Request, rq'[r] = rq[r],
         ~ (UnderWay(rq[r]) /\ rq[r].at = i),
         \A k \in Instance : k # i => pc'[k] = pc[k] /\ env'[k] = env[k]
  PROVE  RequestInv(r)'
<1>1. AtServer(rq[r]) /\ Honest(rq[r], Happened("call"))
  BY DEF LifeInv, RequestInv
<1>2. Honest(rq[r], Happened("call")')
  BY <1>1, StaysHonest DEF FaultsGrow, FaultKind, Happened
<1>3. AtServer(rq[r])'
  BY <1>1 DEF AtServer, UnderWay, HasApi
<1>4. QED
  BY <1>2, <1>3 DEF RequestInv

\* The process is gone.
LEMMA GoneStep ==
  ASSUME LifeInv, NEW i \in Instance, NEW k \in Outcome, Gone(i, k),
         k = "drained" => how[i] = "drained",
         workers' \in [Instance -> WorkerRow],
         \A j \in Instance : j # i => workers'[j] = workers[j],
         UNCHANGED faults \/ \E x \in FaultKind : Fault(x), UNCHANGED scale
  PROVE  LifeInv'
<1>0. TypesInv /\ FaultsGrow
  BY FaultsDoGrow DEF LifeInv
<1>1. /\ pc' = [pc EXCEPT ![i] = "down"] /\ env' = [env EXCEPT ![i] = Blank]
      /\ how' = [how EXCEPT ![i] = k] /\ beat' = [beat EXCEPT ![i] = 0]
      /\ loop' = [loop EXCEPT ![i] = [g \in Goroutine |-> IF loop[i][g] = "busy" THEN "lost" ELSE "none"]]
      /\ rq' = [r \in Request |-> IF r \in InFlight(i) THEN [rq[r] EXCEPT !.pc = "cut"] ELSE rq[r]]
      /\ UNCHANGED backlog
  BY DEF Gone, Goto
<1>2. ASSUME NEW r \in Request
      PROVE  /\ rq'[r] \in RequestRec
             /\ r \in InFlight(i) => rq'[r] = [rq[r] EXCEPT !.pc = "cut"]
             /\ r \notin InFlight(i) => rq'[r] = rq[r]
  <2>1. rq[r] \in RequestRec
    BY <1>0 DEF TypesInv
  <2>2. [rq[r] EXCEPT !.pc = "cut"] \in RequestRec
    BY <2>1 DEF RequestRec
  <2>3. QED
    BY <1>1, <2>1, <2>2
<1>3. TypesInv'
  <2>1. pc' \in [Instance -> MainPC] /\ how' \in [Instance -> Outcome]
    BY <1>0, <1>1 DEF TypesInv, MainPC
  <2>2. env' \in [Instance -> Environment] /\ beat' \in [Instance -> Nat]
    BY <1>0, <1>1, BlankType DEF TypesInv
  <2>3. loop' \in [Instance -> [Goroutine -> LoopPC]]
    <3>1. [g \in Goroutine |-> IF loop[i][g] = "busy" THEN "lost" ELSE "none"] \in [Goroutine -> LoopPC]
      BY DEF LoopPC
    <3>2. QED
      BY <1>0, <1>1, <3>1 DEF TypesInv
  <2>4. rq' \in [Request -> RequestRec]
    BY <1>1, <1>2
  <2>5. QED
    BY <1>0, <1>1, <2>1, <2>2, <2>3, <2>4 DEF TypesInv, FaultsGrow
<1>4. ASSUME NEW j \in Instance, j # i PROVE ProcessInv(j)'
  <2>1. /\ pc'[j] = pc[j] /\ how'[j] = how[j] /\ loop'[j] = loop[j] /\ env'[j] = env[j]
        /\ beat'[j] = beat[j] /\ workers'[j] = workers[j] /\ workers[j].age \in Nat
    BY <1>0, <1>1, <1>4 DEF TypesInv, WorkerRow
  <2>2. QED
    BY <1>0, <1>3, <2>1, OtherProcess
<1>5. ProcessInv(i)'
  <2>1. pc'[i] = "down" /\ how'[i] = k /\ \A g \in Goroutine : loop'[i][g] = IF loop[i][g] = "busy" THEN "lost" ELSE "none"
    BY <1>0, <1>1 DEF TypesInv
  <2>2. PoolInv(i)'
    BY <2>1 DEF LifeInv, PoolInv
  <2>3. EnvInv(i)' /\ BeatInv(i)'
    BY <2>1 DEF EnvInv, BeatInv, Beating, Started, Draining
  <2>4. QED
    BY <2>2, <2>3 DEF ProcessInv
<1>6. ASSUME NEW r \in Request PROVE RequestInv(r)'
  <2>1. CASE r \in InFlight(i)
    <3>1. rq[r] \in RequestRec /\ rq[r].code = 0
      BY <1>0, <2>1 DEF TypesInv, LifeInv, RequestInv, Honest, InFlight
    <3>2. rq'[r] = [rq[r] EXCEPT !.pc = "cut"]
      BY <1>2, <2>1
    <3>3. rq'[r].pc = "cut" /\ rq'[r].code = 0
      BY <3>1, <3>2 DEF RequestRec
    <3>4. QED
      BY <3>3 DEF RequestInv, AtServer, UnderWay, Honest
  <2>2. CASE r \notin InFlight(i)
    <3>1. \A j \in Instance : j # i => pc'[j] = pc[j] /\ env'[j] = env[j]
      BY <1>0, <1>1 DEF TypesInv
    <3>2. QED
      BY <1>0, <1>2, <2>2, <3>1, RequestsElsewhere DEF InFlight, UnderWay
  <2>3. QED
    BY <2>1, <2>2
<1>7. QED
  BY <1>3, <1>4, <1>5, <1>6 DEF LifeInv, ProcessInv

\* main goes on to k after the select.
LEMMA MainGoes ==
  ASSUME LifeInv, NEW i \in Instance, NEW k \in (Started \ {"up"}) \cup {"exit"}, Goto(i, k),
         pc[i] \in Started, UNCHANGED <<env, loop, beat, backlog, scale>>,
         UNCHANGED faults \/ \E x \in FaultKind : Fault(x),
         NEW h \in Outcome, how' = [how EXCEPT ![i] = h], PoolInv(i)',
         how[i] = "timeout" => h = "timeout",
         UNCHANGED workers \/ \E s \in {"ACTIVE", "DRAINING", "STOPPED"} : UpdateStatus(i, s),
         rq' \in [Request -> RequestRec],
         \A r \in Request : RequestInv(r)'
  PROVE  LifeInv'
<1>0. TypesInv /\ FaultsGrow
  BY FaultsDoGrow DEF LifeInv
<1>1. pc' = [pc EXCEPT ![i] = k] /\ pc'[i] = k /\ how'[i] = h
  BY <1>0 DEF Goto, TypesInv
<1>2. workers' \in [Instance -> WorkerRow] /\ \A j \in Instance : workers'[j].age <= workers[j].age
  <2>1. workers \in [Instance -> WorkerRow] /\ \A j \in Instance : workers[j].age \in Nat
    BY <1>0 DEF TypesInv, WorkerRow
  <2>2. CASE UNCHANGED workers
    BY <2>1, <2>2
  <2>3. ASSUME NEW s \in {"ACTIVE", "DRAINING", "STOPPED"}, UpdateStatus(i, s)
        PROVE  workers' \in [Instance -> WorkerRow] /\ \A j \in Instance : workers'[j].age <= workers[j].age
    <3> DEFINE row == [status |-> s, age |-> 0]
    <3>1. row \in WorkerRow /\ row.age = 0
      BY DEF WorkerRow
    <3> HIDE DEF row
    <3>2. workers' = [workers EXCEPT ![i] = row]
      BY <2>3 DEF UpdateStatus, row
    <3>3. QED
      BY <2>1, <3>1, <3>2
  <2>4. QED
    BY <2>2, <2>3
<1>3. TypesInv'
  <2>1. pc' \in [Instance -> MainPC] /\ how' \in [Instance -> Outcome]
    BY <1>0, <1>1 DEF TypesInv, MainPC
  <2>2. QED
    BY <1>0, <1>2, <2>1 DEF TypesInv, FaultsGrow
<1>4. ASSUME NEW j \in Instance, j # i PROVE ProcessInv(j)'
  <2>1. /\ pc'[j] = pc[j] /\ how'[j] = how[j] /\ loop'[j] = loop[j] /\ env'[j] = env[j]
        /\ beat'[j] = beat[j] /\ workers'[j].age <= workers[j].age
    BY <1>0, <1>1, <1>2, <1>4 DEF TypesInv
  <2>2. QED
    BY <1>0, <1>3, <2>1, OtherProcess
<1>5. ProcessInv(i)'
  <2>1. pc[i] # "down" /\ pc'[i] = k
    BY <1>1 DEF Started, Draining
  <2>2. Beating(i)' => Beating(i)
    <3>1. ASSUME Beating(i)' PROVE how[i] # "timeout"
      <4>1. k \in Started /\ h # "timeout"
        BY <1>1, <3>1 DEF Beating
      <4>2. QED
        BY <4>1
    <3>2. QED
      BY <3>1 DEF Beating, HasPool
  <2>3. EnvInv(i)'
    BY <2>1, EnvRests DEF LifeInv
  <2>4. BeatInv(i)'
    BY <1>0, <1>2, <1>3, <2>2, BeatRests DEF LifeInv
  <2>5. QED
    BY <2>3, <2>4 DEF ProcessInv
<1>6. QED
  BY <1>3, <1>4, <1>5 DEF LifeInv, ProcessInv

\* The requests at process i keep their server while main goes on to k.
LEMMA RequestsStay ==
  ASSUME LifeInv, FaultsGrow, NEW i \in Instance, NEW k \in (Started \ {"up"}) \cup {"exit"},
         Goto(i, k), UNCHANGED env, NEW r \in Request, rq'[r] = rq[r],
         \/ pc[i] = "up" /\ k = "http"
         \/ pc[i] \notin {"up", "http"}
         \/ ~ (UnderWay(rq[r]) /\ rq[r].at = i)
  PROVE  RequestInv(r)'
<1>0. pc' = [pc EXCEPT ![i] = k] /\ pc \in [Instance -> MainPC]
  BY DEF Goto, LifeInv, TypesInv
<1>1. AtServer(rq[r]) /\ Honest(rq[r], Happened("call"))
  BY DEF LifeInv, RequestInv
<1>2. Honest(rq[r], Happened("call")')
  BY <1>1, StaysHonest DEF FaultsGrow, FaultKind, Happened
<1>3. AtServer(rq[r])'
  BY <1>0, <1>1 DEF AtServer, UnderWay, HasApi
<1>4. QED
  BY <1>2, <1>3 DEF RequestInv

\* One field of a request is set.
LEMMA FieldSet ==
  ASSUME NEW q \in RequestRec, NEW b \in BOOLEAN
  PROVE  /\ [q EXCEPT !.late = b] \in RequestRec /\ [q EXCEPT !.stored = b] \in RequestRec
         /\ [q EXCEPT !.queued = b] \in RequestRec /\ [q EXCEPT !.gated = b] \in RequestRec
<1>1. [q EXCEPT !.late = b] \in RequestRec
  BY DEF RequestRec
<1>2. [q EXCEPT !.stored = b] \in RequestRec
  BY DEF RequestRec
<1>3. [q EXCEPT !.queued = b] \in RequestRec
  BY DEF RequestRec
<1>4. [q EXCEPT !.gated = b] \in RequestRec
  BY DEF RequestRec
<1>5. QED
  BY <1>1, <1>2, <1>3, <1>4

\* The steps of main through Server.Shutdown and Pool.Stop keep the invariant.
LEMMA MainSteps ==
  ASSUME LifeInv, NEW i \in Instance, UNCHANGED scale,
         \/ Signal(i) \/ HttpDrained(i) \/ HttpTimesOut(i) \/ StopBegins(i)
         \/ RegisterDraining(i) \/ RegisterDrainingFails(i) \/ CloseQueue(i)
         \/ AllLeft(i) \/ WaitTimesOut(i) \/ GraceEnds(i)
  PROVE  LifeInv'
<1>0. /\ TypesInv /\ FaultsGrow /\ PoolInv(i) /\ pc[i] \in Started
      /\ UNCHANGED faults \/ \E x \in FaultKind : Fault(x)
      /\ UNCHANGED <<env, loop, beat, backlog, scale>>
  <2>1. UNCHANGED faults \/ \E x \in FaultKind : Fault(x)
    BY DEF Signal, HttpDrained, HttpTimesOut, StopBegins, RegisterDraining,
           RegisterDrainingFails, CloseQueue, AllLeft, WaitTimesOut, GraceEnds, MainOnly, FaultKind
  <2>2. pc[i] \in Started /\ UNCHANGED <<env, loop, beat, backlog>>
    BY DEF Signal, HttpDrained, HttpTimesOut, StopBegins, RegisterDraining,
           RegisterDrainingFails, CloseQueue, AllLeft, WaitTimesOut, GraceEnds, MainOnly,
           Started, Draining
  <2>3. QED
    BY <2>1, <2>2, FaultsDoGrow DEF LifeInv
<1>1. /\ rq \in [Request -> RequestRec] /\ how \in [Instance -> Outcome]
      /\ pc \in [Instance -> MainPC]
  BY <1>0 DEF TypesInv
<1>2. how' = how => how' = [how EXCEPT ![i] = how[i]]
  BY <1>1
<1>3. ASSUME NEW k \in (Started \ {"up", "last"}) \cup {"exit"}, Goto(i, k), UNCHANGED <<how, rq>>,
             pc[i] \in {"up", "http", "stop", "register", "close"},
             UNCHANGED workers \/ UpdateStatus(i, "DRAINING"),
             \A r \in Request : \/ pc[i] = "up" /\ k = "http"
                                \/ pc[i] \notin {"up", "http"}
                                \/ ~ (UnderWay(rq[r]) /\ rq[r].at = i)
      PROVE  LifeInv'
  <2>1. \A r \in Request : RequestInv(r)'
    BY <1>0, <1>3, RequestsStay
  <2>2. how[i] \in Outcome \ {"timeout", "drained"}
    BY <1>0, <1>1, <1>3 DEF PoolInv
  <2>3. PoolInv(i)'
    BY <1>3, <2>2 DEF PoolInv
  <2>4. QED
    BY <1>0, <1>1, <1>2, <1>3, <2>1, <2>2, <2>3, MainGoes
<1>4. CASE Signal(i)
  <2>1. CASE HasApi(i)
    BY <1>3, <1>4, <2>1 DEF Signal, MainOnly, Started
  <2>2. CASE ~ HasApi(i)
    <3>1. \A r \in Request : ~ (UnderWay(rq[r]) /\ rq[r].at = i)
      BY <2>2 DEF LifeInv, RequestInv, AtServer
    <3>2. PICK k \in {"stop", "exit"} : Goto(i, k)
      BY <1>4, <2>2 DEF Signal, AfterHttp
    <3>3. QED
      BY <1>3, <1>4, <3>1, <3>2 DEF Signal, MainOnly, Started
  <2>3. QED
    BY <2>1, <2>2
<1>5. CASE HttpDrained(i)
  <2>1. \A r \in Request : ~ (UnderWay(rq[r]) /\ rq[r].at = i)
    BY <1>5 DEF HttpDrained, InFlight, UnderWay
  <2>2. PICK k \in {"stop", "exit"} : Goto(i, k)
    BY <1>5 DEF HttpDrained, AfterHttp
  <2>3. QED
    BY <1>3, <1>5, <2>1, <2>2 DEF HttpDrained, MainOnly, Started
<1>6. CASE HttpTimesOut(i)
  <2>1. PICK k \in {"stop", "exit"} : Goto(i, k)
    BY <1>6 DEF HttpTimesOut, AfterHttp
  <2>2. UNCHANGED <<how, workers, faults>> /\ pc[i] = "http"
    BY <1>6 DEF HttpTimesOut
  <2>3. ASSUME NEW r \in Request
        PROVE  rq'[r] \in RequestRec /\ RequestInv(r)'
    <3>1. rq[r] \in RequestRec /\ RequestInv(r)
      BY <1>1 DEF LifeInv
    <3>2. CASE r \in InFlight(i)
      <4>1. rq'[r] = [rq[r] EXCEPT !.late = TRUE]
        BY <1>6, <3>2 DEF HttpTimesOut
      <4>2. /\ rq'[r] \in RequestRec /\ rq'[r].late /\ rq'[r].pc = rq[r].pc /\ rq'[r].at = i
            /\ rq'[r].code = rq[r].code /\ rq'[r].stored = rq[r].stored
            /\ rq'[r].queued = rq[r].queued
        <5>1. rq[r].at = i
          BY <3>2 DEF InFlight
        <5>2. rq'[r] \in RequestRec
          BY <3>1, <4>1, FieldSet
        <5>3. rq'[r].pc = rq[r].pc /\ rq'[r].at = rq[r].at /\ rq'[r].code = rq[r].code
          BY <3>1, <4>1 DEF RequestRec
        <5>4. rq'[r].late = TRUE /\ rq'[r].stored = rq[r].stored /\ rq'[r].queued = rq[r].queued
          BY <3>1, <4>1 DEF RequestRec
        <5>5. QED
          BY <5>1, <5>2, <5>3, <5>4
      <4>3. pc'[i] \in Started \cup {"exit"}
        BY <1>1, <2>1 DEF Goto, Started
      <4>4. HasApi(i)' = HasApi(i) /\ HasApi(i)
        BY <1>0, <3>1, <3>2 DEF HasApi, RequestInv, AtServer, UnderWay, InFlight
      <4>5. AtServer(rq[r])'
        BY <4>2, <4>3, <4>4 DEF AtServer, UnderWay
      <4>6. Honest(rq'[r], Happened("call")')
        BY <3>1, <3>2, <4>2 DEF RequestInv, Honest, InFlight
      <4>7. QED
        BY <4>2, <4>5, <4>6 DEF RequestInv
    <3>3. CASE r \notin InFlight(i)
      <4>1. rq'[r] = rq[r]
        BY <1>6, <3>3 DEF HttpTimesOut
      <4>2. ~ (UnderWay(rq[r]) /\ rq[r].at = i)
        BY <3>3 DEF InFlight, UnderWay
      <4>3. RequestInv(r)'
        BY <1>0, <2>1, <4>1, <4>2, RequestsStay DEF Started
      <4>4. QED
        BY <3>1, <4>1, <4>3
    <3>4. QED
      BY <3>2, <3>3
  <2>4. rq' \in [Request -> RequestRec]
    BY <1>6, <2>3 DEF HttpTimesOut
  <2>5. how[i] \in Outcome \ {"timeout", "drained"}
    BY <1>0, <1>1, <2>2 DEF PoolInv
  <2>6. PoolInv(i)'
    BY <2>2, <2>5 DEF PoolInv
  <2>7. k \in (Started \ {"up"}) \cup {"exit"}
    BY DEF Started
  <2>8. QED
    BY <1>0, <1>2, <2>1, <2>2, <2>3, <2>4, <2>5, <2>6, <2>7, MainGoes
<1>7. CASE StopBegins(i)
  BY <1>3, <1>7 DEF StopBegins, MainOnly, Started, Draining
<1>8. CASE RegisterDraining(i)
  BY <1>3, <1>8 DEF RegisterDraining, MainOnly, Started, Draining
<1>9. CASE RegisterDrainingFails(i)
  BY <1>3, <1>9 DEF RegisterDrainingFails, Started, Draining
<1>10. CASE CloseQueue(i)
  BY <1>3, <1>10 DEF CloseQueue, MainOnly, Started, Draining
<1>11. ASSUME NEW k \in {"last", "grace"}, Goto(i, k), NEW h \in Outcome,
              how' = [how EXCEPT ![i] = h], UNCHANGED <<rq, workers>>, pc[i] \in {"wait", "grace"},
              how[i] = "timeout" => h = "timeout",
              h = "drained" => k = "last" /\ \A g \in Goroutine : loop[i][g] \in {"none", "left"}
       PROVE  LifeInv'
  <2>1. \A r \in Request : RequestInv(r)'
    BY <1>0, <1>11, RequestsStay DEF Started, Draining
  <2>2. pc'[i] = k /\ how'[i] = h /\ loop'[i] = loop[i]
    BY <1>0, <1>1, <1>11 DEF Goto
  <2>3. PoolInv(i)'
    BY <1>11, <2>2 DEF PoolInv
  <2>4. k \in (Started \ {"up"}) \cup {"exit"}
    BY DEF Started, Draining
  <2>5. QED
    BY <1>0, <1>1, <1>11, <2>1, <2>3, <2>4, MainGoes
<1>12. CASE AllLeft(i)
  <2>1. how[i] # "timeout"
    BY <1>0, <1>12 DEF AllLeft, PoolInv
  <2>2. QED
    BY <1>11, <1>12, <2>1 DEF AllLeft, MainOnly, Outcome
<1>13. CASE WaitTimesOut(i)
  BY <1>11, <1>13 DEF WaitTimesOut, MainOnly, Outcome
<1>14. CASE GraceEnds(i)
  <2>1. how[i] \in Outcome \ {"drained"}
    BY <1>0, <1>1, <1>14 DEF GraceEnds, PoolInv
  <2>2. QED
    BY <1>2, <1>11, <1>14, <2>1 DEF GraceEnds, MainOnly
<1>15. QED
  BY <1>4, <1>5, <1>6, <1>7, <1>8, <1>9, <1>10, <1>12, <1>13, <1>14

-----------------------------------------------------------------------------
(* The steps of main before its select, and its ends *)

\* A process that serves no request moves.
LEMMA IdleMoves ==
  ASSUME LifeInv, TypesInv', FaultsGrow, NEW i \in Instance, ProcessInv(i)', UNCHANGED rq,
         \A r \in Request : ~ (UnderWay(rq[r]) /\ rq[r].at = i),
         \A j \in Instance : j # i =>
           /\ pc'[j] = pc[j] /\ how'[j] = how[j] /\ loop'[j] = loop[j] /\ env'[j] = env[j]
           /\ beat'[j] = beat[j] /\ workers'[j] = workers[j]
  PROVE  LifeInv'
<1>1. ASSUME NEW j \in Instance, j # i PROVE ProcessInv(j)'
  <2>1. workers[j].age \in Nat
    BY DEF LifeInv, TypesInv, WorkerRow
  <2>2. QED
    BY <1>1, <2>1, OtherProcess
<1>2. ASSUME NEW r \in Request PROVE RequestInv(r)'
  BY RequestsElsewhere
<1>3. QED
  BY <1>1, <1>2 DEF LifeInv, ProcessInv

\* A process that is not up has no request under way.
LEMMA Nobody ==
  ASSUME LifeInv, NEW i \in Instance, pc[i] \in {"down", "connect"}, NEW r \in Request
  PROVE  ~ (UnderWay(rq[r]) /\ rq[r].at = i)
BY DEF LifeInv, RequestInv, AtServer, Started, Draining

\* Load keeps the invariant, whether it accepts the environment or not.
LEMMA LoadSteps ==
  ASSUME LifeInv, NEW i \in Instance, UNCHANGED scale, Load(i) \/ LoadFails(i)
  PROVE  LifeInv'
<1>0. TypesInv /\ FaultsGrow /\ pc[i] = "down" /\ UNCHANGED <<beat, workers, rq, backlog, faults>>
  BY FaultsDoGrow DEF LifeInv, Load, LoadFails
<1>1. CASE Load(i)
  <2>1. PICK e \in Environ[i] : Loads(e) /\ env' = [env EXCEPT ![i] = e]
    BY <1>1 DEF Load
  <2>2. e \in Environment
    BY LifeConstants
  <2>3. /\ pc' = [pc EXCEPT ![i] = "connect"] /\ how' = [how EXCEPT ![i] = "never"]
        /\ loop' = [loop EXCEPT ![i] = [g \in Goroutine |-> "none"]]
    BY <1>1 DEF Load, Goto
  <2>4. TypesInv'
    <3>1. pc' \in [Instance -> MainPC] /\ how' \in [Instance -> Outcome]
      BY <1>0, <2>3 DEF TypesInv, MainPC, Outcome
    <3>2. [g \in Goroutine |-> "none"] \in [Goroutine -> LoopPC]
      BY DEF LoopPC
    <3>3. loop' \in [Instance -> [Goroutine -> LoopPC]] /\ env' \in [Instance -> Environment]
      BY <1>0, <2>1, <2>2, <2>3, <3>2 DEF TypesInv
    <3>4. QED
      BY <1>0, <3>1, <3>3 DEF TypesInv
  <2>5. pc'[i] = "connect" /\ how'[i] = "never" /\ env'[i] = e
    BY <1>0, <2>1, <2>3 DEF TypesInv
  <2>6. ProcessInv(i)'
    BY <2>1, <2>5 DEF ProcessInv, PoolInv, EnvInv, BeatInv, Beating, Started, Draining
  <2>7. \A j \in Instance : j # i =>
           /\ pc'[j] = pc[j] /\ how'[j] = how[j] /\ loop'[j] = loop[j] /\ env'[j] = env[j]
           /\ beat'[j] = beat[j] /\ workers'[j] = workers[j]
    BY <1>0, <2>1, <2>3 DEF TypesInv
  <2>8. QED
    BY <1>0, <2>4, <2>6, <2>7, Nobody, IdleMoves
<1>2. CASE LoadFails(i)
  <2>1. how' = [how EXCEPT ![i] = "error"] /\ UNCHANGED <<pc, env, loop>>
    BY <1>2 DEF LoadFails
  <2>2. TypesInv'
    BY <1>0, <2>1 DEF TypesInv, Outcome
  <2>3. ProcessInv(i)'
    BY <1>0, <2>1 DEF ProcessInv, PoolInv, EnvInv, BeatInv, Beating, Started, Draining, TypesInv
  <2>4. \A j \in Instance : j # i =>
           /\ pc'[j] = pc[j] /\ how'[j] = how[j] /\ loop'[j] = loop[j] /\ env'[j] = env[j]
           /\ beat'[j] = beat[j] /\ workers'[j] = workers[j]
    BY <1>0, <2>1 DEF TypesInv
  <2>5. QED
    BY <1>0, <2>2, <2>3, <2>4, Nobody, IdleMoves
<1>3. QED
  BY <1>1, <1>2

\* Pool.Start: the row is young, or its UpdateStatus failed.
LEMMA StartSteps ==
  ASSUME LifeInv, NEW i \in Instance, UNCHANGED scale, Start(i) \/ RegisterFailsAtStart(i)
  PROVE  LifeInv'
<1>0. PICK registered \in BOOLEAN :
        /\ StartPool(i, registered)
        /\ registered => UNCHANGED faults
        /\ ~ registered => Fault("register")
  BY DEF Start, RegisterFailsAtStart
<1>1. TypesInv /\ FaultsGrow /\ (~ registered => Happened("register")')
  <2>1. "register" \in FaultKind /\ TypesInv
    BY DEF FaultKind, LifeInv
  <2>2. QED
    BY <1>0, <2>1, FaultsDoGrow, FaultAppended
<1>2. /\ pc[i] = "connect" /\ pc' = [pc EXCEPT ![i] = "up"] /\ beat' = [beat EXCEPT ![i] = 0]
      /\ UNCHANGED <<env, how, rq, backlog>>
  BY <1>0 DEF StartPool, Goto
<1>3. /\ workers' \in [Instance -> WorkerRow]
      /\ \A j \in Instance : j # i => workers'[j] = workers[j]
      /\ HasPool(i) /\ registered => workers'[i].age = 0
  <2> DEFINE row == [status |-> "ACTIVE", age |-> 0]
  <2>1. row \in WorkerRow /\ row.age = 0
    BY DEF WorkerRow
  <2>2. UNCHANGED workers \/ workers' = [workers EXCEPT ![i] = row]
    BY <1>0 DEF StartPool, UpdateStatus
  <2>3. HasPool(i) /\ registered => workers' = [workers EXCEPT ![i] = row]
    BY <1>0 DEF StartPool, UpdateStatus
  <2> HIDE DEF row
  <2>4. QED
    BY <1>1, <2>1, <2>2, <2>3 DEF TypesInv
<1>4. loop' \in [Instance -> [Goroutine -> LoopPC]] /\ \A j \in Instance : j # i => loop'[j] = loop[j]
  <2> DEFINE l == [g \in Goroutine |-> IF g <= Cfg(i, "EXECUTION_WORKERS") THEN "check" ELSE "none"]
  <2>1. l \in [Goroutine -> LoopPC]
    BY DEF LoopPC
  <2>2. UNCHANGED loop \/ loop' = [loop EXCEPT ![i] = l]
    BY <1>0 DEF StartPool
  <2> HIDE DEF l
  <2>3. QED
    BY <1>1, <2>1, <2>2 DEF TypesInv
<1>5. TypesInv'
  <2>1. pc' \in [Instance -> MainPC] /\ beat' \in [Instance -> Nat]
    BY <1>1, <1>2 DEF TypesInv, MainPC, Started
  <2>2. QED
    BY <1>1, <1>2, <1>3, <1>4, <2>1 DEF TypesInv, FaultsGrow
<1>6. pc'[i] = "up" /\ beat'[i] = 0
  BY <1>1, <1>2 DEF TypesInv
<1>7. PoolInv(i)' /\ EnvInv(i)'
  BY <1>2, <1>6 DEF LifeInv, PoolInv, EnvInv
<1>8. BeatInv(i)'
  <2>1. SUFFICES ASSUME Beating(i)', Interval(i)' > 0
                 PROVE  /\ beat'[i] <= Interval(i)' + Lateness
                        /\ ~ Happened("register")' =>
                             workers'[i].age <= beat'[i] + IF Happened("beat")' THEN Interval(i)' ELSE 0
    BY DEF BeatInv
  <2>2. Interval(i)' = Interval(i) /\ Interval(i) \in Int /\ Lateness \in Nat /\ HasPool(i)
    BY <1>1, <1>2, <2>1, IntervalType DEF Interval, Cfg, HasPool, Beating
  <2>3. ~ Happened("register")' => workers'[i].age = 0
    BY <1>1, <1>3, <2>2
  <2>4. QED
    BY <1>6, <2>1, <2>2, <2>3
<1>9. \A j \in Instance : j # i =>
         /\ pc'[j] = pc[j] /\ how'[j] = how[j] /\ loop'[j] = loop[j] /\ env'[j] = env[j]
         /\ beat'[j] = beat[j] /\ workers'[j] = workers[j]
  BY <1>1, <1>2, <1>3, <1>4 DEF TypesInv
<1>10. QED
  BY <1>1, <1>2, <1>5, <1>7, <1>8, <1>9, Nobody, IdleMoves DEF ProcessInv

\* However a process ends.
LEMMA EndSteps ==
  ASSUME LifeInv, NEW i \in Instance, UNCHANGED scale,
         \/ ConnectFails(i) \/ TickerPanics(i) \/ ServerFails(i) \/ RegisterStopped(i)
         \/ RegisterStoppedFails(i) \/ Exit(i) \/ Crash(i)
  PROVE  LifeInv'
<1>1. workers \in [Instance -> WorkerRow] /\ how[i] \in Outcome
  BY DEF LifeInv, TypesInv
<1>2. UNCHANGED faults \/ \E x \in FaultKind : Fault(x)
  BY DEF ConnectFails, TickerPanics, ServerFails, RegisterStopped, RegisterStoppedFails, Exit,
         Crash, FaultKind
<1>3. UNCHANGED workers \/ UpdateStatus(i, "STOPPED")
  BY DEF ConnectFails, TickerPanics, ServerFails, RegisterStopped, RegisterStoppedFails, Exit, Crash
<1>4. workers' \in [Instance -> WorkerRow] /\ \A j \in Instance : j # i => workers'[j] = workers[j]
  <2> DEFINE row == [status |-> "STOPPED", age |-> 0]
  <2>1. row \in WorkerRow
    BY DEF WorkerRow
  <2>2. UNCHANGED workers \/ workers' = [workers EXCEPT ![i] = row]
    BY <1>3 DEF UpdateStatus
  <2> HIDE DEF row
  <2>3. QED
    BY <1>1, <2>1, <2>2
<1>5. PICK k \in {"error", "panic", "crash", how[i]} : Gone(i, k)
  BY DEF ConnectFails, TickerPanics, ServerFails, RegisterStopped, RegisterStoppedFails, Exit, Crash
<1>6. k \in Outcome /\ (k = "drained" => how[i] = "drained")
  BY <1>1 DEF Outcome
<1>7. QED
  BY <1>2, <1>4, <1>5, <1>6, GoneStep

-----------------------------------------------------------------------------
(* The goroutines of the pool *)

\* The requests do not notice what leaves the processes where they are.
LEMMA RequestKept ==
  ASSUME LifeInv, FaultsGrow, UNCHANGED <<pc, env>>, NEW r \in Request, rq'[r] = rq[r]
  PROVE  RequestInv(r)'
<1>1. AtServer(rq[r]) /\ Honest(rq[r], Happened("call"))
  BY DEF LifeInv, RequestInv
<1>2. Honest(rq[r], Happened("call")')
  BY <1>1, StaysHonest DEF FaultsGrow, FaultKind, Happened
<1>3. AtServer(rq[r])'
  BY <1>1 DEF AtServer, UnderWay, HasApi
<1>4. QED
  BY <1>2, <1>3 DEF RequestInv

\* The steps of the goroutines of a pool keep the invariant.
LEMMA LoopSteps ==
  ASSUME LifeInv, NEW i \in Instance, NEW g \in Goroutine, UNCHANGED scale, LoopStep(i, g)
  PROVE  LifeInv'
<1>0. UNCHANGED <<pc, env, how, beat, workers, rq>>
  BY DEF LoopStep, CheckStatus, CheckClosed, ReadMessage, ReadEmpty, ReadFails, JobEnds, LoopOnly
<1>1. TypesInv /\ FaultsGrow
  <2>1. UNCHANGED faults \/ \E x \in FaultKind : Fault(x)
    BY DEF LoopStep, CheckStatus, CheckClosed, ReadMessage, ReadEmpty, ReadFails, JobEnds, FaultKind
  <2>2. QED
    BY <2>1, FaultsDoGrow DEF LifeInv
<1>2. loop[i][g] \in {"check", "consume", "read", "busy"}
  BY DEF LoopStep, CheckStatus, CheckClosed, ReadMessage, ReadEmpty, ReadFails, JobEnds, At
<1>3. PICK k \in LoopPC : loop' = [loop EXCEPT ![i][g] = k]
  BY DEF LoopStep, CheckStatus, CheckClosed, ReadMessage, ReadEmpty, ReadFails, JobEnds, To, LoopPC
<1>4. backlog' \in Nat
  BY <1>1 DEF TypesInv, LoopStep, CheckStatus, CheckClosed, ReadMessage, ReadEmpty, ReadFails, JobEnds
<1>5. loop' \in [Instance -> [Goroutine -> LoopPC]] /\ \A j \in Instance : j # i => loop'[j] = loop[j]
  BY <1>1, <1>3 DEF TypesInv
<1>6. TypesInv'
  BY <1>0, <1>1, <1>4, <1>5 DEF TypesInv, FaultsGrow
<1>7. ASSUME NEW j \in Instance PROVE ProcessInv(j)'
  <2>0. workers[j].age \in Nat
    BY <1>1 DEF TypesInv, WorkerRow
  <2>1. CASE j # i
    BY <1>0, <1>1, <1>5, <1>6, <2>0, <2>1, OtherProcess
  <2>2. CASE j = i
    <3>1. PoolInv(i)'
      BY <1>0, <1>2 DEF LifeInv, PoolInv
    <3>2. Beating(i)' <=> Beating(i)
      BY <1>0 DEF Beating, HasPool
    <3>3. BeatInv(i)'
      BY <1>0, <1>1, <1>6, <2>0, <2>2, <3>2, BeatRests DEF LifeInv
    <3>4. EnvInv(i)'
      BY <1>0 DEF LifeInv, EnvInv
    <3>5. QED
      BY <2>2, <3>1, <3>3, <3>4 DEF ProcessInv
  <2>3. QED
    BY <2>1, <2>2
<1>8. QED
  BY <1>0, <1>1, <1>6, <1>7, RequestKept DEF LifeInv, ProcessInv

-----------------------------------------------------------------------------
(* Heartbeats and the table of workers *)

\* A step that moves only tickers and rows.
LEMMA TableSteps ==
  ASSUME LifeInv, TypesInv', FaultsGrow, UNCHANGED <<pc, env, how, loop, rq>>,
         \A i \in Instance : BeatInv(i)'
  PROVE  LifeInv'
<1>1. ASSUME NEW i \in Instance PROVE PoolInv(i)' /\ EnvInv(i)'
  BY DEF LifeInv, PoolInv, EnvInv
<1>2. QED
  BY <1>1, RequestKept DEF LifeInv

\* A ticker that is at most one tick behind loses one interval.
LEMMA OneTick ==
  ASSUME NEW b \in Nat, NEW n \in Nat, n > 0, n <= b, b < 2 * n
  PROVE  b % n = b - n
OBVIOUS

\* The phase of a ticker is below its interval.
LEMMA PhaseType ==
  ASSUME NEW b \in Nat, NEW n \in Nat, n > 0
  PROVE  b % n \in Nat /\ b % n < n
OBVIOUS

\* A heartbeat keeps the invariant, whether the statement succeeds or fails.
LEMMA BeatSteps ==
  ASSUME LifeInv, NEW i \in Instance, UNCHANGED scale, Beat(i) \/ BeatFails(i)
  PROVE  LifeInv'
<1>0. /\ Beating(i) /\ Interval(i) \in 1..beat[i] /\ UNCHANGED <<pc, env, how, loop, rq, backlog>>
      /\ beat' = [beat EXCEPT ![i] = beat[i] % Interval(i)]
  BY DEF Beat, BeatFails, Due, TickTaken, TableOnly, Interval
<1>1. TypesInv /\ FaultsGrow
  <2>1. UNCHANGED faults \/ \E x \in FaultKind : Fault(x)
    BY DEF Beat, BeatFails, FaultKind
  <2>2. QED
    BY <2>1, FaultsDoGrow DEF LifeInv
<1>2. /\ Interval(i) \in Nat \ {0} /\ beat[i] \in Nat /\ workers[i].age \in Nat /\ Lateness \in Nat
      /\ Interval(i) <= beat[i]
  BY <1>0, <1>1, IntervalType
<1>3. /\ beat'[i] = beat[i] % Interval(i) /\ beat'[i] \in Nat /\ beat'[i] < Interval(i)
      /\ beat' \in [Instance -> Nat]
  BY <1>0, <1>1, <1>2, PhaseType DEF TypesInv
<1>4. /\ workers' \in [Instance -> WorkerRow]
      /\ \A j \in Instance : j # i => workers'[j] = workers[j]
      /\ Beat(i) => workers'[i].age = 0
      /\ BeatFails(i) => workers'[i] = workers[i]
  <2>1. workers[i] \in WorkerRow /\ workers \in [Instance -> WorkerRow]
    BY <1>1 DEF TypesInv
  <2>2. [workers[i] EXCEPT !.age = 0] \in WorkerRow /\ [workers[i] EXCEPT !.age = 0].age = 0
    BY <2>1 DEF WorkerRow
  <2>3. Beat(i) => workers' = [workers EXCEPT ![i] = [workers[i] EXCEPT !.age = 0]]
    BY DEF Beat
  <2>4. BeatFails(i) => UNCHANGED workers
    BY DEF BeatFails
  <2>5. QED
    BY <2>1, <2>2, <2>3, <2>4
<1>5. TypesInv'
  BY <1>0, <1>1, <1>3, <1>4 DEF TypesInv, FaultsGrow
<1>6. ASSUME NEW j \in Instance, j # i PROVE BeatInv(j)'
  <2>1. (Beating(j)' <=> Beating(j)) /\ beat'[j] = beat[j] /\ env'[j] = env[j]
    BY <1>0, <1>1, <1>6 DEF Beating, HasPool, TypesInv
  <2>2. workers'[j] = workers[j] /\ workers[j].age \in Nat
    BY <1>1, <1>4, <1>6 DEF TypesInv, WorkerRow
  <2>3. QED
    BY <1>1, <1>5, <2>1, <2>2, BeatRests DEF LifeInv
<1>7. BeatInv(i)'
  <2>1. SUFFICES ASSUME ~ Happened("register")', ~ TwoBeatsFailed'
                 PROVE  workers'[i].age <= beat'[i] + IF Happened("beat")' THEN Interval(i) ELSE 0
    <3>1. Interval(i)' = Interval(i) /\ beat'[i] <= Interval(i) + Lateness
      BY <1>0, <1>2, <1>3 DEF Interval, Cfg
    <3>2. QED
      BY <3>1 DEF BeatInv
  <2>2. CASE Beat(i)
    BY <1>2, <1>3, <1>4, <2>2
  <2>3. CASE BeatFails(i)
    <3>1. Happened("beat")' /\ ~ Happened("beat") /\ ~ Happened("register") /\ ~ TwoBeatsFailed
      <4>1. "beat" \in FaultKind /\ Fault("beat") /\ "register" \in FaultKind
        BY <2>3 DEF BeatFails, FaultKind
      <4>2. QED
        BY <1>1, <2>1, <4>1, FaultAppended DEF FaultsGrow
    <3>2. workers[i].age <= beat[i] /\ beat[i] <= Interval(i) + Lateness
      BY <1>0, <1>2, <3>1 DEF LifeInv, BeatInv
    <3>3. Interval(i) > Lateness
      <4>1. pc[i] # "down"
        BY <1>0 DEF Beating, Started, Draining
      <4>2. env[i] \in Environ[i] /\ Loads(env[i])
        BY <4>1 DEF LifeInv, EnvInv
      <4>3. Interval(i) \notin 1..Lateness
        BY <4>2, LifeConstants DEF Interval, Cfg
      <4>4. QED
        BY <1>2, <4>3
    <3>4. beat'[i] = beat[i] - Interval(i)
      BY <1>2, <1>3, <3>2, <3>3, OneTick
    <3>5. QED
      BY <1>2, <1>4, <2>3, <3>1, <3>2, <3>4
  <2>4. QED
    BY <2>2, <2>3
<1>8. QED
  BY <1>0, <1>1, <1>5, <1>6, <1>7, TableSteps

\* Time goes by for the row and for the ticker alike.
LEMMA TickStep ==
  ASSUME LifeInv, UNCHANGED scale, Tick
  PROVE  LifeInv'
<1>0. TypesInv /\ FaultsGrow /\ UNCHANGED <<pc, env, how, loop, rq, backlog, faults>>
  BY FaultsDoGrow DEF LifeInv, Tick, TableOnly
<1> DEFINE step == scale.step
<1>1. step \in Nat \ {0} /\ MaxAge \in Nat /\ Lateness \in Nat
  BY <1>0, ClockTypes
<1>2. \A a \in Nat : Older(a) \in Nat /\ Older(a) <= a + step /\ (a + step <= MaxAge => Older(a) = a + step)
  BY <1>1 DEF Older
<1> HIDE DEF step
<1>3. ASSUME NEW i \in Instance
      PROVE  workers'[i] \in WorkerRow /\ workers'[i].age <= workers[i].age + step /\ workers[i].age \in Nat
  <2>1. workers[i] \in WorkerRow /\ workers[i].age \in Nat
    BY <1>0 DEF TypesInv, WorkerRow
  <2>2. CASE workers[i].status = "ABSENT"
    <3>1. workers'[i] = NoRow
      BY <2>2 DEF Tick
    <3>2. NoRow \in WorkerRow /\ NoRow.age = 0
      BY DEF NoRow, WorkerRow
    <3>3. QED
      BY <1>1, <2>1, <3>1, <3>2
  <2>3. CASE workers[i].status # "ABSENT"
    <3>1. workers'[i] = [workers[i] EXCEPT !.age = Older(workers[i].age)]
      BY <2>3 DEF Tick
    <3>2. workers'[i] \in WorkerRow /\ workers'[i].age = Older(workers[i].age)
      BY <1>2, <2>1, <3>1 DEF WorkerRow
    <3>3. QED
      BY <1>2, <2>1, <3>2
  <2>4. QED
    BY <2>2, <2>3
<1>4. ASSUME NEW i \in Instance
      PROVE  /\ beat'[i] = IF Beating(i) THEN Older(beat[i]) ELSE 0
             /\ beat'[i] \in Nat
  <2>1. beat'[i] = IF Beating(i) THEN Older(beat[i]) ELSE 0
    BY DEF Tick
  <2>2. beat[i] \in Nat
    BY <1>0 DEF TypesInv
  <2>3. QED
    BY <1>2, <2>1, <2>2
<1>5. TypesInv'
  <2>1. workers' \in [Instance -> WorkerRow]
    BY <1>3 DEF Tick
  <2>2. beat' \in [Instance -> Nat]
    BY <1>4 DEF Tick
  <2>3. QED
    BY <1>0, <2>1, <2>2 DEF TypesInv
<1>6. ASSUME NEW i \in Instance PROVE BeatInv(i)'
  <2>1. /\ Interval(i)' = Interval(i) /\ (Beating(i)' <=> Beating(i))
        /\ Happened("register")' = Happened("register") /\ Happened("beat")' = Happened("beat")
        /\ TwoBeatsFailed' = TwoBeatsFailed
    BY <1>0 DEF Interval, Cfg, Beating, HasPool, Happened, TwoBeatsFailed
  <2>2. SUFFICES ASSUME Beating(i), Interval(i) > 0
                 PROVE  /\ beat'[i] <= Interval(i) + Lateness
                        /\ ~ Happened("register") /\ ~ TwoBeatsFailed =>
                             workers'[i].age <= beat'[i] + IF Happened("beat") THEN Interval(i) ELSE 0
    BY <2>1 DEF BeatInv
  <2>3. Interval(i) \in Int /\ beat[i] \in Nat /\ workers[i].age \in Nat /\ workers'[i].age \in Nat
    BY <1>0, <1>3, IntervalType DEF WorkerRow
  <2>4. beat[i] + step <= Interval(i) + Lateness
    BY <2>2 DEF Tick, Interval, step
  <2>5. Interval(i) + Lateness <= MaxAge
    <3>1. pc[i] # "down"
      BY <2>2 DEF Beating, Started, Draining
    <3>2. env[i] \in Environ[i] /\ Loads(env[i])
      BY <3>1 DEF LifeInv, EnvInv
    <3>3. QED
      BY <3>2, LifeConstants DEF Interval, Cfg
  <2>6. beat'[i] = beat[i] + step
    BY <1>1, <1>2, <1>4, <2>2, <2>3, <2>4, <2>5
  <2>7. ~ Happened("register") /\ ~ TwoBeatsFailed =>
          workers[i].age <= beat[i] + IF Happened("beat") THEN Interval(i) ELSE 0
    BY <2>2 DEF LifeInv, BeatInv
  <2>8. workers'[i].age <= workers[i].age + step
    BY <1>3
  <2>9. QED
    BY <1>1, <2>3, <2>4, <2>6, <2>7, <2>8
<1>7. QED
  BY <1>0, <1>5, <1>6, TableSteps

\* A row that is marked keeps its age.
LEMMA MarkSteps ==
  ASSUME LifeInv, UNCHANGED scale, PeerMarksStale \/ \E i \in Instance : MarkStaleWorkers(i)
  PROVE  LifeInv'
<1>0. TypesInv /\ FaultsGrow /\ UNCHANGED <<pc, env, how, loop, beat, rq, backlog, faults>>
  BY FaultsDoGrow DEF LifeInv, PeerMarksStale, MarkStaleWorkers, TableOnly
<1>1. PICK timeout : MarkStale(timeout)
  BY DEF PeerMarksStale, MarkStaleWorkers
<1>2. ASSUME NEW k \in Instance
      PROVE  workers'[k] \in WorkerRow /\ workers'[k].age <= workers[k].age
  <2>1. workers[k] \in WorkerRow /\ workers[k].age \in Nat
    BY <1>0 DEF TypesInv, WorkerRow
  <2> DEFINE row == [workers[k] EXCEPT !.status = "STOPPED"]
  <2>2. row \in WorkerRow /\ row.age = workers[k].age
    BY <2>1 DEF WorkerRow
  <2>3. workers'[k] = row \/ workers'[k] = workers[k]
    BY <1>1 DEF MarkStale
  <2> HIDE DEF row
  <2>4. QED
    BY <2>1, <2>2, <2>3
<1>3. TypesInv'
  <2>1. workers' \in [Instance -> WorkerRow]
    BY <1>1, <1>2 DEF MarkStale
  <2>2. QED
    BY <1>0, <2>1 DEF TypesInv
<1>4. ASSUME NEW i \in Instance PROVE BeatInv(i)'
  <2>1. Beating(i)' <=> Beating(i)
    BY <1>0 DEF Beating, HasPool
  <2>2. QED
    BY <1>0, <1>2, <1>3, <2>1, BeatRests DEF LifeInv
<1>5. QED
  BY <1>0, <1>3, <1>4, TableSteps

-----------------------------------------------------------------------------
(* Requests *)

\* Request r becomes v.
LEMMA RequestMoves ==
  ASSUME LifeInv, FaultsGrow, NEW r \in Request, NEW v \in RequestRec, Set(r, v), RequestOnly,
         UNCHANGED scale, backlog' \in Nat, AtServer(v), Honest(v, Happened("call")')
  PROVE  LifeInv'
<1>0. /\ TypesInv /\ UNCHANGED <<pc, env, how, loop, beat, workers>>
      /\ rq' = [rq EXCEPT ![r] = v]
  BY DEF LifeInv, Set, RequestOnly
<1>1. rq' \in [Request -> RequestRec] /\ rq'[r] = v /\ \A x \in Request : x # r => rq'[x] = rq[x]
  BY <1>0 DEF TypesInv
<1>2. TypesInv'
  BY <1>0, <1>1 DEF TypesInv, FaultsGrow
<1>3. ASSUME NEW i \in Instance PROVE ProcessInv(i)'
  <2>1. workers[i].age \in Nat
    BY <1>0 DEF TypesInv, WorkerRow
  <2>2. QED
    BY <1>0, <1>2, <2>1, OtherProcess
<1>4. ASSUME NEW x \in Request PROVE RequestInv(x)'
  <2>1. CASE x # r
    BY <1>0, <1>1, <2>1, RequestKept
  <2>2. CASE x = r
    <3>1. AtServer(rq[r])'
      BY <1>0, <1>1 DEF AtServer, HasApi
    <3>2. QED
      BY <1>1, <2>2, <3>1 DEF RequestInv
  <2>3. QED
    BY <2>1, <2>2
<1>5. QED
  BY <1>2, <1>3, <1>4 DEF LifeInv, ProcessInv

\* The record of a request that is answered c.
Answered(q, c) == [q EXCEPT !.pc = "done", !.code = c]

\* An answered request has its code and what it did before.
LEMMA AnsweredFields ==
  ASSUME NEW q \in RequestRec, NEW c \in {202, 400, 500, 503}
  PROVE  /\ Answered(q, c) \in RequestRec
         /\ Answered(q, c).pc = "done" /\ Answered(q, c).code = c
         /\ Answered(q, c).stored = q.stored /\ Answered(q, c).queued = q.queued
         /\ Answered(q, c).late = q.late
<1> DEFINE d == [q EXCEPT !.pc = "done"]
<1>1. d \in RequestRec /\ d.pc = "done"
  BY DEF RequestRec
<1>2. d.stored = q.stored /\ d.queued = q.queued /\ d.late = q.late
  BY DEF RequestRec
<1>3. Answered(q, c) = [d EXCEPT !.code = c]
  BY DEF Answered, RequestRec
<1> HIDE DEF d
<1>4. [d EXCEPT !.code = c] \in RequestRec
  BY <1>1 DEF RequestRec
<1>5. [d EXCEPT !.code = c].pc = d.pc /\ [d EXCEPT !.code = c].code = c
  BY <1>1 DEF RequestRec
<1>6. /\ [d EXCEPT !.code = c].stored = d.stored /\ [d EXCEPT !.code = c].queued = d.queued
      /\ [d EXCEPT !.code = c].late = d.late
  BY <1>1 DEF RequestRec
<1>7. QED
  BY <1>1, <1>2, <1>3, <1>4, <1>5, <1>6

\* What is said fits what was done.
LEMMA AnswerStep ==
  ASSUME LifeInv, FaultsGrow, NEW r \in Request, NEW q \in RequestRec,
         NEW c \in {202, 400, 500, 503}, Answer(r, q, c), RequestOnly, UNCHANGED scale,
         backlog' \in Nat,
         c = 202 => q.stored /\ q.queued,
         c \in {400, 503} => ~ q.stored,
         c = 500 /\ q.stored => Happened("call")' \/ q.late
  PROVE  LifeInv'
<1>1. Set(r, Answered(q, c))
  BY DEF Answer, Answered
<1> DEFINE v == Answered(q, c)
<1>2. /\ v \in RequestRec /\ v.pc = "done" /\ v.code = c /\ v.stored = q.stored
      /\ v.queued = q.queued /\ v.late = q.late
  BY AnsweredFields
<1> HIDE DEF v
<1>3. AtServer(v)
  BY <1>2 DEF AtServer, UnderWay
<1>4. Honest(v, Happened("call")')
  BY <1>2 DEF Honest
<1>5. QED
  BY <1>1, <1>2, <1>3, <1>4, RequestMoves DEF v

\* The steps of the requests keep the invariant.
LEMMA RequestSteps ==
  ASSUME LifeInv, NEW r \in Request, UNCHANGED scale, RequestStep(r)
  PROVE  LifeInv'
<1> DEFINE q == rq[r]
<1>0. TypesInv /\ FaultsGrow /\ RequestOnly /\ q \in RequestRec /\ backlog' \in Nat
  <2>1. UNCHANGED faults \/ \E x \in FaultKind : Fault(x)
    BY DEF RequestStep, Arrive, Admit, StoreRun, EnqueueRun, RequestFails, FaultKind
  <2>2. RequestOnly
    BY DEF RequestStep, Arrive, Admit, StoreRun, EnqueueRun, RequestFails
  <2>3. backlog \in Nat
    BY DEF LifeInv, TypesInv
  <2>4. backlog' \in Nat
    <3>1. Arrive(r) \/ Admit(r) \/ StoreRun(r) => UNCHANGED backlog
      BY DEF Arrive, Admit, StoreRun
    <3>2. EnqueueRun(r) => UNCHANGED backlog \/ backlog' = backlog + 1
      BY DEF EnqueueRun
    <3>3. RequestFails(r) => UNCHANGED backlog \/ backlog' = backlog + 1
      BY DEF RequestFails
    <3>4. QED
      BY <2>3, <3>1, <3>2, <3>3 DEF RequestStep
  <2>5. QED
    BY <2>1, <2>2, <2>4, FaultsDoGrow DEF LifeInv, TypesInv
<1>1. AtServer(q) /\ Honest(q, Happened("call")) /\ q.stored \in BOOLEAN /\ q.queued \in BOOLEAN
  BY <1>0 DEF LifeInv, RequestInv, RequestRec
<1>2. CASE Arrive(r)
  <2>1. PICK i \in Instance, b \in BOOLEAN :
          /\ pc[i] = "up" /\ HasApi(i) /\ q.pc = "new"
          /\ Set(r, [q EXCEPT !.pc = "gate", !.at = i, !.gated = b])
    BY <1>2 DEF Arrive
  <2> DEFINE q1 == [q EXCEPT !.pc = "gate"]
             q2 == [q1 EXCEPT !.at = i]
             q3 == [q2 EXCEPT !.gated = b]
  <2>2. q1 \in RequestRec /\ q1.pc = "gate"
    BY <1>0 DEF RequestRec
  <2>3. q1.stored = q.stored /\ q1.code = q.code
    BY <1>0 DEF RequestRec
  <2>4. q3 = [q EXCEPT !.pc = "gate", !.at = i, !.gated = b]
    BY <1>0 DEF RequestRec
  <2> HIDE DEF q1
  <2>5. q2 \in RequestRec /\ q2.at = i /\ q2.pc = q1.pc /\ q2.code = q1.code
    BY <2>2 DEF RequestRec
  <2>6. q2.stored = q1.stored
    BY <2>2 DEF RequestRec
  <2> HIDE DEF q2
  <2>7. q3 \in RequestRec
    BY <2>5, FieldSet
  <2>8. q3.at = q2.at /\ q3.pc = q2.pc /\ q3.code = q2.code
    BY <2>5 DEF RequestRec
  <2>9. q3.stored = q2.stored
    BY <2>5 DEF RequestRec
  <2> HIDE DEF q3
  <2>10. q3.pc = "gate" /\ q3.at = i /\ q3.code = 0 /\ ~ q3.stored
    BY <1>1, <2>1, <2>2, <2>3, <2>5, <2>6, <2>8, <2>9 DEF Honest
  <2>11. AtServer(q3)
    BY <2>1, <2>10 DEF AtServer, UnderWay
  <2>12. Honest(q3, Happened("call")')
    BY <2>10 DEF Honest
  <2>13. QED
    BY <1>0, <2>1, <2>4, <2>7, <2>11, <2>12, RequestMoves
<1>3. CASE Admit(r)
  <2>1. q.pc = "gate" /\ ~ q.stored /\ q.code = 0
    BY <1>1, <1>3 DEF Admit, Honest
  <2>2. \/ \E c \in {400, 500, 503} : Answer(r, q, c)
        \/ Set(r, [q EXCEPT !.pc = "store"])
    BY <1>3 DEF Admit
  <2>3. ASSUME NEW c \in {400, 500, 503}, Answer(r, q, c) PROVE LifeInv'
    BY <1>0, <2>1, <2>3, AnswerStep
  <2>4. CASE Set(r, [q EXCEPT !.pc = "store"])
    <3> DEFINE v == [q EXCEPT !.pc = "store"]
    <3>1. v \in RequestRec /\ v.pc = "store" /\ v.at = q.at /\ v.code = q.code
      BY <1>0 DEF RequestRec
    <3>2. v.stored = q.stored /\ v.late = q.late
      BY <1>0 DEF RequestRec
    <3> HIDE DEF v
    <3>3. AtServer(v)
      BY <1>1, <2>1, <3>1, <3>2 DEF AtServer, UnderWay
    <3>4. Honest(v, Happened("call")')
      BY <2>1, <3>1, <3>2 DEF Honest
    <3>5. QED
      BY <1>0, <2>4, <3>1, <3>3, <3>4, RequestMoves DEF v
  <2>5. QED
    BY <2>2, <2>3, <2>4
<1>4. CASE StoreRun(r)
  <2>1. q.pc = "store" /\ q.code = 0 /\ Set(r, [q EXCEPT !.pc = "enqueue", !.stored = TRUE])
    BY <1>1, <1>4 DEF StoreRun, Honest
  <2> DEFINE q1 == [q EXCEPT !.pc = "enqueue"]
             v  == [q1 EXCEPT !.stored = TRUE]
  <2>2. q1 \in RequestRec /\ q1.pc = "enqueue" /\ q1.at = q.at /\ q1.code = q.code
    BY <1>0 DEF RequestRec
  <2>3. q1.late = q.late
    BY <1>0 DEF RequestRec
  <2>4. v = [q EXCEPT !.pc = "enqueue", !.stored = TRUE]
    BY <1>0 DEF RequestRec
  <2> HIDE DEF q1
  <2>5. v \in RequestRec
    BY <2>2, FieldSet
  <2>6. v.pc = q1.pc /\ v.at = q1.at /\ v.code = q1.code
    BY <2>2 DEF RequestRec
  <2>7. v.stored = TRUE /\ v.late = q1.late
    BY <2>2 DEF RequestRec
  <2> HIDE DEF v
  <2>8. AtServer(v)
    BY <1>1, <2>1, <2>2, <2>3, <2>6, <2>7 DEF AtServer, UnderWay
  <2>9. Honest(v, Happened("call")')
    BY <2>1, <2>2, <2>6, <2>7 DEF Honest
  <2>10. QED
    BY <1>0, <2>1, <2>4, <2>5, <2>8, <2>9, RequestMoves
<1>5. q.pc = "enqueue" => /\ [q EXCEPT !.queued = TRUE] \in RequestRec
                          /\ [q EXCEPT !.queued = TRUE].queued = TRUE
                          /\ [q EXCEPT !.queued = TRUE].stored = TRUE
  <2>1. [q EXCEPT !.queued = TRUE] \in RequestRec
    BY <1>0, FieldSet
  <2>2. /\ [q EXCEPT !.queued = TRUE].queued = TRUE
        /\ [q EXCEPT !.queued = TRUE].stored = q.stored
    BY <1>0 DEF RequestRec
  <2>3. q.pc = "enqueue" => q.stored = TRUE
    BY <1>1 DEF Honest
  <2>4. QED
    BY <2>1, <2>2, <2>3
<1>6. CASE EnqueueRun(r)
  <2>1. q.pc = "enqueue"
    BY <1>6 DEF EnqueueRun
  <2>2. CASE Closed(q.at)
    \* A closed queue is met only by a request the server gave up on.
    <3>1. q.late
      BY <1>1, <2>1, <2>2 DEF AtServer, UnderWay, Closed
    <3>2. Answer(r, q, 500)
      BY <1>6, <2>2 DEF EnqueueRun
    <3>3. QED
      BY <1>0, <3>1, <3>2, AnswerStep
  <2>3. CASE ~ Closed(q.at)
    <3>1. Answer(r, [q EXCEPT !.queued = TRUE], 202)
      BY <1>6, <2>3 DEF EnqueueRun
    <3> DEFINE v == [q EXCEPT !.queued = TRUE]
    <3>2. v \in RequestRec /\ v.stored /\ v.queued /\ Answer(r, v, 202)
      BY <1>5, <2>1, <3>1
    <3> HIDE DEF v
    <3>3. QED
      BY <1>0, <3>2, AnswerStep
  <2>4. QED
    BY <2>2, <2>3
<1>7. CASE RequestFails(r)
  <2>1. Happened("call")'
    <3>1. Fault("call") /\ "call" \in FaultKind
      BY <1>7 DEF RequestFails, FaultKind
    <3>2. QED
      BY <1>0, <3>1, FaultAppended
  <2>2. \/ Answer(r, q, 500)
        \/ Answer(r, [q EXCEPT !.stored = TRUE], 500)
        \/ q.pc = "enqueue" /\ Answer(r, [q EXCEPT !.queued = TRUE], 500)
    BY <1>7 DEF RequestFails
  <2>3. [q EXCEPT !.stored = TRUE] \in RequestRec
    BY <1>0, FieldSet
  <2>4. ASSUME NEW v \in RequestRec, Answer(r, v, 500) PROVE LifeInv'
    BY <1>0, <2>1, <2>4, AnswerStep
  <2>5. QED
    BY <1>0, <1>5, <2>2, <2>3, <2>4
<1>8. QED
  BY <1>2, <1>3, <1>4, <1>6, <1>7 DEF RequestStep

-----------------------------------------------------------------------------
(* The invariant and what follows from it *)

LEMMA LifeInitInv == LifeInit => LifeInv
<1> SUFFICES ASSUME LifeInit PROVE LifeInv
  OBVIOUS
<1>1. NoRow \in WorkerRow
  BY DEF NoRow, WorkerRow
<1>2. NoRequest \in RequestRec
  BY DEF NoRequest, RequestRec
<1>3. /\ NoRequest.pc = "new" /\ NoRequest.code = 0 /\ ~ NoRequest.stored
  BY DEF NoRequest
<1>4. TypesInv
  <2>1. pc \in [Instance -> MainPC] /\ how \in [Instance -> Outcome] /\ beat \in [Instance -> Nat]
    BY DEF LifeInit, MainPC, Outcome
  <2>2. loop \in [Instance -> [Goroutine -> LoopPC]]
    BY DEF LifeInit, LoopPC
  <2>3. env \in [Instance -> Environment] /\ workers \in [Instance -> WorkerRow]
    BY <1>1, BlankType DEF LifeInit
  <2>4. rq \in [Request -> RequestRec]
    BY <1>2 DEF LifeInit
  <2>5. faults \in Seq(FaultKind) /\ backlog \in Nat /\ scale \in Scale
    BY DEF LifeInit
  <2>6. QED
    BY <2>1, <2>2, <2>3, <2>4, <2>5 DEF TypesInv
<1>5. ASSUME NEW i \in Instance PROVE PoolInv(i) /\ EnvInv(i) /\ BeatInv(i)
  <2>1. pc[i] = "down" /\ how[i] = "never"
    BY DEF LifeInit
  <2>2. QED
    BY <2>1 DEF PoolInv, EnvInv, BeatInv, Beating, Started, Draining
<1>6. ASSUME NEW r \in Request PROVE RequestInv(r)
  <2>1. rq[r] = NoRequest
    BY DEF LifeInit
  <2>2. QED
    BY <1>3, <2>1 DEF RequestInv, AtServer, UnderWay, Honest
<1>7. QED
  BY <1>4, <1>5, <1>6 DEF LifeInv

\* The invariant is inductive.
LEMMA LifeNextInv == LifeInv /\ [LifeNext]_lifeVars => LifeInv'
<1> SUFFICES ASSUME LifeInv, [LifeNext]_lifeVars PROVE LifeInv'
  OBVIOUS
<1>1. CASE UNCHANGED lifeVars
  <2>1. UNCHANGED <<pc, env, how, loop, beat, workers, rq, backlog, scale, faults>>
    BY <1>1 DEF lifeVars
  <2>2. FaultsGrow /\ TypesInv'
    BY <2>1, FaultsDoGrow DEF LifeInv, TypesInv
  <2>3. \A i \in Instance : BeatInv(i)'
    BY <2>1 DEF LifeInv, BeatInv, Beating, HasPool, Interval, Cfg, Happened, TwoBeatsFailed
  <2>4. QED
    BY <2>1, <2>2, <2>3, TableSteps
<1>2. ASSUME LifeNext PROVE LifeInv'
  <2>0. UNCHANGED scale
    BY <1>2 DEF LifeNext
  <2>1. ASSUME NEW i \in Instance, Load(i) \/ LoadFails(i) PROVE LifeInv'
    BY <2>0, <2>1, LoadSteps
  <2>2. ASSUME NEW i \in Instance, Start(i) \/ RegisterFailsAtStart(i) PROVE LifeInv'
    BY <2>0, <2>2, StartSteps
  <2>3. ASSUME NEW i \in Instance,
               \/ ConnectFails(i) \/ TickerPanics(i) \/ ServerFails(i) \/ RegisterStopped(i)
               \/ RegisterStoppedFails(i) \/ Exit(i) \/ Crash(i)
        PROVE  LifeInv'
    BY <2>0, <2>3, EndSteps
  <2>4. ASSUME NEW i \in Instance,
               \/ Signal(i) \/ HttpDrained(i) \/ HttpTimesOut(i) \/ StopBegins(i)
               \/ RegisterDraining(i) \/ RegisterDrainingFails(i) \/ CloseQueue(i)
               \/ AllLeft(i) \/ WaitTimesOut(i) \/ GraceEnds(i)
        PROVE  LifeInv'
    BY <2>0, <2>4, MainSteps
  <2>5. ASSUME NEW i \in Instance, NEW g \in Goroutine, LoopStep(i, g) PROVE LifeInv'
    BY <2>0, <2>5, LoopSteps
  <2>6. ASSUME NEW i \in Instance, Beat(i) \/ BeatFails(i) PROVE LifeInv'
    BY <2>0, <2>6, BeatSteps
  <2>7. CASE Tick
    BY <2>0, <2>7, TickStep
  <2>8. CASE PeerMarksStale \/ \E i \in Instance : MarkStaleWorkers(i)
    BY <2>0, <2>8, MarkSteps
  <2>9. ASSUME NEW r \in Request, RequestStep(r) PROVE LifeInv'
    BY <2>0, <2>9, RequestSteps
  <2>10. QED
    BY <1>2, <2>1, <2>2, <2>3, <2>4, <2>5, <2>6, <2>7, <2>8, <2>9 DEF LifeNext, MainStep
<1>3. QED
  BY <1>1, <1>2

\* The invariant of the life of processes: types, drained pools that are empty,
\* requests that are under way only where a server is up or gave up on them,
\* and rows no older than their tickers say.
THEOREM LifeInvariant == LifeSpec => []LifeInv
BY LifeInitInv, LifeNextInv, PTL DEF LifeSpec

\* "All workers gracefully drained" (worker/pool.go, Stop) is true however the
\* goroutines raced with the change of p.status and the closing of the queue:
\* no process that ended that way had a message in hand.
THEOREM DrainSafety == LifeSpec => []CleanExitLeavesNothing
<1>1. LifeInv => CleanExitLeavesNothing
  BY DEF LifeInv, PoolInv, CleanExitLeavesNothing
<1>2. QED
  BY <1>1, LifeInvariant, PTL

\* What POST /runs and POST /api/v1/executions answer is what was done, in any
\* interleaving with the shutdown of the server and of the pool: a request that
\* stored its row is refused only after a failed call or after Server.Shutdown
\* gave up waiting for it.
THEOREM HonestAnswers == LifeSpec => []AnswerMatchesEffect
<1>1. LifeInv => AnswerMatchesEffect
  BY DEF LifeInv, RequestInv, Honest, AnswerMatchesEffect
<1>2. QED
  BY <1>1, LifeInvariant, PTL

-----------------------------------------------------------------------------
(* A living worker is not marked *)

LEMMA TwoAreMoreThanOne ==
  ASSUME TypesInv, TwoBeatsFailed
  PROVE  Cardinality({n \in DOMAIN faults : faults[n] = "beat"}) > 1
<1> DEFINE S == {n \in DOMAIN faults : faults[n] = "beat"}
<1>1. PICK m, n \in S : m # n
  BY DEF TwoBeatsFailed
<1>2. IsFiniteSet(S)
  <2>1. DOMAIN faults = 1..Len(faults) /\ Len(faults) \in Nat
    BY DEF TypesInv
  <2>2. IsFiniteSet(DOMAIN faults)
    BY <2>1, FS_Interval
  <2>3. QED
    BY <2>2, FS_Subset
<1> HIDE DEF S
<1>3. Cardinality(S) \in Nat /\ Cardinality(S) # 0 /\ Cardinality(S) # 1
  <2>1. S # {} /\ \A x : S # {x}
    BY <1>1
  <2>2. QED
    BY <1>2, <2>1, FS_CardinalityType, FS_EmptySet, FS_Singleton
<1>4. QED
  BY <1>3 DEF S

\* A row is found stale by a timeout that fits only after a failed
\* UpdateStatus or two failed heartbeats.
LEMMA FittingTimeout ==
  ASSUME LifeInv, NEW i \in Instance, Beating(i), NEW timeout \in Int, Stale(i, timeout),
         Fits(i, timeout), 2 * Fallback["WORKER_HEARTBEAT_INTERVAL"] + Lateness <= timeout
  PROVE  Happened("register") \/ TwoBeatsFailed
<1>1. TypesInv /\ BeatInv(i)
  BY DEF LifeInv
<1>2. Interval(i) \in Int /\ beat[i] \in Nat /\ workers[i].age \in Nat /\ Lateness \in Nat
  BY <1>1, IntervalType
<1>3. Interval(i) > 0 /\ 2 * Interval(i) + Lateness <= timeout
  <2> DEFINE k == "WORKER_HEARTBEAT_INTERVAL"
             raw == env[i].vars[k]
  <2>1. CASE Says(raw)
    BY <2>1 DEF Fits, Interval
  <2>2. CASE ~ Says(raw)
    <3>1. k \in DefaultedKey /\ k \notin NarrowKey
      BY DEF DefaultedKey, NarrowKey
    <3>2. Interval(i) = Fallback[k]
      <4>1. Interval(i) = DurationOr(raw, Fallback[k])
        BY <3>1 DEF Interval, Cfg, Field
      <4>2. QED
        BY <2>2, <4>1 DEF DurationOr, Says
    <3>3. Fallback[k] = 10
      BY DEF Fallback
    <3>4. QED
      BY <3>2, <3>3
  <2>3. QED
    BY <2>1, <2>2
<1>4. workers[i].age > timeout
  BY DEF Stale
<1>5. SUFFICES ASSUME ~ Happened("register"), ~ TwoBeatsFailed PROVE FALSE
  OBVIOUS
<1>6. beat[i] <= Interval(i) + Lateness /\ workers[i].age <= beat[i] + IF Happened("beat") THEN Interval(i) ELSE 0
  BY <1>1, <1>3, <1>5 DEF BeatInv
<1>7. QED
  BY <1>2, <1>3, <1>4, <1>6

\* Only its own Stop and MarkStaleWorkers write STOPPED into the row of i.
LEMMA WhoWritesStopped ==
  ASSUME LifeInv, LifeNext, NEW i \in Instance, pc[i] # "last",
         workers[i].status # "STOPPED", workers'[i].status = "STOPPED"
  PROVE  \/ \E timeout \in PeerTimeout : Stale(i, timeout)
         \/ \E k \in Instance : /\ HasApi(k) /\ pc[k] # "down"
                                /\ Stale(i, Cfg(k, "WORKER_HEARTBEAT_TIMEOUT"))
<1>1. workers \in [Instance -> WorkerRow] /\ workers[i] \in WorkerRow
  BY DEF LifeInv, TypesInv
<1>2. ASSUME NEW timeout, MarkStale(timeout) PROVE Stale(i, timeout)
  BY <1>2 DEF MarkStale
<1>3. UNCHANGED workers => FALSE
  OBVIOUS
<1>4. ASSUME NEW k \in Instance, NEW s \in {"ACTIVE", "DRAINING"}, UpdateStatus(k, s) PROVE FALSE
  <2> DEFINE row == [status |-> s, age |-> 0]
  <2>1. row.status = s
    OBVIOUS
  <2>2. workers' = [workers EXCEPT ![k] = row]
    BY <1>4 DEF UpdateStatus
  <2> HIDE DEF row
  <2>3. workers'[i].status = s \/ workers'[i] = workers[i]
    BY <1>1, <2>1, <2>2
  <2>4. QED
    BY <2>3
<1>5. ASSUME NEW k \in Instance, RegisterStopped(k) PROVE FALSE
  <2>1. k # i
    BY <1>5 DEF RegisterStopped
  <2>2. workers'[i] = workers[i]
    BY <1>1, <1>5, <2>1 DEF RegisterStopped, UpdateStatus
  <2>3. QED
    BY <2>2
<1>6. ASSUME NEW k \in Instance, Beat(k) PROVE FALSE
  <2>1. workers' = [workers EXCEPT ![k] = [workers[k] EXCEPT !.age = 0]]
    BY <1>6 DEF Beat
  <2>2. [workers[k] EXCEPT !.age = 0].status = workers[k].status
    BY <1>1 DEF WorkerRow
  <2>3. workers'[i].status = workers[i].status
    BY <1>1, <2>1, <2>2
  <2>4. QED
    BY <2>3
<1>7. CASE Tick
  <2>1. workers'[i] = IF workers[i].status = "ABSENT" THEN NoRow
                      ELSE [workers[i] EXCEPT !.age = Older(workers[i].age)]
    BY <1>7 DEF Tick
  <2>2. NoRow.status = "ABSENT"
    BY DEF NoRow
  <2>3. [workers[i] EXCEPT !.age = Older(workers[i].age)].status = workers[i].status
    BY <1>1 DEF WorkerRow
  <2>4. QED
    BY <2>1, <2>2, <2>3
<1>8. CASE PeerMarksStale
  BY <1>2, <1>8 DEF PeerMarksStale
<1>9. ASSUME NEW k \in Instance, MarkStaleWorkers(k)
      PROVE  HasApi(k) /\ pc[k] # "down" /\ Stale(i, Cfg(k, "WORKER_HEARTBEAT_TIMEOUT"))
  BY <1>2, <1>9 DEF MarkStaleWorkers, Started, Draining
<1>10. ASSUME NEW k \in Instance, Start(k) \/ RegisterFailsAtStart(k) PROVE FALSE
  BY <1>3, <1>4, <1>10 DEF Start, RegisterFailsAtStart, StartPool
<1>11. ASSUME NEW k \in Instance, RegisterDraining(k) PROVE FALSE
  BY <1>4, <1>11 DEF RegisterDraining
<1>12. ASSUME NEW k \in Instance,
              \/ Load(k) \/ LoadFails(k) \/ ConnectFails(k) \/ TickerPanics(k) \/ ServerFails(k)
              \/ Signal(k) \/ HttpDrained(k) \/ HttpTimesOut(k) \/ StopBegins(k) \/ CloseQueue(k)
              \/ AllLeft(k) \/ WaitTimesOut(k) \/ GraceEnds(k) \/ Exit(k) \/ Crash(k)
              \/ RegisterDrainingFails(k) \/ RegisterStoppedFails(k) \/ BeatFails(k)
       PROVE  FALSE
  BY <1>3, <1>12 DEF Load, LoadFails, ConnectFails, TickerPanics, ServerFails, Signal, HttpDrained,
     HttpTimesOut, StopBegins, CloseQueue, AllLeft, WaitTimesOut, GraceEnds, Exit, Crash,
     RegisterDrainingFails, RegisterStoppedFails, BeatFails
<1>13. ASSUME NEW k \in Instance, NEW g \in Goroutine, LoopStep(k, g) PROVE FALSE
  BY <1>3, <1>13 DEF LoopStep, CheckStatus, CheckClosed, ReadMessage, ReadEmpty, ReadFails,
     JobEnds, LoopOnly
<1>14. ASSUME NEW r \in Request, RequestStep(r) PROVE FALSE
  BY <1>3, <1>14 DEF RequestStep, Arrive, Admit, StoreRun, EnqueueRun, RequestFails, RequestOnly
<1>15. QED
  BY <1>5, <1>6, <1>7, <1>8, <1>9, <1>10, <1>11, <1>12, <1>13, <1>14 DEF LifeNext, MainStep

\* Where every timeout leaves room for the default interval of heartbeats
\* (10 s and 30 s in config.go), MarkStaleWorkers never stops the row of a
\* worker whose heartbeat runs, unless an environment says an interval that
\* does not fit, an UpdateStatus failed, or two heartbeats did.
THEOREM LivingWorkerSafety == DefaultsFit => (LifeSpec => LivingWorkerNotMarked)
<1> SUFFICES ASSUME DefaultsFit PROVE LifeSpec => LivingWorkerNotMarked
  OBVIOUS
<1> DEFINE A ==
      \A i \in Instance :
        (/\ Beating(i) /\ pc[i] # "last"
         /\ workers[i].status # "STOPPED" /\ workers'[i].status = "STOPPED")
        => \/ \E timeout \in PeerTimeout : ~ Fits(i, timeout)
           \/ \E k \in Instance : HasApi(k) /\ ~ Fits(i, Cfg(k, "WORKER_HEARTBEAT_TIMEOUT"))
           \/ Happened("register")
           \/ Cardinality({n \in DOMAIN faults : faults[n] = "beat"}) > 1
<1>1. LifeInv /\ [LifeNext]_lifeVars => [A]_lifeVars
  <2> SUFFICES ASSUME LifeInv, LifeNext, NEW i \in Instance, Beating(i), pc[i] # "last",
                      workers[i].status # "STOPPED", workers'[i].status = "STOPPED",
                      \A timeout \in PeerTimeout : Fits(i, timeout),
                      \A k \in Instance : HasApi(k) => Fits(i, Cfg(k, "WORKER_HEARTBEAT_TIMEOUT"))
               PROVE  \/ Happened("register")
                      \/ Cardinality({n \in DOMAIN faults : faults[n] = "beat"}) > 1
    OBVIOUS
  <2>0. TypesInv
    BY DEF LifeInv
  <2>1. Happened("register") \/ TwoBeatsFailed
    <3>1. ASSUME NEW timeout \in PeerTimeout, Stale(i, timeout)
          PROVE  Happened("register") \/ TwoBeatsFailed
      BY <3>1, LifeConstants, FittingTimeout DEF DefaultsFit
    <3>2. ASSUME NEW k \in Instance, HasApi(k), pc[k] # "down",
                 Stale(i, Cfg(k, "WORKER_HEARTBEAT_TIMEOUT"))
          PROVE  Happened("register") \/ TwoBeatsFailed
      <4>1. env[k] \in Environ[k] /\ Loads(env[k])
        BY <3>2 DEF LifeInv, EnvInv
      <4>2. Cfg(k, "WORKER_HEARTBEAT_TIMEOUT") \in Int
        BY <2>0, DurationTypes DEF TypesInv, Cfg
      <4>3. 2 * Fallback["WORKER_HEARTBEAT_INTERVAL"] + Lateness <= Cfg(k, "WORKER_HEARTBEAT_TIMEOUT")
        BY <4>1 DEF DefaultsFit, Cfg
      <4>4. QED
        BY <3>2, <4>2, <4>3, FittingTimeout
    <3>3. QED
      BY <3>1, <3>2, WhoWritesStopped
  <2>2. QED
    BY <2>0, <2>1, TwoAreMoreThanOne
<1>2. QED
  BY <1>1, LifeInvariant, PTL DEF LifeSpec, LivingWorkerNotMarked
=============================================================================
