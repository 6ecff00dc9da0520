----------------------- MODULE SandboxExecutionProofs -----------------------
(***************************************************************************)
(* Proofs about SandboxExecution for every output limit, every size of a   *)
(* write and every amount of output.                                       *)
(*                                                                         *)
(* The invariant says what each place of RunProcess knows: which of the    *)
(* child, the timer, the context and Wait must have acted before it is     *)
(* reached, and that a drained error leaves a trace of why it was dropped. *)
(***************************************************************************)
EXTENDS SandboxExecution, TLAPS

Languages == DOMAIN Registry

Files == UNION {{Registry[l].source} \cup Registry[l].built : l \in DOMAIN Registry}

ProcRec ==
  [pc : {"none", "select", "drain", "back"}, child : OwnExit \cup {"none", "running", "killed"},
   cause : {"none", "limit", "parent"}, timer : {"armed", "fired"}, timeout : BOOLEAN,
   wait : {"none", "nil", "ctx", "exit"}, exitErr : {"nil", "ctx", "exit", "start"},
   made : [Stream -> 0..MaxOutput], kept : [Stream -> Nat], over : [Stream -> BOOLEAN]]

\* One BoundedWriter: m bytes were sent, k are kept, o is its flag.
StreamOK(m, k, o) ==
  /\ k = IF m <= Limit THEN m ELSE Limit
  /\ o <=> m > Limit

StreamsInv(p) == \A s \in Stream : StreamOK(p.made[s], p.kept[s], p.over[s])

\* A full writer has ended the context, if nobody had before; and a context
\* ended by a writer has a full one.
CauseInv(p) ==
  /\ (\E s \in Stream : p.over[s]) => p.cause # "none"
  /\ p.cause = "limit" => \E s \in Stream : p.over[s]

\* Wait has reported how the child ended.
WaitInv(p) ==
  /\ p.wait # "none" => p.child \notin {"none", "running"}
  /\ p.wait = "exit" => p.child # "ok"
  /\ p.wait \in {"nil", "ctx"} => p.child = "ok"

\* What each place of RunProcess knows.
PlaceInv(p) ==
  /\ p.pc = "none" => p = NoProc
  /\ p.pc \in {"select", "drain"} => p.child # "none" /\ p.exitErr = "nil"
  /\ p.pc = "drain" => p.child # "running" /\ (p.timeout \/ p.cause # "none")
  /\ p.pc = "back" => p.child # "running" /\ (p.child = "none" \/ p.wait # "none")
  /\ p.pc = "back" => \/ p.exitErr = "start" /\ p.child = "none"
                      \/ p.exitErr = p.wait /\ p.wait # "none"
                      \/ p.exitErr = "nil" /\ (p.timeout \/ p.cause # "none")
  /\ p.timeout => p.pc \in {"drain", "back"} /\ p.exitErr = "nil"

ProcInv(p) ==
  p \in ProcRec /\ StreamsInv(p) /\ CauseInv(p) /\ WaitInv(p) /\ PlaceInv(p)

\* Where Execute is, and what the workspace holds by then.
StageInv ==
  /\ stage \in {"container", "compile", "run"} => lang \in Languages
  /\ stage \in {"validate", "container"} => proc.pc = "none"
  /\ stage \in {"cleanup", "done"} => proc.pc \in {"none", "back"}
  /\ stage = "compile" /\ proc.pc # "none" => Registry[lang].source \in workspace
  /\ stage = "compile" /\ proc.child = "ok" => Registry[lang].built \subseteq workspace
  /\ stage = "run" /\ (parent = "live" \/ proc.child # "none")
       => Registry[lang].runs \subseteq workspace

\* The status is the classification of the step that was the last.
StatusInv ==
  /\ stage \in {"cleanup", "done"} /\ proc.pc = "none" =>
       status \in {"error", "COMPILATION_ERROR"}
  /\ stage \in {"cleanup", "done"} /\ proc.pc = "back" =>
       status \in {Classify(proc), CompileStatus(Classify(proc))}

TypeInv ==
  /\ stage \in {"validate", "container", "compile", "run", "cleanup", "done"}
  /\ container \in {"none", "up", "removed", "left", "orphan"}
  /\ lang \in Languages \cup {"other"}
  /\ workspace \subseteq Files
  /\ parent \in {"live", "cancelled"}
  /\ status \in Status \cup {"none", "error"}
  /\ status = "none" <=> stage \notin {"cleanup", "done"}

BoxInv == /\ TypeInv /\ ProcInv(proc) /\ StageInv /\ StatusInv
          /\ proc.cause = "parent" => parent = "cancelled"
-----------------------------------------------------------------------------
(* The languages *)

\* What the run command needs is what the compile step wrote or built; a language
\* without a compile step needs no file.
LEMMA ExecutorFiles ==
  ASSUME NEW l \in Languages
  PROVE  /\ Registry[l].runs \subseteq Registry[l].built \cup {Registry[l].source}
         /\ Registry[l].source = "none" => Registry[l].runs = {}
         /\ Registry[l].source \in Files /\ Registry[l].built \subseteq Files
BY DEF Languages, Files, Registry, JavaExecutor, PythonExecutor, GoExecutor, CppExecutor, SqlExecutor

-----------------------------------------------------------------------------
(* RunProcess *)

\* Nothing has been started.
LEMMA NoProcInv == ProcInv(NoProc) /\ NoProc.pc = "none" /\ NoProc.child = "none"
<1>1. NoProc \in ProcRec
  BY SandboxConstants DEF NoProc, ProcRec
<1>2. /\ \A s \in Stream : NoProc.made[s] = 0 /\ NoProc.kept[s] = 0 /\ NoProc.over[s] = FALSE
      /\ NoProc.pc = "none" /\ NoProc.child = "none" /\ NoProc.cause = "none"
      /\ NoProc.timeout = FALSE /\ NoProc.wait = "none"
  BY DEF NoProc
<1>3. StreamsInv(NoProc)
  BY <1>2, SandboxConstants DEF StreamsInv, StreamOK
<1>4. CauseInv(NoProc) /\ WaitInv(NoProc) /\ PlaceInv(NoProc)
  BY <1>2 DEF CauseInv, WaitInv, PlaceInv
<1>5. QED
  BY <1>1, <1>2, <1>3, <1>4 DEF ProcInv

\* A write keeps the account of its stream to the byte, whatever was written before.
LEMMA WriteKeepsAccount ==
  ASSUME NEW m \in Nat, NEW k \in Nat, NEW o \in BOOLEAN, StreamOK(m, k, o),
         NEW n \in Nat \ {0}
  PROVE  /\ o => StreamOK(m + n, k, TRUE)
         /\ ~ o /\ k + n > Limit => StreamOK(m + n, Limit, TRUE)
         /\ ~ o /\ ~ (k + n > Limit) => StreamOK(m + n, k + n, FALSE)
BY SandboxConstants DEF StreamOK

\* BoundedWriter.Write, in the middle of RunProcess.
LEMMA WrittenInv ==
  ASSUME NEW p, ProcInv(p), p.pc \in {"select", "drain"}, NEW s \in Stream, NEW n \in Nat \ {0},
         p.made[s] + n <= MaxOutput
  PROVE  LET q == Written(p, s, n)
         IN  /\ ProcInv(q) /\ q.pc = p.pc /\ q.child = p.child
             /\ q.cause = "parent" => p.cause = "parent"
<1> DEFINE q == Written(p, s, n)
           m == p.made[s]
           k == p.kept[s]
           o == p.over[s]
           full == ~ o /\ k + n > Limit
<1>0. /\ p \in ProcRec /\ m \in 0..MaxOutput /\ m \in Nat /\ k \in Nat /\ o \in BOOLEAN
      /\ MaxOutput \in Nat /\ Limit \in Nat /\ StreamOK(m, k, o)
  BY SandboxConstants DEF ProcInv, ProcRec, StreamsInv
<1> DEFINE made == [p.made EXCEPT ![s] = m + n]
           kept == [p.kept EXCEPT ![s] = IF o THEN k ELSE IF full THEN Limit ELSE k + n]
           over == [p.over EXCEPT ![s] = o \/ full]
<1>1. /\ p.made \in [Stream -> 0..MaxOutput] /\ p.kept \in [Stream -> Nat]
      /\ p.over \in [Stream -> BOOLEAN] /\ p.cause \in {"none", "limit", "parent"}
  BY <1>0 DEF ProcRec
<1>2. /\ made \in [Stream -> 0..MaxOutput] /\ kept \in [Stream -> Nat]
      /\ over \in [Stream -> BOOLEAN]
  <2>1. m + n \in 0..MaxOutput
    BY <1>0
  <2>2. (IF o THEN k ELSE IF full THEN Limit ELSE k + n) \in Nat
    BY <1>0
  <2>3. QED
    BY <1>1, <2>1, <2>2
<1>3. /\ q.made = made /\ q.kept = kept /\ q.over = over
      /\ q.cause = IF full /\ p.cause = "none" THEN "limit" ELSE p.cause
      /\ q.pc = p.pc /\ q.child = p.child /\ q.timeout = p.timeout /\ q.wait = p.wait
      /\ q.exitErr = p.exitErr
      /\ q \in ProcRec
  <2>1. CASE o
    <3>1. q = [p EXCEPT !.made = made]
      BY <2>1 DEF Written
    <3>2. kept = p.kept /\ over = p.over
      BY <1>1, <2>1
    <3>3. QED
      BY <1>0, <1>2, <2>1, <3>1, <3>2 DEF ProcRec
  <2>2. CASE full
    <3>1. q = [p EXCEPT !.made = made, !.kept = kept, !.over = over,
                        !.cause = IF p.cause = "none" THEN "limit" ELSE p.cause]
      <4>1. kept = [p.kept EXCEPT ![s] = Limit] /\ over = [p.over EXCEPT ![s] = TRUE]
        BY <1>1, <2>2
      <4>2. QED
        BY <2>2, <4>1 DEF Written
    <3>2. QED
      BY <1>0, <1>1, <1>2, <2>2, <3>1 DEF ProcRec
  <2>3. CASE ~ o /\ ~ full
    <3>1. q = [p EXCEPT !.made = made, !.kept = [p.kept EXCEPT ![s] = k + n]]
      BY <2>3 DEF Written
    <3>2. kept = [p.kept EXCEPT ![s] = k + n] /\ over = p.over
      BY <1>1, <2>3
    <3>3. QED
      BY <1>0, <1>2, <2>3, <3>1, <3>2 DEF ProcRec
  <2>4. QED
    BY <2>1, <2>2, <2>3
<1>4. /\ q.made[s] = m + n
      /\ q.kept[s] = IF o THEN k ELSE IF full THEN Limit ELSE k + n
      /\ q.over[s] = (o \/ full)
      /\ \A t \in Stream : t # s => q.made[t] = p.made[t] /\ q.kept[t] = p.kept[t]
                                     /\ q.over[t] = p.over[t]
  BY <1>1, <1>3
<1>5. StreamsInv(q)
  <2>1. StreamOK(q.made[s], q.kept[s], q.over[s])
    <3>1. CASE o
      BY <1>0, <1>4, <3>1, WriteKeepsAccount
    <3>2. CASE full
      BY <1>0, <1>4, <3>2, WriteKeepsAccount
    <3>3. CASE ~ o /\ ~ full
      BY <1>0, <1>4, <3>3, WriteKeepsAccount
    <3>4. QED
      BY <3>1, <3>2, <3>3
  <2>2. QED
    BY <1>4, <2>1 DEF ProcInv, StreamsInv
<1>6. CauseInv(q)
  <2>1. CASE full
    BY <1>3, <1>4, <2>1 DEF CauseInv
  <2>2. CASE ~ full
    <3>1. \A t \in Stream : q.over[t] <=> p.over[t]
      BY <1>0, <1>4, <2>2 DEF ProcRec
    <3>2. q.cause = p.cause
      BY <1>3, <2>2
    <3>3. QED
      BY <3>1, <3>2 DEF ProcInv, CauseInv
  <2>3. QED
    BY <2>1, <2>2
<1>7. WaitInv(q)
  BY <1>3 DEF ProcInv, WaitInv
<1>8. PlaceInv(q)
  BY <1>3 DEF ProcInv, PlaceInv
<1>9. QED
  BY <1>3, <1>5, <1>6, <1>7, <1>8 DEF ProcInv

\* The streams and their flags are left alone by everything else.
LEMMA SameStreams ==
  ASSUME NEW p, ProcInv(p), NEW q,
         q.made = p.made, q.kept = p.kept, q.over = p.over, q.cause = p.cause
  PROVE  StreamsInv(q) /\ CauseInv(q)
BY DEF ProcInv, StreamsInv, CauseInv

\* The child ends, or is killed.
LEMMA ChildEnds ==
  ASSUME NEW p, ProcInv(p), p.pc \in {"select", "drain"}, p.child = "running",
         NEW h \in OwnExit \cup {"killed"}
  PROVE  LET q == [p EXCEPT !.child = h]
         IN  ProcInv(q) /\ q.pc = p.pc /\ q.child = h /\ q.cause = p.cause
<1> DEFINE q == [p EXCEPT !.child = h]
<1>1. p \in ProcRec
  BY DEF ProcInv
<1>2. /\ q \in ProcRec
      /\ q.pc = p.pc /\ q.child = h /\ q.cause = p.cause /\ q.timeout = p.timeout
      /\ q.wait = p.wait /\ q.exitErr = p.exitErr
      /\ q.made = p.made /\ q.kept = p.kept /\ q.over = p.over
  BY <1>1 DEF ProcRec
<1>3. h \notin {"none", "running"}
  BY DEF OwnExit
<1>4. p.wait = "none"
  BY DEF ProcInv, WaitInv
<1>5. WaitInv(q) /\ PlaceInv(q)
  BY <1>2, <1>3, <1>4 DEF ProcInv, WaitInv, PlaceInv
<1>6. QED
  BY <1>2, <1>5, SameStreams DEF ProcInv

\* cmd.Wait reports how the child ended.
LEMMA WaitReports ==
  ASSUME NEW p, ProcInv(p), p.pc \in {"select", "drain"}, p.wait = "none", p.child # "running",
         NEW e \in IF p.child # "ok" THEN {"exit"} ELSE {"nil", "ctx"}
  PROVE  LET q == [p EXCEPT !.wait = e]
         IN  ProcInv(q) /\ q.pc = p.pc /\ q.child = p.child /\ q.cause = p.cause
<1> DEFINE q == [p EXCEPT !.wait = e]
<1>1. p \in ProcRec /\ p.child # "none"
  BY DEF ProcInv, PlaceInv
<1>2. /\ q \in ProcRec
      /\ q.pc = p.pc /\ q.child = p.child /\ q.cause = p.cause /\ q.timeout = p.timeout
      /\ q.wait = e /\ q.exitErr = p.exitErr
      /\ q.made = p.made /\ q.kept = p.kept /\ q.over = p.over
  BY <1>1 DEF ProcRec
<1>3. WaitInv(q) /\ PlaceInv(q)
  BY <1>1, <1>2 DEF ProcInv, WaitInv, PlaceInv
<1>4. QED
  BY <1>2, <1>3, SameStreams DEF ProcInv

\* The timer fires.
LEMMA TimerGoes ==
  ASSUME NEW p, ProcInv(p), p.pc \in {"select", "drain"}
  PROVE  LET q == [p EXCEPT !.timer = "fired"]
         IN  ProcInv(q) /\ q.pc = p.pc /\ q.child = p.child /\ q.cause = p.cause
<1> DEFINE q == [p EXCEPT !.timer = "fired"]
<1>1. p \in ProcRec
  BY DEF ProcInv
<1>2. /\ q \in ProcRec
      /\ q.pc = p.pc /\ q.child = p.child /\ q.cause = p.cause /\ q.timeout = p.timeout
      /\ q.wait = p.wait /\ q.exitErr = p.exitErr
      /\ q.made = p.made /\ q.kept = p.kept /\ q.over = p.over
  BY <1>1 DEF ProcRec
<1>3. WaitInv(q) /\ PlaceInv(q)
  BY <1>2 DEF ProcInv, WaitInv, PlaceInv
<1>4. QED
  BY <1>2, <1>3, SameStreams DEF ProcInv

\* RunProcess leaves its select for the drain, with the child dead.
LEMMA SelectKills ==
  ASSUME NEW p, ProcInv(p), p.pc = "select", NEW t \in BOOLEAN, t \/ p.cause # "none"
  PROVE  LET q == [Killed(p) EXCEPT !.pc = "drain", !.timeout = t]
         IN  ProcInv(q) /\ q.pc = "drain" /\ q.cause = p.cause /\ (q.child = "ok" => p.child = "ok")
<1> DEFINE c == Killed(p)
           q == [c EXCEPT !.pc = "drain", !.timeout = t]
<1>1. p \in ProcRec /\ p.child # "none" /\ p.exitErr = "nil"
  BY DEF ProcInv, PlaceInv
<1>2. /\ ProcInv(c) /\ c.pc = p.pc /\ c.cause = p.cause /\ c.child \notin {"none", "running"}
      /\ c.child = "ok" => p.child = "ok"
  <2>1. CASE p.child = "running"
    BY <2>1, ChildEnds DEF Killed
  <2>2. CASE p.child # "running"
    BY <1>1, <2>2 DEF Killed
  <2>3. QED
    BY <2>1, <2>2
<1>3. c \in ProcRec /\ c.exitErr = "nil"
  BY <1>2 DEF ProcInv, PlaceInv
<1>4. /\ q \in ProcRec
      /\ q.pc = "drain" /\ q.child = c.child /\ q.cause = c.cause /\ q.timeout = t
      /\ q.wait = c.wait /\ q.exitErr = c.exitErr
      /\ q.made = c.made /\ q.kept = c.kept /\ q.over = c.over
  BY <1>3 DEF ProcRec
<1>5. WaitInv(q)
  BY <1>2, <1>4 DEF ProcInv, WaitInv
<1>6. PlaceInv(q)
  BY <1>2, <1>3, <1>4 DEF PlaceInv
<1>7. QED
  BY <1>2, <1>4, <1>5, <1>6, SameStreams DEF ProcInv

\* RunProcess returns, from its select with the error of Wait or from the drain
\* without it.
LEMMA ProcessReturns ==
  ASSUME NEW p, ProcInv(p), p.wait # "none", p.pc \in {"select", "drain"},
         NEW e, e = IF p.pc = "select" THEN p.wait ELSE "nil"
  PROVE  LET q == [p EXCEPT !.pc = "back", !.exitErr = e]
         IN  ProcInv(q) /\ q.pc = "back" /\ q.child = p.child /\ q.cause = p.cause
<1> DEFINE q == [p EXCEPT !.pc = "back", !.exitErr = e]
<1>1. p \in ProcRec /\ e \in {"nil", "ctx", "exit"} /\ p.child # "running"
  BY DEF ProcInv, ProcRec, WaitInv
<1>2. /\ q \in ProcRec
      /\ q.pc = "back" /\ q.child = p.child /\ q.cause = p.cause /\ q.timeout = p.timeout
      /\ q.wait = p.wait /\ q.exitErr = e
      /\ q.made = p.made /\ q.kept = p.kept /\ q.over = p.over
  BY <1>1 DEF ProcRec
<1>3. WaitInv(q)
  BY <1>2 DEF ProcInv, WaitInv
<1>4. PlaceInv(q)
  BY <1>1, <1>2 DEF ProcInv, PlaceInv
<1>5. QED
  BY <1>2, <1>3, <1>4, SameStreams DEF ProcInv
\* cmd.Start succeeds or refuses.
LEMMA ProcessStarts ==
  LET up == [NoProc EXCEPT !.pc = "select", !.child = "running"]
      no == [NoProc EXCEPT !.pc = "back", !.exitErr = "start"]
  IN  /\ ProcInv(up) /\ up.child = "running" /\ up.cause = "none"
      /\ ProcInv(no) /\ no.child = "none" /\ no.cause = "none"
<1> DEFINE up == [NoProc EXCEPT !.pc = "select", !.child = "running"]
           no == [NoProc EXCEPT !.pc = "back", !.exitErr = "start"]
<1>1. ProcInv(NoProc) /\ NoProc \in ProcRec
  BY NoProcInv DEF ProcInv
<1>2. /\ NoProc.child = "none" /\ NoProc.wait = "none" /\ NoProc.timeout = FALSE
      /\ NoProc.cause = "none" /\ NoProc.exitErr = "nil"
  BY DEF NoProc
<1>3. /\ up \in ProcRec /\ up.pc = "select" /\ up.child = "running" /\ up.cause = NoProc.cause
      /\ up.timeout = NoProc.timeout /\ up.wait = NoProc.wait /\ up.exitErr = NoProc.exitErr
      /\ up.made = NoProc.made /\ up.kept = NoProc.kept /\ up.over = NoProc.over
  BY <1>1 DEF ProcRec
<1>4. /\ no \in ProcRec /\ no.pc = "back" /\ no.child = NoProc.child /\ no.cause = NoProc.cause
      /\ no.timeout = NoProc.timeout /\ no.wait = NoProc.wait /\ no.exitErr = "start"
      /\ no.made = NoProc.made /\ no.kept = NoProc.kept /\ no.over = NoProc.over
  BY <1>1 DEF ProcRec
<1>5. ProcInv(up)
  <2>1. WaitInv(up) /\ PlaceInv(up)
    BY <1>2, <1>3 DEF WaitInv, PlaceInv
  <2>2. QED
    BY <1>1, <1>3, <2>1, SameStreams DEF ProcInv
<1>6. ProcInv(no)
  <2>1. WaitInv(no) /\ PlaceInv(no)
    BY <1>2, <1>4 DEF WaitInv, PlaceInv
  <2>2. QED
    BY <1>1, <1>4, <2>1, SameStreams DEF ProcInv
<1>7. QED
  BY <1>2, <1>3, <1>4, <1>5, <1>6

\* The caller's context ends while RunProcess waits.
LEMMA CallerEnds ==
  ASSUME NEW p, ProcInv(p), p.pc \in {"select", "drain"}, p.cause = "none"
  PROVE  LET q == [p EXCEPT !.cause = "parent"]
         IN  ProcInv(q) /\ q.pc = p.pc /\ q.child = p.child /\ q.cause = "parent"
<1> DEFINE q == [p EXCEPT !.cause = "parent"]
<1>1. p \in ProcRec
  BY DEF ProcInv
<1>2. /\ q \in ProcRec
      /\ q.pc = p.pc /\ q.child = p.child /\ q.cause = "parent" /\ q.timeout = p.timeout
      /\ q.wait = p.wait /\ q.exitErr = p.exitErr
      /\ q.made = p.made /\ q.kept = p.kept /\ q.over = p.over
  BY <1>1 DEF ProcRec
<1>3. WaitInv(q) /\ PlaceInv(q) /\ StreamsInv(q)
  BY <1>2 DEF ProcInv, WaitInv, PlaceInv, StreamsInv
<1>4. CauseInv(q)
  BY <1>2 DEF CauseInv
<1>5. QED
  BY <1>2, <1>3, <1>4 DEF ProcInv

-----------------------------------------------------------------------------
(* Classify *)

\* A step that Classify calls a success was left alone by the limits, and if the
\* caller did not cancel either, the child ended by itself with exit code 0.
LEMMA SuccessMeans ==
  ASSUME NEW p, ProcInv(p), p.pc = "back", Classify(p) = "SUCCESS"
  PROVE  /\ ~ p.timeout /\ \A s \in Stream : ~ p.over[s]
         /\ p.cause # "parent" => p.child = "ok"
<1>1. /\ p.exitErr = "nil" /\ ~ p.timeout /\ ~ p.over["stdout"] /\ ~ p.over["stderr"]
  BY DEF Classify, ExitStatus
<1>2. \A s \in Stream : ~ p.over[s]
  BY <1>1 DEF Stream
<1>3. p \in ProcRec /\ p.cause # "limit"
  BY <1>2 DEF ProcInv, CauseInv
<1>4. ASSUME p.cause # "parent" PROVE p.child = "ok"
  <2>1. p.cause = "none"
    BY <1>3, <1>4 DEF ProcRec
  <2>2. p.exitErr = p.wait /\ p.wait # "none"
    BY <1>1, <2>1 DEF ProcInv, PlaceInv
  <2>3. QED
    BY <1>1, <2>2 DEF ProcInv, WaitInv
<1>5. QED
  BY <1>1, <1>2, <1>4

\* Classify and CompileStatus yield statuses.
LEMMA StatusTypes ==
  ASSUME NEW p
  PROVE  Classify(p) \in Status /\ CompileStatus(Classify(p)) \in Status
<1>1. Classify(p) \in Status
  BY DEF Classify, ExitStatus, Status
<1>2. QED
  BY <1>1 DEF CompileStatus, Status

-----------------------------------------------------------------------------
(* Steps *)

\* A step of the process the compile or the run step waits for.
LEMMA ProcessStep ==
  ASSUME BoxInv, OnlyProc, ProcInv(proc'), stage \in {"compile", "run"},
         stage = "compile" => Registry[lang].source \in workspace,
         proc'.child = "ok" => proc.child = "ok",
         proc'.child # "none" => proc.child # "none" \/ parent = "live",
         proc'.cause = "parent" => proc.cause = "parent"
  PROVE  BoxInv'
<1>1. UNCHANGED <<lang, workspace, stage, container, parent, status>>
  BY DEF OnlyProc
<1>2. TypeInv'
  BY <1>1 DEF BoxInv, TypeInv, Languages, Files
<1>3. StageInv'
  BY <1>1 DEF BoxInv, StageInv, Languages
<1>4. StatusInv'
  BY <1>1 DEF StatusInv
<1>5. QED
  BY <1>1, <1>2, <1>3, <1>4 DEF BoxInv

\* A process is being waited for only in the compile and the run step.
LEMMA WhileInProcess ==
  ASSUME BoxInv, InProcess
  PROVE  /\ stage \in {"compile", "run"} /\ proc.child # "none" /\ ProcInv(proc)
         /\ stage = "compile" => Registry[lang].source \in workspace
<1>1. ProcInv(proc) /\ proc.pc \in {"select", "drain"}
  BY DEF BoxInv, InProcess
<1>2. stage \in {"compile", "run"}
  BY <1>1 DEF BoxInv, StageInv, TypeInv
<1>3. QED
  BY <1>1, <1>2 DEF BoxInv, StageInv, ProcInv, PlaceInv

\* The steps of RunProcess and of the child.
LEMMA ProcessSteps ==
  ASSUME BoxInv,
         \/ WatcherKills \/ WaitReturns \/ TimerFires \/ SelectTimer \/ SelectDone
         \/ SelectWait \/ Drain \/ \E s \in Stream, n \in 1..MaxChunk : Write(s, n)
  PROVE  BoxInv'
<1> DEFINE p == proc
<1>0. ProcInv(p) /\ p \in ProcRec
  BY DEF BoxInv, ProcInv
<1>1. ASSUME InProcess, OnlyProc, ProcInv(proc'), proc'.child = "ok" => p.child = "ok",
             proc'.cause = "parent" => p.cause = "parent"
      PROVE  BoxInv'
  BY <1>1, WhileInProcess, ProcessStep
<1>2. CASE WatcherKills
  <2>1. p.pc \in {"select", "drain"} /\ p.child = "running" /\ proc' = [p EXCEPT !.child = "killed"]
    BY <1>2 DEF WatcherKills, InProcess, Killed
  <2>2. ProcInv(proc') /\ proc'.child = "killed" /\ proc'.cause = p.cause
    BY <1>0, <2>1, ChildEnds
  <2>3. QED
    BY <1>1, <1>2, <2>2 DEF WatcherKills
<1>3. CASE WaitReturns
  <2>1. p.pc \in {"select", "drain"} /\ p.wait = "none" /\ p.child # "running"
    BY <1>3 DEF WaitReturns, InProcess
  <2>2. PICK e \in IF p.child # "ok" THEN {"exit"} ELSE {"nil", "ctx"} : proc' = [p EXCEPT !.wait = e]
    BY <1>3 DEF WaitReturns
  <2>3. ProcInv(proc') /\ proc'.child = p.child /\ proc'.cause = p.cause
    BY <1>0, <2>1, <2>2, WaitReports
  <2>4. QED
    BY <1>1, <1>3, <2>3 DEF WaitReturns
<1>4. CASE TimerFires
  <2>1. p.pc \in {"select", "drain"} /\ proc' = [p EXCEPT !.timer = "fired"]
    BY <1>4 DEF TimerFires, InProcess
  <2>2. ProcInv(proc') /\ proc'.child = p.child /\ proc'.cause = p.cause
    BY <1>0, <2>1, TimerGoes
  <2>3. QED
    BY <1>1, <1>4, <2>2 DEF TimerFires
<1>5. CASE SelectTimer
  <2>1. p.pc = "select" /\ proc' = [Killed(p) EXCEPT !.pc = "drain", !.timeout = TRUE]
    BY <1>5 DEF SelectTimer
  <2>2. ProcInv(proc') /\ (proc'.child = "ok" => p.child = "ok") /\ proc'.cause = p.cause
    BY <1>0, <2>1, SelectKills
  <2>3. QED
    BY <1>1, <1>5, <2>1, <2>2 DEF SelectTimer, InProcess
<1>6. CASE SelectDone
  <2>1. p.pc = "select" /\ p.cause # "none" /\ proc' = [Killed(p) EXCEPT !.pc = "drain"]
    BY <1>6 DEF SelectDone
  <2>2. Killed(p) \in ProcRec /\ Killed(p).timeout = FALSE
    <3>1. p.timeout = FALSE
      BY <1>0, <2>1 DEF ProcInv, PlaceInv, ProcRec
    <3>2. QED
      BY <1>0, <3>1 DEF Killed, ProcRec
  <2>3. proc' = [Killed(p) EXCEPT !.pc = "drain", !.timeout = FALSE]
    BY <2>1, <2>2 DEF ProcRec
  <2>4. ProcInv(proc') /\ (proc'.child = "ok" => p.child = "ok") /\ proc'.cause = p.cause
    BY <1>0, <2>1, <2>3, SelectKills
  <2>5. QED
    BY <1>1, <1>6, <2>1, <2>4 DEF SelectDone, InProcess
<1>7. CASE SelectWait
  <2>1. p.pc = "select" /\ p.wait # "none" /\ proc' = [p EXCEPT !.pc = "back", !.exitErr = p.wait]
    BY <1>7 DEF SelectWait
  <2>2. ProcInv(proc') /\ proc'.child = p.child /\ proc'.cause = p.cause
    BY <1>0, <2>1, ProcessReturns
  <2>3. QED
    BY <1>1, <1>7, <2>1, <2>2 DEF SelectWait, InProcess
<1>8. CASE Drain
  <2>1. p.pc = "drain" /\ p.wait # "none" /\ proc' = [p EXCEPT !.pc = "back"]
    BY <1>8 DEF Drain
  <2>2. p.exitErr = "nil"
    BY <1>0, <2>1 DEF ProcInv, PlaceInv
  <2>3. proc' = [p EXCEPT !.pc = "back", !.exitErr = "nil"]
    BY <1>0, <2>1, <2>2 DEF ProcRec
  <2>4. ProcInv(proc') /\ proc'.child = p.child /\ proc'.cause = p.cause
    <3> DEFINE q == [p EXCEPT !.pc = "back", !.exitErr = "nil"]
    <3>1. /\ p.pc \in {"select", "drain"} /\ p.wait # "none"
          /\ "nil" = IF p.pc = "select" THEN p.wait ELSE "nil"
      BY <2>1
    <3>2. ProcInv(q) /\ q.child = p.child /\ q.cause = p.cause
      BY <1>0, <3>1, ProcessReturns, Zenon
    <3>3. QED
      BY <2>3, <3>2
  <2>5. QED
    BY <1>1, <1>8, <2>1, <2>4 DEF Drain, InProcess
<1>9. ASSUME NEW s \in Stream, NEW n \in 1..MaxChunk, Write(s, n) PROVE BoxInv'
  <2>1. /\ p.pc \in {"select", "drain"} /\ p.made[s] + n <= MaxOutput /\ proc' = Written(p, s, n)
        /\ n \in Nat \ {0}
    BY <1>9, SandboxConstants DEF Write, InProcess
  <2>2. ProcInv(proc') /\ proc'.child = p.child /\ (proc'.cause = "parent" => p.cause = "parent")
    BY <1>0, <2>1, WrittenInv
  <2>3. QED
    BY <1>1, <1>9, <2>2 DEF Write
<1>10. QED
  BY <1>2, <1>3, <1>4, <1>5, <1>6, <1>7, <1>8, <1>9
\* The child's own exit: a compiler that exits 0 has left what it was asked for.
LEMMA ExitSteps ==
  ASSUME BoxInv, NEW how \in OwnExit, ChildExits(how)
  PROVE  BoxInv'
<1>1. /\ proc.pc \in {"select", "drain"} /\ proc.child = "running"
      /\ proc' = [proc EXCEPT !.child = how]
      /\ UNCHANGED <<lang, stage, container, parent, status>>
  BY DEF ChildExits, InProcess
<1>2. ProcInv(proc') /\ proc'.pc = proc.pc /\ proc'.child = how /\ proc'.cause = proc.cause
  BY <1>1, ChildEnds DEF BoxInv
<1>3. stage \in {"compile", "run"} /\ lang \in Languages
  BY <1>1, WhileInProcess DEF InProcess, BoxInv, StageInv
<1>4. /\ workspace \subseteq workspace' /\ workspace' \subseteq Files
      /\ how = "ok" /\ stage = "compile" => Registry[lang].built \subseteq workspace'
  BY <1>3, ExecutorFiles DEF ChildExits, BoxInv, TypeInv
<1>5. TypeInv'
  BY <1>1, <1>4 DEF BoxInv, TypeInv, Languages, Files
<1>6. StageInv'
  BY <1>1, <1>2, <1>3, <1>4 DEF BoxInv, StageInv, Languages
<1>7. StatusInv'
  BY <1>1, <1>3 DEF StatusInv
<1>8. QED
  BY <1>1, <1>2, <1>5, <1>6, <1>7 DEF BoxInv

\* The steps of Execute.
LEMMA ExecuteSteps ==
  ASSUME BoxInv, Begin \/ StartContainer \/ WriteSource \/ StartProcess \/ StepEnds \/ Cleanup
  PROVE  BoxInv'
<1>0. ProcInv(proc) /\ TypeInv /\ StageInv /\ StatusInv
  BY DEF BoxInv
<1>1. CASE Begin
  <2>1. /\ stage = "validate" /\ proc.pc = "none" /\ status = "none"
        /\ UNCHANGED <<lang, workspace, container, parent, proc>>
    BY <1>0, <1>1 DEF Begin, StageInv, TypeInv
  <2>2. \/ stage' = "cleanup" /\ status' \in {"error", "COMPILATION_ERROR"}
        \/ stage' = "container" /\ status' = status /\ lang \in Languages
    BY <1>1 DEF Begin, Finish, Languages
  <2>3. TypeInv'
    BY <1>0, <2>1, <2>2 DEF TypeInv, Languages, Files, Status
  <2>4. StageInv' /\ StatusInv'
    BY <1>0, <2>1, <2>2 DEF StageInv, StatusInv, Languages
  <2>5. QED
    BY <2>1, <2>3, <2>4 DEF BoxInv
<1>2. CASE StartContainer
  <2>1. /\ stage = "container" /\ proc.pc = "none" /\ status = "none" /\ lang \in Languages
        /\ UNCHANGED <<lang, workspace, parent, proc>>
    BY <1>0, <1>2 DEF StartContainer, StageInv, TypeInv
  <2>2. \/ /\ container' = "up" /\ status' = status
           /\ stage' = IF Registry[lang].source = "none" THEN "run" ELSE "compile"
        \/ stage' = "cleanup" /\ status' = "error" /\ container' \in {"none", "orphan"}
    BY <1>2 DEF StartContainer, Finish
  <2>3. TypeInv'
    BY <1>0, <2>1, <2>2 DEF TypeInv, Languages, Files, Status
  <2>4. proc.child = "none"
    BY <1>0, <2>1 DEF ProcInv, PlaceInv, NoProc
  <2>5. StageInv'
    BY <1>0, <2>1, <2>2, <2>4, ExecutorFiles DEF StageInv, Languages
  <2>6. StatusInv'
    BY <2>1, <2>2 DEF StatusInv
  <2>7. QED
    BY <1>0, <2>1, <2>3, <2>5, <2>6 DEF BoxInv
<1>3. CASE WriteSource
  <2>1. /\ stage = "compile" /\ proc.pc = "none" /\ lang \in Languages /\ status = "none"
        /\ UNCHANGED <<lang, container, parent, proc>>
    BY <1>0, <1>3 DEF WriteSource, StageInv, TypeInv
  <2>2. \/ workspace' = workspace \cup {Registry[lang].source} /\ stage' = stage /\ status' = status
        \/ stage' = "cleanup" /\ status' = "error" /\ workspace' = workspace
    BY <1>3 DEF WriteSource, Finish
  <2>3. TypeInv'
    BY <1>0, <2>1, <2>2, ExecutorFiles DEF TypeInv, Languages, Files, Status
  <2>4. StageInv' /\ StatusInv'
    BY <1>0, <2>1, <2>2 DEF StageInv, StatusInv, Languages
  <2>5. QED
    BY <1>0, <2>1, <2>3, <2>4 DEF BoxInv
<1>4. CASE StartProcess
  <2>1. /\ stage \in {"compile", "run"} /\ proc = NoProc /\ OnlyProc
        /\ stage = "compile" => Registry[lang].source \in workspace
    BY <1>0, <1>4 DEF StartProcess, ProcInv, PlaceInv
  <2>2. /\ ProcInv(proc') /\ proc'.cause = "none" /\ proc'.child \in {"running", "none"}
        /\ proc'.child # "none" => parent = "live"
    BY <1>4, <2>1, ProcessStarts DEF StartProcess
  <2>3. QED
    BY <2>1, <2>2, ProcessStep
<1>5. CASE StepEnds
  <2>1. /\ stage \in {"compile", "run"} /\ proc.pc = "back" /\ lang \in Languages
        /\ status = "none"
        /\ UNCHANGED <<lang, workspace, container, parent>>
    BY <1>0, <1>5 DEF StepEnds, StageInv, TypeInv
  <2>2. CASE /\ stage' = "cleanup" /\ proc' = proc
             /\ status' \in {Classify(proc), CompileStatus(Classify(proc))}
    <3>1. status' \in Status
      BY <2>2, StatusTypes
    <3>2. TypeInv'
      BY <1>0, <2>1, <2>2, <3>1 DEF TypeInv, Languages, Files, Status
    <3>3. StageInv' /\ StatusInv'
      BY <2>1, <2>2 DEF StageInv, StatusInv
    <3>4. QED
      BY <2>1, <2>2, <3>2, <3>3 DEF BoxInv
  <2>3. CASE /\ stage = "compile" /\ CompilePassed(proc)
             /\ stage' = "run" /\ proc' = NoProc /\ status' = status
    <3>1. parent = "live" => proc.child = "ok"
      BY <1>0, <2>1, <2>3, SuccessMeans DEF CompilePassed, BoxInv
    <3>2. parent = "live" => Registry[lang].runs \subseteq workspace
      BY <1>0, <2>1, <2>3, <3>1, ExecutorFiles DEF StageInv
    <3>3. TypeInv'
      BY <1>0, <2>1, <2>3 DEF TypeInv, Languages, Files
    <3>4. StageInv' /\ StatusInv'
      BY <1>0, <2>1, <2>3, <3>2, NoProcInv DEF StageInv, StatusInv, Languages
    <3>5. NoProc.cause = "none"
      BY DEF NoProc
    <3>6. QED
      BY <2>3, <3>3, <3>4, <3>5, NoProcInv DEF BoxInv
  <2>4. QED
    BY <1>5, <2>2, <2>3 DEF StepEnds, Finish
<1>6. CASE Cleanup
  <2>1. /\ stage = "cleanup" /\ stage' = "done" /\ workspace' = {}
        /\ container' \in {"removed", "left", container}
        /\ UNCHANGED <<lang, parent, proc, status>>
    BY <1>6 DEF Cleanup
  <2>2. TypeInv'
    BY <1>0, <2>1 DEF TypeInv, Languages, Files
  <2>3. StageInv' /\ StatusInv'
    BY <1>0, <2>1 DEF StageInv, StatusInv
  <2>4. QED
    BY <2>1, <2>2, <2>3 DEF BoxInv
<1>7. QED
  BY <1>1, <1>2, <1>3, <1>4, <1>5, <1>6

\* The caller cancels.
LEMMA CancelSteps ==
  ASSUME BoxInv, ParentCancelled
  PROVE  BoxInv'
<1>1. /\ stage \notin {"cleanup", "done"} /\ parent' = "cancelled"
      /\ UNCHANGED <<lang, workspace, stage, container, status>>
  BY DEF ParentCancelled
<1>2. ProcInv(proc') /\ proc'.pc = proc.pc /\ proc'.child = proc.child
  BY CallerEnds DEF ParentCancelled, BoxInv, InProcess
<1>3. TypeInv'
  BY <1>1 DEF BoxInv, TypeInv, Languages, Files
<1>4. StageInv' /\ StatusInv'
  BY <1>1, <1>2 DEF BoxInv, StageInv, StatusInv, Languages
<1>5. QED
  BY <1>1, <1>2, <1>3, <1>4 DEF BoxInv

-----------------------------------------------------------------------------
(* Theorems *)

\* Execute starts in the invariant.
LEMMA BoxInitInv == BoxInit => BoxInv
<1> SUFFICES ASSUME BoxInit PROVE BoxInv
  OBVIOUS
<1>1. proc = NoProc /\ ProcInv(proc) /\ proc.pc = "none" /\ proc.child = "none" /\ proc.cause = "none"
  BY NoProcInv DEF BoxInit, NoProc
<1>2. TypeInv
  BY DEF BoxInit, TypeInv, Languages, Files, Status
<1>3. StageInv /\ StatusInv
  BY <1>1 DEF BoxInit, StageInv, StatusInv
<1>4. QED
  BY <1>1, <1>2, <1>3 DEF BoxInv

\* Every step keeps the invariant.
LEMMA BoxNextInv == BoxInv /\ [BoxNext]_boxVars => BoxInv'
<1> SUFFICES ASSUME BoxInv, [BoxNext]_boxVars PROVE BoxInv'
  OBVIOUS
<1>1. CASE UNCHANGED boxVars
  <2>1. UNCHANGED <<lang, workspace, stage, container, parent, proc, status>>
    BY <1>1 DEF boxVars
  <2>2. QED
    BY <2>1 DEF BoxInv, TypeInv, StageInv, StatusInv, Languages, Files
<1>2. CASE BoxNext
  BY <1>1, <1>2, ProcessSteps, ExitSteps, ExecuteSteps, CancelSteps DEF BoxNext, Own, Done
<1>3. QED
  BY <1>1, <1>2

\* The inductive invariant holds in every reachable state.
THEOREM BoxInvariant == BoxSpec => []BoxInv
BY BoxInitInv, BoxNextInv, PTL DEF BoxSpec

\* Types, and a status exactly once Execute is on its way out.
THEOREM BoxTypes == BoxSpec => []BoxTypeOK
<1>1. BoxInv => BoxTypeOK
  BY DEF BoxInv, TypeInv, BoxTypeOK, ProcInv, ProcRec, Languages, Files
<1>2. QED
  BY <1>1, BoxInvariant, PTL

\* RunProcess returns only with its child dead and waited for.
THEOREM NoChildSurvives == BoxSpec => []NoChildLeftBehind
<1>1. BoxInv => NoChildLeftBehind
  BY DEF BoxInv, ProcInv, PlaceInv, NoChildLeftBehind
<1>2. QED
  BY <1>1, BoxInvariant, PTL

\* A BoundedWriter keeps the output up to its limit, to the byte, for every limit
\* and every way of cutting the output into writes.
THEOREM OutputKept == BoxSpec => []OutputKeptToTheByte
<1>1. BoxInv => OutputKeptToTheByte
  BY DEF BoxInv, ProcInv, StreamsInv, StreamOK, OutputKeptToTheByte
<1>2. QED
  BY <1>1, BoxInvariant, PTL

\* Unless the caller cancelled, SUCCESS means the program ended by itself with exit
\* code 0, in time and with all its output kept.
THEOREM SuccessSafety == BoxSpec => []SuccessIsGenuine
<1>1. BoxInv => SuccessIsGenuine
  <2> SUFFICES ASSUME BoxInv, status = "SUCCESS", parent = "live"
               PROVE  /\ proc.child = "ok" /\ ~ proc.timeout
                      /\ \A s \in Stream : proc.kept[s] = proc.made[s]
    BY DEF SuccessIsGenuine
  <2>1. ProcInv(proc) /\ stage \in {"cleanup", "done"} /\ proc.cause # "parent"
    BY DEF BoxInv, TypeInv
  <2>2. proc.pc = "back" /\ status \in {Classify(proc), CompileStatus(Classify(proc))}
    BY <2>1 DEF BoxInv, StageInv, StatusInv
  <2>3. Classify(proc) = "SUCCESS"
    BY <2>2 DEF CompileStatus
  <2>4. proc.child = "ok" /\ ~ proc.timeout /\ \A s \in Stream : ~ proc.over[s]
    BY <2>1, <2>2, <2>3, SuccessMeans
  <2>5. QED
    BY <2>1, <2>4, SandboxConstants DEF ProcInv, ProcRec, StreamsInv, StreamOK
<1>2. QED
  BY <1>1, BoxInvariant, PTL

\* A program stopped by the timer or over the output limit is reported as such.
THEOREM LimitSafety == BoxSpec => []LimitsAreReported
<1>1. BoxInv => LimitsAreReported
  <2> SUFFICES ASSUME BoxInv, stage = "done", proc.pc = "back" PROVE
        /\ proc.timeout => status \in {"TIME_LIMIT_EXCEEDED", "COMPILATION_TIMEOUT"}
        /\ (\E s \in Stream : proc.over[s]) =>
             status \in {"OUTPUT_LIMIT_EXCEEDED", "TIME_LIMIT_EXCEEDED",
                         "COMPILATION_TIMEOUT", "INTERNAL_ERROR"}
    BY DEF LimitsAreReported
  <2>1. status \in {Classify(proc), CompileStatus(Classify(proc))}
    BY DEF BoxInv, StatusInv
  <2>2. proc.timeout => Classify(proc) = "TIME_LIMIT_EXCEEDED"
    BY DEF BoxInv, ProcInv, PlaceInv, Classify
  <2>3. (\E s \in Stream : proc.over[s]) =>
          Classify(proc) \in {"OUTPUT_LIMIT_EXCEEDED", "TIME_LIMIT_EXCEEDED", "INTERNAL_ERROR"}
    BY DEF Classify, Stream
  <2>4. QED
    BY <2>1, <2>2, <2>3 DEF CompileStatus
<1>2. QED
  BY <1>1, BoxInvariant, PTL

\* The run step only ever starts what the compile step made of this source.
THEOREM RunSafety == BoxSpec => []RunsWhatItCompiled
<1>1. BoxInv => RunsWhatItCompiled
  BY DEF BoxInv, StageInv, RunsWhatItCompiled
<1>2. QED
  BY <1>1, BoxInvariant, PTL
=============================================================================
