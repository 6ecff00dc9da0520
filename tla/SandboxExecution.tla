-------------------------- MODULE SandboxExecution --------------------------
(***************************************************************************)
(* One call of execution.Service.Execute: container, compile step, run     *)
(* step.  Both steps are a docker.Exec, that is a process.RunProcess,      *)
(* whose select races the timer, the context and the child's exit, while   *)
(* two BoundedWriters collect output and cancel the context when one is    *)
(* full.  Classify turns the outcome into a status.  What differs between  *)
(* the languages is the record of its executor; the workspace is the set   *)
(* of files in it that matter.                                             *)
(*                                                                         *)
(* Bytes are counted, not represented; exit codes are kept as far as       *)
(* Classify tells them apart.  The behaviour of os/exec (Start refuses a   *)
(* cancelled context; a watcher kills the child when the context ends;     *)
(* Wait reports the child's failure, or the context's error for a child    *)
(* that exited 0 after the watcher's kill was sent) is external.           *)
(***************************************************************************)
EXTENDS Naturals

CONSTANTS
  Limit,      \* profile.MaxOutputBytes
  MaxChunk,   \* bound: bytes of one Write
  MaxOutput   \* bound: bytes a program writes to one stream

ASSUME SandboxConstants == /\ Limit \in Nat
                           /\ MaxChunk \in Nat \ {0}
                           /\ MaxOutput \in Nat

VARIABLES
  lang,       \* the language of the request
  workspace,  \* the files in the temporary directory
  stage,      \* the step of Execute
  container,  \* the sandbox container
  parent,     \* the caller's context
  proc,       \* the locals of RunProcess and the child it watches
  status      \* the status, or error, Execute returns

boxVars == <<lang, workspace, stage, container, parent, proc, status>>

Stream == {"stdout", "stderr"}

-----------------------------------------------------------------------------
(* The language executors.  `refuses`: the sources Validate turns down;    *)
(* `source`: the file Compile writes; `built`: the file a compiler that    *)
(* exits 0 leaves; `runs`: the file the command of Execute needs.          *)

JavaExecutor   == [refuses |-> {"blank", "noMain"}, source |-> "Main.java",
                   built |-> {"Main.class"}, runs |-> {"Main.class"}]
PythonExecutor == [refuses |-> {"blank"}, source |-> "main.py",
                   built |-> {}, runs |-> {"main.py"}]
GoExecutor     == [refuses |-> {"blank", "noMain"}, source |-> "main.go",
                   built |-> {"program"}, runs |-> {"program"}]
CppExecutor    == [refuses |-> {"blank", "noMain"}, source |-> "main.cpp",
                   built |-> {"program"}, runs |-> {"program"}]
\* No compile step: input and source are streamed to sqlite3.
SqlExecutor    == [refuses |-> {"blank"}, source |-> "none", built |-> {}, runs |-> {}]

\* The registry; Get finds no executor for any other language.
Registry == [java |-> JavaExecutor, python |-> PythonExecutor, go |-> GoExecutor,
             cpp |-> CppExecutor, sql |-> SqlExecutor]

\* A source is blank, lacks the text its language insists on, or has it.
Source == {"blank", "noMain", "whole"}

\* How a child may end by itself: 0, non-zero, non-zero with an out-of-memory
\* message on stderr, 137.
OwnExit == {"ok", "fail", "memoryError", "oomKill"}

\* made[s] is what the child sent to stream s, kept[s] what its BoundedWriter
\* holds, over[s] its `exceeded` flag; wait is what cmd.Wait put in errChan.
NoProc == [pc |-> "none", child |-> "none", cause |-> "none", timer |-> "armed",
           timeout |-> FALSE, wait |-> "none", exitErr |-> "nil",
           made |-> [s \in Stream |-> 0], kept |-> [s \in Stream |-> 0],
           over |-> [s \in Stream |-> FALSE]]

BoxInit ==
  /\ lang      \in DOMAIN Registry \cup {"other"}
  /\ workspace = {}
  /\ stage     = "validate"
  /\ container = "none"
  /\ parent    = "live"
  /\ proc      = NoProc
  /\ status    = "none"

-----------------------------------------------------------------------------
(* BoundedWriter.Write: keep up to the limit, then flag and cancel. *)

WrittenUnclipped(p, s, n) ==
  IF p.over[s] THEN [p EXCEPT !.made[s] = @ + n]
  ELSE IF p.kept[s] + n > Limit
       THEN [p EXCEPT !.made[s] = @ + n, !.kept[s] = @ + n, !.over[s] = TRUE,
                      !.cause = IF @ = "none" THEN "limit" ELSE @]
       ELSE [p EXCEPT !.made[s] = @ + n, !.kept[s] = @ + n]
Written(p, s, n) ==
  IF p.over[s] THEN [p EXCEPT !.made[s] = @ + n]
  ELSE IF p.kept[s] + n > Limit
       THEN [p EXCEPT !.made[s] = @ + n, !.kept[s] = Limit, !.over[s] = TRUE,
                      !.cause = IF @ = "none" THEN "limit" ELSE @]
       ELSE [p EXCEPT !.made[s] = @ + n, !.kept[s] = @ + n]

Killed(p) == IF p.child = "running" THEN [p EXCEPT !.child = "killed"] ELSE p

InProcess == proc.pc \in {"select", "drain"}
OnlyProc  == UNCHANGED <<lang, workspace, stage, container, parent, status>>

\* The copying goroutines run until Wait returns.
Write(s, n) ==
  /\ InProcess /\ proc.wait = "none"
  /\ proc.made[s] + n <= MaxOutput
  /\ proc' = Written(proc, s, n)
  /\ OnlyProc

\* A compiler leaves what it was asked for only when it exits 0.
ChildExits(how) ==
  /\ InProcess /\ proc.child = "running"
  /\ proc' = [proc EXCEPT !.child = how]
  /\ workspace' = IF how = "ok" /\ stage = "compile" THEN workspace \cup Registry[lang].built
                                                     ELSE workspace
  /\ UNCHANGED <<lang, stage, container, parent, status>>

\* exec.CommandContext kills the child once the context is done.
WatcherKills ==
  /\ InProcess /\ proc.cause # "none" /\ proc.child = "running"
  /\ proc' = Killed(proc)
  /\ OnlyProc

WaitReturns ==
  /\ InProcess /\ proc.wait = "none" /\ proc.child # "running"
  /\ \E e \in IF proc.child # "ok" THEN {"exit"}
             ELSE IF proc.cause = "none" THEN {"nil"} ELSE {"nil", "ctx"} :
       proc' = [proc EXCEPT !.wait = e]
  /\ OnlyProc

TimerFires ==
  /\ InProcess /\ proc.timer = "armed"
  /\ proc' = [proc EXCEPT !.timer = "fired"]
  /\ OnlyProc

-----------------------------------------------------------------------------
(* The select of RunProcess: any branch that is ready. *)

SelectTimerNoKill ==
  /\ proc.pc = "select" /\ proc.timer = "fired"
  /\ proc' = [proc EXCEPT !.pc = "drain", !.timeout = TRUE]
  /\ OnlyProc
SelectTimer ==
  /\ proc.pc = "select" /\ proc.timer = "fired"
  /\ proc' = [Killed(proc) EXCEPT !.pc = "drain", !.timeout = TRUE]
  /\ OnlyProc

SelectDoneNoDrain ==
  /\ proc.pc = "select" /\ proc.cause # "none"
  /\ proc' = [proc EXCEPT !.pc = "back"]
  /\ OnlyProc
SelectDone ==
  /\ proc.pc = "select" /\ proc.cause # "none"
  /\ proc' = [Killed(proc) EXCEPT !.pc = "drain"]
  /\ OnlyProc

SelectWait ==
  /\ proc.pc = "select" /\ proc.wait # "none"
  /\ proc' = [proc EXCEPT !.pc = "back", !.exitErr = proc.wait]
  /\ OnlyProc

\* <-errChan after a kill: the error is read and dropped.
Drain ==
  /\ proc.pc = "drain" /\ proc.wait # "none"
  /\ proc' = [proc EXCEPT !.pc = "back"]
  /\ OnlyProc

\* What is left to tell once no limit was hit: Wait's error and the exit code.
ExitStatus(p) ==
  IF p.exitErr = "nil" THEN "SUCCESS"
  ELSE IF p.child \in {"oomKill", "memoryError"} THEN "MEMORY_LIMIT_EXCEEDED"
  ELSE "RUNTIME_ERROR"

\* The status of a ProcessResult, in the order of the tests in Classify.  "start"
\* is cmd.Start's error; like "ctx" it is no ExitError.
ClassifyStdoutOnly(p) ==
  IF p.exitErr \in {"ctx", "start"} THEN "INTERNAL_ERROR"
  ELSE IF p.timeout THEN "TIME_LIMIT_EXCEEDED"
  ELSE IF p.over["stdout"] THEN "OUTPUT_LIMIT_EXCEEDED"
  ELSE ExitStatus(p)
ClassifyTimeoutLast(p) ==
  IF p.exitErr \in {"ctx", "start"} THEN "INTERNAL_ERROR"
  ELSE IF p.over["stdout"] \/ p.over["stderr"] THEN "OUTPUT_LIMIT_EXCEEDED"
  ELSE ExitStatus(p)
Classify(p) ==
  IF p.exitErr \in {"ctx", "start"} THEN "INTERNAL_ERROR"
  ELSE IF p.timeout THEN "TIME_LIMIT_EXCEEDED"
  ELSE IF p.over["stdout"] \/ p.over["stderr"] THEN "OUTPUT_LIMIT_EXCEEDED"
  ELSE ExitStatus(p)

\* What Execute makes of a failed compile step.
CompileStatus(st) ==
  CASE st = "RUNTIME_ERROR"       -> "COMPILATION_ERROR"
    [] st = "TIME_LIMIT_EXCEEDED" -> "COMPILATION_TIMEOUT"
    [] OTHER                      -> st

-----------------------------------------------------------------------------
(* Execute *)

FinishUnset(st) == stage' = "cleanup" /\ status' = IF st = "error" THEN "none" ELSE st
Finish(st) == stage' = "cleanup" /\ status' = st

\* Unknown language or no temporary directory: an error.  A source the
\* executor's Validate refuses: a compilation error.
Begin ==
  /\ stage = "validate"
  /\ IF lang \notin DOMAIN Registry
     THEN Finish("error")
     ELSE \E src \in Source :
            IF src \in Registry[lang].refuses
            THEN Finish("COMPILATION_ERROR")
            ELSE Finish("error") \/ (stage' = "container" /\ UNCHANGED status)
  /\ UNCHANGED <<lang, workspace, container, parent, proc>>

\* docker run, killed when the context is cancelled: the daemon may have made
\* the container by then, and nobody learns its id.
StartContainer ==
  /\ stage = "container"
  /\ \/ /\ parent = "live"
        /\ container' = "up"
        /\ stage' = IF Registry[lang].source = "none" THEN "run" ELSE "compile"
        /\ UNCHANGED status
     \/ /\ Finish("error")
        /\ container' \in IF parent = "live" THEN {"none"} ELSE {"none", "orphan"}
  /\ UNCHANGED <<lang, workspace, parent, proc>>

\* Compile writes the source file before it starts the compiler, or fails to.
WriteSource ==
  /\ stage = "compile" /\ proc.pc = "none"
  /\ Registry[lang].source \notin workspace
  /\ \/ workspace' = workspace \cup {Registry[lang].source} /\ UNCHANGED <<stage, status>>
     \/ Finish("error") /\ UNCHANGED workspace
  /\ UNCHANGED <<lang, container, parent, proc>>

StartProcess ==
  /\ stage \in {"compile", "run"} /\ proc.pc = "none"
  /\ stage = "compile" => Registry[lang].source \in workspace
  /\ \/ parent = "live" /\ proc' = [proc EXCEPT !.pc = "select", !.child = "running"]
     \/ proc' = [proc EXCEPT !.pc = "back", !.exitErr = "start"]
  /\ OnlyProc

\* The compile step lets Execute go on.
CompilePassedByExit(p) == p.exitErr = "nil"
CompilePassed(p) == Classify(p) = "SUCCESS"

StepEnds ==
  /\ stage \in {"compile", "run"} /\ proc.pc = "back"
  /\ IF stage = "run" THEN Finish(Classify(proc)) /\ UNCHANGED proc
     ELSE IF CompilePassed(proc) THEN stage' = "run" /\ proc' = NoProc /\ UNCHANGED status
     ELSE Finish(CompileStatus(Classify(proc))) /\ UNCHANGED proc
  /\ UNCHANGED <<lang, workspace, container, parent>>

\* The deferred DestroyContainer, under a context of its own and with its
\* error dropped, and the removal of the workspace.
Cleanup ==
  /\ stage = "cleanup"
  /\ stage' = "done"
  /\ container' \in IF container = "up" THEN {"removed", "left"} ELSE {container}
  /\ workspace' = {}
  /\ UNCHANGED <<lang, parent, proc, status>>

\* The lease was lost or the pool is being stopped.
ParentCancelled ==
  /\ parent = "live" /\ stage \notin {"cleanup", "done"}
  /\ parent' = "cancelled"
  /\ proc' = IF InProcess /\ proc.cause = "none" THEN [proc EXCEPT !.cause = "parent"]
                                                 ELSE proc
  /\ UNCHANGED <<lang, workspace, stage, container, status>>

Done == stage = "done" /\ UNCHANGED boxVars

\* What the code does without waiting for the program it runs.
Own == \/ Begin \/ StartContainer \/ WriteSource \/ StartProcess \/ StepEnds
       \/ WatcherKills \/ WaitReturns \/ TimerFires
       \/ SelectTimer \/ SelectDone \/ SelectWait \/ Drain \/ Cleanup

BoxNext ==
  \/ Own
  \/ \E s \in Stream, n \in 1..MaxChunk : Write(s, n)
  \/ \E how \in OwnExit : ChildExits(how)
  \/ ParentCancelled
  \/ Done

\* The program is not assumed to do anything; the code and the timer go on.
BoxSpec == BoxInit /\ [][BoxNext]_boxVars /\ WF_boxVars(Own)

-----------------------------------------------------------------------------
(* Properties *)

Status == {"SUCCESS", "COMPILATION_ERROR", "COMPILATION_TIMEOUT", "RUNTIME_ERROR",
           "TIME_LIMIT_EXCEEDED", "MEMORY_LIMIT_EXCEEDED", "OUTPUT_LIMIT_EXCEEDED",
           "INTERNAL_ERROR"}

\* Types; a status is there exactly once Execute is on its way out.
BoxTypeOK ==
  /\ stage \in {"validate", "container", "compile", "run", "cleanup", "done"}
  /\ container \in {"none", "up", "removed", "left", "orphan"}
  /\ lang \in DOMAIN Registry \cup {"other"}
  /\ workspace \subseteq UNION {{Registry[l].source} \cup Registry[l].built : l \in DOMAIN Registry}
  /\ parent \in {"live", "cancelled"}
  /\ status \in Status \cup {"none", "error"}
  /\ status = "none" <=> stage \notin {"cleanup", "done"}
  /\ proc.child \in OwnExit \cup {"none", "running", "killed"}
  /\ \A s \in Stream : proc.made[s] \in 0..MaxOutput

\* RunProcess returns only when its child is dead and has been waited for, so
\* neither a process nor a writer outlives the step it belongs to.
NoChildLeftBehind ==
  proc.pc = "back" => /\ proc.child # "running"
                      /\ proc.child = "none" \/ proc.wait # "none"

\* A BoundedWriter holds what was written up to the limit, to the byte, for
\* every way the output is cut into writes and after the limit was passed.
OutputKeptToTheByte ==
  \A s \in Stream :
    /\ proc.kept[s] = IF proc.made[s] <= Limit THEN proc.made[s] ELSE Limit
    /\ proc.over[s] <=> proc.made[s] > Limit

\* Unless the caller cancelled, SUCCESS means that the program ended by itself
\* with exit code 0, before its time was up and with all its output kept.  (If
\* the caller did cancel, a killed program is SUCCESS too: the error of Wait is
\* dropped, process.go:84-87.  RunPipeline shows what becomes of that.)
SuccessIsGenuine ==
  (status = "SUCCESS" /\ parent = "live") =>
    /\ proc.child = "ok" /\ ~ proc.timeout
    /\ \A s \in Stream : proc.kept[s] = proc.made[s]

\* A program that passed the output limit on either stream, or was killed by
\* the timer, is never reported as one that ran to its end; the compile step
\* reports what went wrong under a name of its own.
LimitsAreReported ==
  (stage = "done" /\ proc.pc = "back") =>
    /\ proc.timeout => status \in {"TIME_LIMIT_EXCEEDED", "COMPILATION_TIMEOUT"}
    /\ (\E s \in Stream : proc.over[s]) =>
         status \in {"OUTPUT_LIMIT_EXCEEDED", "TIME_LIMIT_EXCEEDED",
                     "COMPILATION_TIMEOUT", "INTERNAL_ERROR"}

\* The run step only ever starts the program the compile step made of this
\* request's source.  A compiler cut off by a cancelled context is reported as
\* SUCCESS and Execute goes on to the run step (process.go:84-87); it is the
\* refusal to start a process under that context which stops it there.
RunsWhatItCompiled ==
  (stage = "run" /\ proc.child # "none") => Registry[lang].runs \subseteq workspace

\* Execute returns whatever the program does (it may print for ever or ignore
\* everything), and has asked for the removal of every container it learnt the
\* id of (docker may refuse: "left"; an "orphan" has no known id).
ExecuteReturns == <>(stage = "done" /\ container # "up")
=============================================================================
