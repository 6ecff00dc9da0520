------------------------- MODULE MCServerLifecycle -------------------------
(***************************************************************************)
(* One process that may be started with many environments, beside an API   *)
(* process with the shortest timeout that fits the default heartbeats.     *)
(***************************************************************************)
EXTENDS ServerLifecycle

Small(role) == [Blank EXCEPT !.role = role, !.vars["EXECUTION_WORKERS"] = Number(1)]
With(k, raw) == [Small("all") EXCEPT !.vars[k] = raw]

\* A behaviour has either a fine clock or requests: neither looks at the other.
FineOrBusy == {[step |-> 5, requests |-> {}], [step |-> MaxAge, requests |-> Request]}

\* Each starts a process.
Sound == {Small("all"), Small("worker"), Small("api"), Small("other"),
          With("EXECUTION_WORKERS", Number(2)),
          With("WORKER_HEARTBEAT_INTERVAL", Number(20)),
          With("WORKER_HEARTBEAT_INTERVAL", Number(-5)),
          With("RECOVERY_INTERVAL", Number(-5)),
          With("WORKER_HEARTBEAT_TIMEOUT", Unparsable)}

\* Each is refused: a strict text, zero workers, an int32 that wraps to 0, an
\* unknown ENV, no DATABASE_URL.
Refused == {With("RUN_TIMEOUT", Unparsable), With("EXECUTION_WORKERS", Number(0)),
            With("DB_MAX_CONNS", Number(2^IntBits)),
            [Small("all") EXCEPT !.envKnown = FALSE], [Small("all") EXCEPT !.database = FALSE]}

AnyProcess == [i \in Instance |-> Sound \cup Refused]

ASSUME ConfigExamples ==
  /\ \A e \in Sound : Loads(e)
  /\ \A e \in Refused : ~ Loads(e)

ASSUME RoomForDefaults == DefaultsFit
=============================================================================
