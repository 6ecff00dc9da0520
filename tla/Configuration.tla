--------------------------- MODULE Configuration ---------------------------
(***************************************************************************)
(* config.Load: what becomes of the environment variables of a process.    *)
(* The numeric keys are read in three ways that differ in what a text that *)
(* does not parse does.  Durations are in seconds.  Keys with a plain text *)
(* (addresses, images, names) have a default each and no other treatment,  *)
(* and are left out.                                                       *)
(***************************************************************************)
EXTENDS Integers

CONSTANT IntBits    \* the width of Go's int32

ASSUME ConfigConstants == IntBits \in Nat \ {0}

\* parseInt or ParseDuration with its error returned.
StrictKey ==
  {"SHUTDOWN_TIMEOUT", "COMPILE_TIMEOUT", "RUN_TIMEOUT", "MAX_STDOUT_BYTES",
   "MAX_STDERR_BYTES", "EXECUTION_PIDS_LIMIT", "EXECUTION_WORKERS", "QUEUE_CAPACITY",
   "DB_MAX_CONNS", "DB_MIN_CONNS", "RECONCILIATION_BATCH_SIZE",
   "RECONCILIATION_INTERVAL", "REDIS_PENDING_IDLE_TIMEOUT"}

\* ParseDuration with its error dropped, and the default in place of 0.
DefaultedKey ==
  {"WORKER_HEARTBEAT_INTERVAL", "WORKER_HEARTBEAT_TIMEOUT", "WORKER_SHUTDOWN_TIMEOUT",
   "JOB_LEASE_DURATION", "JOB_LEASE_RENEW_INTERVAL", "RECOVERY_INTERVAL",
   "RETRY_BASE_DELAY", "RETRY_MAX_DELAY"}

\* parseInt with its error dropped: a text that does not parse is 0.
ZeroedKey ==
  {"REDIS_DB", "REDIS_PENDING_CLAIM_BATCH_SIZE", "REDIS_STREAM_MAXLEN", "MAX_ATTEMPTS"}

Key == StrictKey \cup DefaultedKey \cup ZeroedKey

\* Stored in an int32.
NarrowKey == {"DB_MAX_CONNS", "DB_MIN_CONNS", "RECONCILIATION_BATCH_SIZE"}

\* Refused by validate unless positive.
PositiveKey ==
  {"COMPILE_TIMEOUT", "RUN_TIMEOUT", "MAX_STDOUT_BYTES", "MAX_STDERR_BYTES",
   "EXECUTION_PIDS_LIMIT", "EXECUTION_WORKERS", "QUEUE_CAPACITY", "DB_MAX_CONNS",
   "RECONCILIATION_BATCH_SIZE"}

Fallback ==
  [SHUTDOWN_TIMEOUT |-> 5, COMPILE_TIMEOUT |-> 5, RUN_TIMEOUT |-> 2,
   MAX_STDOUT_BYTES |-> 65536, MAX_STDERR_BYTES |-> 65536, EXECUTION_PIDS_LIMIT |-> 64,
   EXECUTION_WORKERS |-> 4, QUEUE_CAPACITY |-> 100, DB_MAX_CONNS |-> 10,
   DB_MIN_CONNS |-> 2, RECONCILIATION_BATCH_SIZE |-> 100, RECONCILIATION_INTERVAL |-> 5,
   REDIS_PENDING_IDLE_TIMEOUT |-> 30, WORKER_HEARTBEAT_INTERVAL |-> 10,
   WORKER_HEARTBEAT_TIMEOUT |-> 30, WORKER_SHUTDOWN_TIMEOUT |-> 30,
   JOB_LEASE_DURATION |-> 30, JOB_LEASE_RENEW_INTERVAL |-> 10, RECOVERY_INTERVAL |-> 5,
   RETRY_BASE_DELAY |-> 1, RETRY_MAX_DELAY |-> 60, REDIS_DB |-> 0,
   REDIS_PENDING_CLAIM_BATCH_SIZE |-> 100, REDIS_STREAM_MAXLEN |-> 10000,
   MAX_ATTEMPTS |-> 5]

-----------------------------------------------------------------------------
(* An environment: the texts of the numeric keys, ROLE, and whether ENV is   *)
(* one of the known names and DATABASE_URL is there.                         *)

Unset      == [text |-> "unset", n |-> 0]
Unparsable == [text |-> "unparsable", n |-> 0]
Number(n)  == [text |-> "number", n |-> n]

Role == {"all", "api", "worker", "other"}

Environment == [vars : [Key -> [text : {"unset", "unparsable", "number"}, n : Int]],
                role : Role, envKnown : BOOLEAN, database : BOOLEAN]

\* Nothing set but DATABASE_URL; an unset ROLE is "all", an unset ENV is known.
Blank == [vars |-> [k \in Key |-> Unset], role |-> "all", envKnown |-> TRUE, database |-> TRUE]

\* The conversion int32(n).
Int32(n) == LET m == n % 2^IntBits IN IF m < 2^(IntBits - 1) THEN m ELSE m - 2^IntBits

ParsedOr(raw, fallback) ==
  CASE raw.text = "unset"      -> fallback
    [] raw.text = "unparsable" -> 0
    [] raw.text = "number"     -> raw.n

\* ParseDuration refuses the empty text as well, which leaves 0.
DurationOr(raw, fallback) == IF raw.text # "number" \/ raw.n = 0 THEN fallback ELSE raw.n

\* The field of the Config that key k fills.
Field(env, k) ==
  CASE k \in DefaultedKey -> DurationOr(env.vars[k], Fallback[k])
    [] k \in NarrowKey    -> Int32(ParsedOr(env.vars[k], Fallback[k]))
    [] OTHER              -> ParsedOr(env.vars[k], Fallback[k])

Valid(env) == env.envKnown /\ \A k \in PositiveKey : Field(env, k) > 0

\* Load returns a configuration and no error.
Loads(env) == /\ \A k \in StrictKey : env.vars[k].text # "unparsable"
              /\ env.database
              /\ Valid(env)
=============================================================================
