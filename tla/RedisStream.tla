----------------------------- MODULE RedisStream -----------------------------
(***************************************************************************)
(* The Redis stream behind internal/queue/redis_queue.go with its one      *)
(* consumer group.  What Redis itself does (XADD with MAXLEN, XREADGROUP   *)
(* ">", XACK, XAUTOCLAIM) is external and kept to what the queue relies    *)
(* on:                                                                     *)
(*   - an entry stays in the stream after it is acknowledged, until XADD   *)
(*     trims it: MAXLEN counts delivered and acknowledged entries too;     *)
(*   - the group hands out each entry once, in order; an entry handed out  *)
(*     and not acknowledged is pending, and only XAUTOCLAIM returns it;    *)
(*   - a trimmed entry is gone whether it was handed out or not, and to    *)
(*     acknowledge it is a no-op.                                          *)
(* Consumer names are not kept: nothing in the program reads them back.    *)
(*                                                                         *)
(* A message id only serves to find its entry again.  Here the id of an    *)
(* entry is its place in the stream, and 0 once it was trimmed; when XADD  *)
(* trims, whoever holds on to an id holds the shifted one.                 *)
(***************************************************************************)
EXTENDS Naturals, Sequences, FiniteSets

CONSTANTS
  Payload,    \* what a message carries: job ids
  MaxLen      \* REDIS_STREAM_MAXLEN

ASSUME StreamConstants == MaxLen \in Nat \ {0}

VARIABLE stream   \* the retained entries, oldest first

Entry == [job : Payload, state : {"new", "pending", "acked"}]

MsgId == 0..MaxLen

StreamInit == stream = <<>>

\* XADD MAXLEN = n: append, and drop the oldest entry above the limit.  It
\* never refuses: ErrQueueFull is declared and returned nowhere.
Enqueue(j) ==
  LET e == [job |-> j, state |-> "new"]
  IN  stream' = IF Len(stream) < MaxLen THEN Append(stream, e)
                                        ELSE Append(Tail(stream), e)

\* What a held id becomes when the next XADD is done.
Shifted(m) == IF Len(stream) < MaxLen \/ m = 0 THEN m ELSE m - 1

\* XREADGROUP ">" COUNT 1 takes the oldest entry not handed out yet.
IsNext(m) == /\ stream[m].state = "new"
             /\ \A k \in 1..(m - 1) : stream[k].state # "new"

HandOut(m) == stream' = [stream EXCEPT ![m].state = "pending"]

\* XACK
Ack(m) ==
  stream' = [i \in DOMAIN stream |->
               IF i = m THEN [stream[i] EXCEPT !.state = "acked"] ELSE stream[i]]

\* What XAUTOCLAIM may return: pending entries that are still retained.
PendingIds == {m \in DOMAIN stream : stream[m].state = "pending"}
=============================================================================
