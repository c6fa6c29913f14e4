---------------------------- MODULE RecordQueue ----------------------------
(***************************************************************************)
(* What a per-worker signal ring promises its two users, with no bytes,    *)
(* offsets or interleavings: a FIFO of records that holds at most Cap      *)
(* bytes (each record costs its length plus a 4-byte prefix) and that      *)
(* discards the NEWEST record, counting it, when it does not fit.          *)
(***************************************************************************)
EXTENDS Integers, Sequences

CONSTANTS Cap,        \* capacity in bytes
          Records     \* the records a worker may offer

VARIABLES queue,      \* records accepted and not yet taken, oldest first
          bytes,      \* bytes they occupy
          dropped     \* records discarded for lack of room

queueVars == <<queue, bytes, dropped>>

\* `let total = 4 + record_len`
Cost(record) == 4 + Len(record)

QueueInit == /\ queue = << >>
             /\ bytes = 0
             /\ dropped = 0

Accept(record) == /\ bytes + Cost(record) <= Cap
                  /\ queue' = Append(queue, record)
                  /\ bytes' = bytes + Cost(record)
                  /\ UNCHANGED dropped

Discard(record) == /\ bytes + Cost(record) > Cap
                   /\ dropped' = dropped + 1
                   /\ UNCHANGED <<queue, bytes>>

Take == /\ queue # << >>
        /\ queue' = Tail(queue)
        /\ bytes' = bytes - Cost(Head(queue))
        /\ UNCHANGED dropped

QueueNext == \/ \E record \in Records : Accept(record) \/ Discard(record)
             \/ Take

QueueSpec == QueueInit /\ [][QueueNext]_queueVars
=============================================================================
