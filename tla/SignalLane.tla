----------------------------- MODULE SignalLane -----------------------------
(***************************************************************************)
(* One signal lane (logs or spans) of the exporter's export loop           *)
(* (drain/mod.rs, drain/backoff.rs, drain/graceful.rs): on every wake the  *)
(* lane drains its retry queue, then pops the worker rings into a fresh    *)
(* batch and sends it; a verdict of the collector releases, re-queues or   *)
(* drops a batch and may defer the lane; quit flushes the lane once.       *)
(*                                                                         *)
(* A batch is a number, in the order of collection, that stands for        *)
(* Size[b] records.  A send is an await: until it resolves the collector   *)
(* may change, a signal may arrive and a successor may be announced.       *)
(*                                                                         *)
(* Time is relative, so that it stays finite: not_before is what is left   *)
(* of the deferral (not_before_msec minus the clock, 0 once elapsed) and   *)
(* age is how old the `now_msec` is that a retry pass captured at its start. *)
(***************************************************************************)
EXTENDS Integers, Sequences, SequencesExt, FiniteSets, FiniteSetsExt

CONSTANTS Depth,          \* retry_buffer_depth
          Size,           \* Size[b]: records in batch b
          MaxBatches,     \* bound: fresh batches collected
          Chunk,          \* SHUTDOWN_POLL_INTERVAL
          SendBudget,     \* PERIODIC_SEND_BUDGET
          BackoffBase,    \* BACKOFF_BASE_MS
          BackoffCap,     \* BACKOFF_CAP_MS
          Hints,          \* peer-supplied Retry-After hints
          MaxConsecutive  \* bound: consecutive_retryable, past which the cap holds

ASSUME LaneAssumption ==
    /\ Depth \in Nat \ {0} /\ MaxBatches \in Nat
    /\ Size \in [1..MaxBatches -> Nat \ {0}]
    /\ Chunk \in Nat \ {0} /\ SendBudget \in Nat
    /\ BackoffBase \in Nat /\ BackoffCap \in Nat
    /\ Hints \subseteq Nat \ {0}
    /\ MaxConsecutive \in Nat \ {0}
    /\ BackoffBase * 2^(MaxConsecutive - 1) >= BackoffCap

VARIABLES queue,           \* the lane's retry queue, oldest first
          snapshot,        \* what a retry pass took and has not yet tried
          inflight,        \* the batch whose send is awaited, or NoBatch
          drain_failed,    \* the retry pass has given up
          not_before,      \* what is left of the deferral
          consecutive,     \* consecutive_retryable
          age,             \* age of the retry pass's now_msec
          deferred,        \* logs_deferred / spans_deferred of this wake
          abdicated,       \* periodic_abdicated
          has_successor,   \* what graceful_drain read at its start
          dropped_records, \* DROPPED_RECORDS
          rejections,      \* PERMANENT_REJECTED + UNAUTHORIZED_REJECTED
          pc,              \* where the loop is
          successor,       \* successor_gen > my_gen
          quit, terminate, \* ngx_quit, ngx_terminate
          up,              \* the collector accepts what it is sent
          collected,       \* batches collected so far
          delivered, rejected, evicted,  \* history: how batches left the lane
          uncounted,       \* history: batches that were lost and counted nowhere,
                           \* each with the way it was lost
          owed             \* history: what is left of the deferral a fresh batch met

laneVars == <<queue, snapshot, inflight, drain_failed, not_before, consecutive, age,
              deferred, abdicated, has_successor, dropped_records, rejections, pc>>
envVars == <<successor, quit, terminate, up>>
fates == <<delivered, rejected, evicted, uncounted>>
vars == <<laneVars, envVars, collected, fates, owed>>

NoBatch == 0
Batches == 1..MaxBatches
SizeOf(S) == MapThenSumSet(LAMBDA b : Size[b], S)
AtLeast0(n) == IF n > 0 THEN n ELSE 0
Least(a, b) == IF a < b THEN a ELSE b

-----------------------------------------------------------------------------
(* Verdicts and the policy                                                 *)

\* What a send resolves to: a DeliveryOutcome (PartialReject releases like
\* Accepted), a TransportError (a 4xx status or not), or the deadline.
Verdicts == {[kind |-> k, hint |-> 0] : k \in {"accepted", "permanent", "unauthorized",
                                               "rejected_4xx", "error", "deadline"}}
            \union {[kind |-> "retryable", hint |-> h] : h \in Hints \union {0}}

\* external: a collector that is up accepts; one that is not does anything.
Answers == IF up THEN {[kind |-> "accepted", hint |-> 0]} ELSE Verdicts

\* A send that hits the deadline took all of its budget, any other up to that.
Durations(verdict) == IF verdict.kind = "deadline" THEN {SendBudget} ELSE 0..SendBudget

\* `base << (n - 1)`, saturating at the cap.
backoff_ms(n) == Least(BackoffBase * 2^(n - 1), BackoffCap)

Deferral(verdict, n) == IF verdict.hint # 0 THEN verdict.hint ELSE backoff_ms(n)

\* Time d passes: what is left of a wait of t.
Left(t, d) == AtLeast0(t - d)

\* apply_delivery_outcome after a send of length d, with a clock basis that is
\* basis_age old: backoff reset, deferral, or a rejection counted.
apply_delivery_outcome(verdict, d, basis_age) ==
    \/ /\ verdict.kind = "accepted"
       /\ consecutive' = 0 /\ not_before' = 0
       /\ UNCHANGED rejections
    \/ /\ verdict.kind = "retryable"
       /\ consecutive' = Least(consecutive + 1, MaxConsecutive)
       /\ not_before' = Left(Deferral(verdict, Least(consecutive + 1, MaxConsecutive)), basis_age)
       /\ UNCHANGED rejections
    \/ /\ verdict.kind \in {"permanent", "unauthorized"}
       /\ rejections' = rejections + 1
       /\ not_before' = Left(not_before, d)
       /\ UNCHANGED consecutive
    \/ /\ verdict.kind \in {"rejected_4xx", "error", "deadline"}
       /\ not_before' = Left(not_before, d)
       /\ UNCHANGED <<consecutive, rejections>>

\* What the peer asked for on a fresh batch, whatever clock the lane used: the
\* deferral counted from the verdict.
Owe(verdict, d, fresh) ==
    owed' = IF verdict.kind = "retryable" /\ fresh
            THEN Deferral(verdict, Least(consecutive + 1, MaxConsecutive))
            ELSE IF verdict.kind = "accepted" THEN 0 ELSE Left(owed, d)

\* Mutant of enqueue_with_eviction: an uncounted eviction.
enqueue_uncounted(q, b) ==
    /\ queue' = IF Len(q) >= Depth THEN Append(Tail(q), b) ELSE Append(q, b)
    /\ evicted' = IF Len(q) >= Depth THEN evicted \union {Head(q)} ELSE evicted
    /\ UNCHANGED dropped_records

\* enqueue_with_eviction: a full queue evicts its oldest batch and counts its
\* records in DROPPED_RECORDS.
enqueue_with_eviction(q, b) ==
    IF Len(q) >= Depth /\ q # << >>
    THEN /\ queue' = Append(Tail(q), b)
         /\ evicted' = evicted \union {Head(q)}
         /\ dropped_records' = dropped_records + Size[Head(q)]
    ELSE /\ queue' = Append(q, b)
         /\ UNCHANGED <<evicted, dropped_records>>

Keep(q) == queue' = q /\ UNCHANGED <<evicted, dropped_records>>

-----------------------------------------------------------------------------
(* The periodic tick                                                       *)

shutdown_requested == quit \/ terminate

\* The loop's exits: graceful drain on quit, an immediate return on terminate.
Shutdown == IF terminate THEN pc' = "exited" ELSE pc' = "quit"

\* Sleep one chunk; then the shutdown flags, the abdication latch, and whether
\* the lane is deferred.  The lanes before this one may take time d before it
\* runs; what was read here is kept.
Wake ==
    /\ pc = "sleep"
    /\ \E d \in 0..SendBudget :
         /\ not_before' = Left(not_before, Chunk + d)
         /\ owed' = Left(owed, Chunk + d)
    /\ IF shutdown_requested
       THEN Shutdown /\ UNCHANGED <<abdicated, deferred>>
       ELSE /\ abdicated' = (abdicated \/ successor)
            /\ deferred' = (not_before > Chunk)
            /\ pc' = "lane"
    /\ UNCHANGED <<queue, snapshot, inflight, drain_failed, consecutive, age, has_successor,
                   dropped_records, rejections, envVars, collected, fates>>

\* Mutant of RetryStart: an abdicated lane stops retrying, too.
RetryStartUnlessAbdicated ==
    /\ pc = "lane"
    /\ IF deferred \/ abdicated
       THEN pc' = "fresh" /\ UNCHANGED <<queue, snapshot>>
       ELSE pc' = "retry" /\ snapshot' = queue /\ queue' = << >>
    /\ drain_failed' = FALSE /\ age' = 0
    /\ UNCHANGED <<inflight, not_before, consecutive, deferred, abdicated, has_successor,
                   dropped_records, rejections, envVars, collected, fates, owed>>

\* drain_retry_queue_once: take the whole queue; now_msec is read here.
RetryStart ==
    /\ pc = "lane"
    /\ IF deferred
       THEN pc' = "fresh" /\ UNCHANGED <<queue, snapshot>>
       ELSE pc' = "retry" /\ snapshot' = queue /\ queue' = << >>
    /\ drain_failed' = FALSE /\ age' = 0
    /\ UNCHANGED <<inflight, not_before, consecutive, deferred, abdicated, has_successor,
                   dropped_records, rejections, envVars, collected, fates, owed>>

\* Mutant of RetryNext: the pass takes the newest batch first.
RetryNewest ==
    /\ pc = "retry"
    /\ \/ /\ snapshot = << >>
          /\ pc' = "fresh"
          /\ Keep(queue) /\ UNCHANGED <<snapshot, inflight>>
       \/ /\ snapshot # << >> /\ drain_failed
          /\ enqueue_with_eviction(queue, Last(snapshot))
          /\ snapshot' = Front(snapshot) /\ UNCHANGED <<pc, inflight>>
       \/ /\ snapshot # << >> /\ ~drain_failed
          /\ inflight' = Last(snapshot) /\ snapshot' = Front(snapshot)
          /\ pc' = "retry_send" /\ Keep(queue)
    /\ UNCHANGED <<drain_failed, not_before, consecutive, age, deferred, abdicated,
                   has_successor, rejections, envVars, collected,
                   delivered, rejected, uncounted, owed>>

\* The next batch of the pass: sent, or put back once the pass has failed.
RetryNext ==
    /\ pc = "retry"
    /\ \/ /\ snapshot = << >>
          /\ pc' = "fresh"
          /\ Keep(queue) /\ UNCHANGED <<snapshot, inflight>>
       \/ /\ snapshot # << >> /\ drain_failed
          /\ enqueue_with_eviction(queue, Head(snapshot))
          /\ snapshot' = Tail(snapshot) /\ UNCHANGED <<pc, inflight>>
       \/ /\ snapshot # << >> /\ ~drain_failed
          /\ inflight' = Head(snapshot) /\ snapshot' = Tail(snapshot)
          /\ pc' = "retry_send" /\ Keep(queue)
    /\ UNCHANGED <<drain_failed, not_before, consecutive, age, deferred, abdicated,
                   has_successor, rejections, envVars, collected,
                   delivered, rejected, uncounted, owed>>

\* Mutant of RetryVerdict: a batch that fails is not put back.
RetryVerdictForgets ==
    /\ pc = "retry_send"
    /\ \E verdict \in Answers : \E d \in Durations(verdict) :
         /\ apply_delivery_outcome(verdict, d, age + d)
         /\ Owe(verdict, d, FALSE)
         /\ age' = age + d
         /\ drain_failed' = (verdict.kind # "accepted")
         /\ delivered' = IF verdict.kind = "accepted" THEN delivered \union {inflight}
                                                      ELSE delivered
    /\ Keep(queue) /\ inflight' = NoBatch /\ pc' = "retry"
    /\ UNCHANGED <<snapshot, deferred, abdicated, has_successor, envVars, collected, rejected,
                   uncounted>>

\* A retry send resolves.  Accepted batches leave the lane and the pass goes on;
\* so do batches the peer rejects; any other verdict ends the pass, with the
\* batch back in the queue unless the error is a 4xx status.
RetryVerdict ==
    /\ pc = "retry_send"
    /\ \E verdict \in Answers : \E d \in Durations(verdict) :
         /\ apply_delivery_outcome(verdict, d, age + d)
         /\ Owe(verdict, d, FALSE)
         /\ age' = age + d
         /\ \/ /\ verdict.kind = "accepted"
               /\ delivered' = delivered \union {inflight}
               /\ Keep(queue) /\ UNCHANGED <<rejected, uncounted, drain_failed>>
            \/ /\ verdict.kind \in {"permanent", "unauthorized"}
               /\ rejected' = rejected \union {inflight}
               /\ Keep(queue) /\ UNCHANGED <<delivered, uncounted, drain_failed>>
            \/ /\ verdict.kind = "rejected_4xx"
               /\ uncounted' = uncounted \union {<<inflight, "refused">>}
               /\ drain_failed' = TRUE
               /\ Keep(queue) /\ UNCHANGED <<delivered, rejected>>
            \/ /\ verdict.kind \in {"retryable", "error", "deadline"}
               /\ enqueue_with_eviction(queue, inflight)
               /\ drain_failed' = TRUE
               /\ UNCHANGED <<delivered, rejected, uncounted>>
    /\ inflight' = NoBatch /\ pc' = "retry"
    /\ UNCHANGED <<snapshot, deferred, abdicated, has_successor, envVars, collected>>

\* The shutdown check between the two sends of a lane; then, unless the lane
\* is deferred or has abdicated, pop the rings: nothing there, or a new batch.
FreshStart ==
    /\ pc = "fresh"
    /\ \/ /\ shutdown_requested
          /\ Shutdown /\ UNCHANGED <<inflight, collected>>
       \/ /\ ~shutdown_requested
          /\ pc' = "sleep" /\ UNCHANGED <<inflight, collected>>
       \/ /\ ~shutdown_requested /\ ~abdicated /\ ~deferred
          /\ collected < MaxBatches
          /\ collected' = collected + 1 /\ inflight' = collected + 1
          /\ pc' = "fresh_send"
    /\ UNCHANGED <<queue, snapshot, drain_failed, not_before, consecutive, age, deferred,
                   abdicated, has_successor, dropped_records, rejections, envVars,
                   fates, owed>>

\* Mutant of FreshVerdict: the deferral is counted from before the send.
FreshVerdictStale ==
    /\ pc = "fresh_send"
    /\ \E verdict \in Answers : \E d \in Durations(verdict) :
         /\ apply_delivery_outcome(verdict, d, d)
         /\ Owe(verdict, d, TRUE)
         /\ \/ /\ verdict.kind = "accepted"
               /\ delivered' = delivered \union {inflight}
               /\ Keep(queue) /\ UNCHANGED rejected
            \/ /\ verdict.kind \in {"permanent", "unauthorized"}
               /\ rejected' = rejected \union {inflight}
               /\ Keep(queue) /\ UNCHANGED delivered
            \/ /\ verdict.kind \in {"retryable", "error", "deadline", "rejected_4xx"}
               /\ enqueue_with_eviction(queue, inflight)
               /\ UNCHANGED <<delivered, rejected>>
    /\ pc' = "sleep" /\ inflight' = NoBatch
    /\ UNCHANGED <<snapshot, drain_failed, age, deferred, abdicated, has_successor, envVars,
                   collected, uncounted>>

\* send_fresh_batch resolves: the clock is read after the send.  Every
\* transport error, a 4xx status included, queues the batch.  The logs lane is
\* followed by a shutdown check, the spans lane by the next sleep.
FreshVerdict ==
    /\ pc = "fresh_send"
    /\ \E verdict \in Answers : \E d \in Durations(verdict) :
         /\ apply_delivery_outcome(verdict, d, 0)
         /\ Owe(verdict, d, TRUE)
         /\ \/ /\ verdict.kind = "accepted"
               /\ delivered' = delivered \union {inflight}
               /\ Keep(queue) /\ UNCHANGED rejected
            \/ /\ verdict.kind \in {"permanent", "unauthorized"}
               /\ rejected' = rejected \union {inflight}
               /\ Keep(queue) /\ UNCHANGED delivered
            \/ /\ verdict.kind \in {"retryable", "error", "deadline", "rejected_4xx"}
               /\ enqueue_with_eviction(queue, inflight)
               /\ UNCHANGED <<delivered, rejected>>
    /\ pc' = "sleep" \/ (shutdown_requested /\ Shutdown)
    /\ inflight' = NoBatch
    /\ UNCHANGED <<snapshot, drain_failed, age, deferred, abdicated, has_successor, envVars,
                   collected, uncounted>>

-----------------------------------------------------------------------------
(* graceful_drain                                                          *)

policyVars == <<drain_failed, not_before, consecutive, age, deferred, abdicated, rejections, owed>>

\* The successor is looked up once.
GracefulStart ==
    /\ pc = "quit"
    /\ has_successor' = successor
    /\ pc' = "flush"
    /\ UNCHANGED <<queue, snapshot, inflight, dropped_records, policyVars, envVars, collected,
                   fates>>

\* Pop the next queued batch and send it, once; after the last, one fresh batch
\* unless a successor owns the rings.
FlushNext ==
    /\ pc = "flush"
    /\ \/ /\ queue # << >>
          /\ inflight' = Head(queue) /\ queue' = Tail(queue)
          /\ pc' = "flush_send" /\ UNCHANGED collected
       \/ /\ queue = << >>
          /\ pc' = "done" /\ UNCHANGED <<queue, inflight, collected>>
       \/ /\ queue = << >> /\ ~has_successor /\ collected < MaxBatches
          /\ collected' = collected + 1 /\ inflight' = collected + 1
          /\ pc' = "final_send" /\ UNCHANGED queue
    /\ UNCHANGED <<snapshot, dropped_records, has_successor, policyVars, envVars, fates>>

\* Mutant of FlushVerdict: a failed send re-queues, as in the periodic lane.
FlushVerdictRequeues ==
    /\ pc = "flush_send"
    /\ \E verdict \in Answers :
         IF verdict.kind = "accepted"
         THEN delivered' = delivered \union {inflight} /\ UNCHANGED queue
         ELSE queue' = Append(queue, inflight) /\ UNCHANGED delivered
    /\ inflight' = NoBatch /\ pc' = "flush"
    /\ UNCHANGED <<snapshot, has_successor, policyVars, envVars, collected, rejected, evicted,
                   uncounted, dropped_records>>

\* Any verdict of the peer releases the batch, a refusal without counting it;
\* an error or the deadline drops it, uncounted too, and
\* account_drops_and_clear counts and drops the rest of the queue.
FlushVerdict ==
    /\ pc = "flush_send"
    /\ \E verdict \in Answers :
         \/ /\ verdict.kind = "accepted"
            /\ delivered' = delivered \union {inflight}
            /\ Keep(queue) /\ UNCHANGED uncounted
         \/ /\ verdict.kind \in {"retryable", "permanent", "unauthorized"}
            /\ uncounted' = uncounted \union {<<inflight, "released">>}
            /\ Keep(queue) /\ UNCHANGED delivered
         \/ /\ verdict.kind \in {"rejected_4xx", "error", "deadline"}
            /\ dropped_records' = dropped_records + SizeOf(ToSet(queue))
            /\ evicted' = evicted \union ToSet(queue)
            /\ uncounted' = uncounted \union {<<inflight, "aborting">>}
            /\ queue' = << >> /\ UNCHANGED delivered
    /\ inflight' = NoBatch /\ pc' = "flush"
    /\ UNCHANGED <<snapshot, has_successor, policyVars, envVars, collected, rejected>>

\* The final fresh batch: whatever happens to it, the loop is done.
FinalVerdict ==
    /\ pc = "final_send"
    /\ \E verdict \in Answers :
         \/ /\ verdict.kind = "accepted"
            /\ delivered' = delivered \union {inflight} /\ UNCHANGED uncounted
         \/ /\ verdict.kind # "accepted"
            /\ uncounted' = uncounted \union {<<inflight, "final">>} /\ UNCHANGED delivered
    /\ inflight' = NoBatch /\ pc' = "done"
    /\ UNCHANGED <<queue, snapshot, dropped_records, has_successor, policyVars, envVars,
                   collected, rejected, evicted>>

\* The process exits under the loop: the main loop saw ngx_terminate, or the
\* backstop of the quit path ran out.  What was in memory is gone.
ProcessExit ==
    /\ shutdown_requested /\ pc \notin {"done", "exited"}
    /\ pc' = "exited"
    /\ queue' = << >> /\ snapshot' = << >> /\ inflight' = NoBatch
    /\ UNCHANGED <<dropped_records, has_successor, policyVars, envVars, collected, fates>>

-----------------------------------------------------------------------------
(* external: the master and the collector                                  *)

AnnounceSuccessor == ~successor /\ successor' = TRUE /\ UNCHANGED <<quit, terminate, up>>
SendQuit == ~quit /\ quit' = TRUE /\ UNCHANGED <<successor, terminate, up>>
SendTerminate == ~terminate /\ terminate' = TRUE /\ UNCHANGED <<successor, quit, up>>
CollectorChanges == up' = ~up /\ UNCHANGED <<successor, quit, terminate>>

Environment ==
    /\ pc \notin {"done", "exited"}
    /\ AnnounceSuccessor \/ SendQuit \/ SendTerminate \/ CollectorChanges
    /\ UNCHANGED <<laneVars, collected, fates, owed>>

Init ==
    /\ queue = << >> /\ snapshot = << >> /\ inflight = NoBatch /\ drain_failed = FALSE
    /\ not_before = 0 /\ consecutive = 0 /\ age = 0 /\ deferred = FALSE
    /\ abdicated = FALSE /\ has_successor = FALSE
    /\ dropped_records = 0 /\ rejections = 0 /\ pc = "sleep"
    /\ successor = FALSE /\ quit = FALSE /\ terminate = FALSE /\ up \in BOOLEAN
    /\ collected = 0
    /\ delivered = {} /\ rejected = {} /\ evicted = {} /\ uncounted = {}
    /\ owed = 0

Loop == \/ Wake \/ RetryStart \/ RetryNext \/ RetryVerdict \/ FreshStart \/ FreshVerdict
        \/ GracefulStart \/ FlushNext \/ FlushVerdict \/ FinalVerdict

Next == Loop \/ ProcessExit \/ Environment

Spec == Init /\ [][Next]_vars

\* The event loop keeps polling the export task: timers fire, and every send
\* resolves or hits its deadline.
FairSpec == Spec /\ WF_vars(Loop)

-----------------------------------------------------------------------------
(* Properties                                                              *)

Running == pc \notin {"done", "exited"}
Sent == IF inflight = NoBatch THEN << >> ELSE <<inflight>>

\* What the lane holds, oldest first: the graceful flush sends from the front
\* of the queue, a retry pass has emptied it.
Held == IF pc = "flush_send" THEN Sent \o queue ELSE queue \o Sent \o snapshot

\* Type invariant: the lane holds batches that were collected, and its clock
\* fields are durations.
TypeOK ==
    /\ queue \in Seq(1..collected) /\ snapshot \in Seq(1..collected)
    /\ inflight \in 0..collected /\ collected \in 0..MaxBatches
    /\ not_before \in Nat /\ age \in Nat /\ consecutive \in 0..MaxConsecutive
    /\ {drain_failed, deferred, abdicated, has_successor} \subseteq BOOLEAN
    /\ {successor, quit, terminate, up} \subseteq BOOLEAN
    /\ dropped_records \in Nat /\ rejections \in Nat /\ owed \in Nat
    /\ uncounted \subseteq Batches \X {"refused", "released", "aborting", "final"}
    /\ pc \in {"sleep", "lane", "retry", "retry_send", "fresh", "fresh_send",
               "quit", "flush", "flush_send", "final_send", "done", "exited"}

\* The batches lost in a way that no counter shows.
Lost(why) == {b \in Batches : <<b, why>> \in uncounted}

\* drain_retry_queue_once and send_fresh_batch: while the loop runs no batch
\* disappears and none is held twice.  Every batch popped from the rings is in
\* the lane, delivered, rejected by the peer (by a verdict or by a 4xx status),
\* or evicted.
NoBatchLost ==
    LET gone == delivered \union rejected \union evicted \union Lost("refused")
    IN  (Running /\ ~shutdown_requested) =>
            /\ 1..collected = ToSet(Held) \union gone
            /\ Len(Held) = Cardinality(ToSet(Held))
            /\ ToSet(Held) \intersect gone = {}

\* A failed retry pass puts its batches back in front of newer ones: the lane
\* always holds its batches in the order they were collected.
OldestFirst == \A i, j \in 1..Len(Held) : i < j => Held[i] < Held[j]

\* The self-metrics and the batches balance.  DROPPED_RECORDS counts exactly
\* the records of the batches that the retry buffer evicted or an aborted
\* graceful flush left in the queue, and the rejection counters exactly the
\* batches that a verdict of the peer dropped while the loop ran.  A batch that
\* the lane took from the rings, unless the process exits under it, is held,
\* delivered, in one of those counts, or lost in one of four ways that no count
\* of drops shows: to a 4xx status in a retry pass; in the flush, by a verdict
\* that did not accept it or as the one whose send aborted it; as the final
\* batch.  All but the first take a quit, and the last two lose one batch each.
DropsCounted ==
    /\ dropped_records = SizeOf(evicted)
    /\ rejections = Cardinality(rejected)
    /\ pc # "exited" =>
          collected = Len(Held) + Cardinality(delivered) + Cardinality(rejected)
                      + Cardinality(evicted) + Cardinality(uncounted)
    /\ ~shutdown_requested => uncounted \subseteq Batches \X {"refused"}
    /\ Cardinality(Lost("aborting")) <= 1 /\ Cardinality(Lost("final")) <= 1

\* send_fresh_batch reads the clock after the send: a Retryable verdict on a
\* fresh batch keeps every periodic send of the lane back for the whole
\* deferral, however long the send and the other lanes took.
FreshDeferralKept ==
    [][(pc' \in {"retry_send", "fresh_send"} /\ pc' # pc) => owed = 0]_vars

\* ngx_quit ends the loop: no verdict, deferral or dead collector keeps it.
QuitEndsLoop == shutdown_requested ~> ~Running

\* An undisturbed lane empties its retry queue once the collector stays up,
\* also when it has abdicated the rings to a successor.
QueueDrains ==
    <>[](up /\ ~shutdown_requested) => <>[](Held = << >>)
=============================================================================
