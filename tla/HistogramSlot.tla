--------------------------- MODULE HistogramSlot ---------------------------
(***************************************************************************)
(* One histogram slot of the metrics zone (shm/histogram.rs): record by    *)
(* worker processes, snapshot by the exporter, both word by word on shared *)
(* atomics, and zero_route_upstream_histograms (shm/mod.rs) by the master  *)
(* at a reload.                                                            *)
(*                                                                         *)
(* The words other than `count` are written and read Relaxed, in any order; *)
(* the Release of `count` comes after a record's other words, the Acquire  *)
(* of `count` before a snapshot's.                                         *)
(***************************************************************************)
EXTENDS Integers, Sequences, FiniteSetsExt

CONSTANTS Workers,      \* processes recording into the slot
          Values,       \* observations
          Bounds,       \* inclusive upper bounds of the buckets, ascending
          MaxRecords,   \* bound: observations
          MaxReloads    \* bound: reloads that zero the slot

ASSUME HistogramAssumption ==
    /\ Values \subseteq Nat
    /\ Bounds \in Seq(Nat) /\ Bounds # << >>
    /\ \A i, j \in 1..Len(Bounds) : i < j => Bounds[i] <= Bounds[j]
    /\ MaxRecords \in Nat /\ MaxReloads \in Nat

VARIABLES kind,      \* "exponential": ExpHistogramSlot; "explicit": Histogram<BUCKETS>
          slot,      \* the words in shared memory
          value,     \* per worker: the observation it is recording
          todo,      \* per worker: words it has still to add to, Count last
          snap,      \* the snapshot in the making, or the last one
          toread,    \* words the exporter has still to read
          tozero,    \* words the master has still to store 0 into
          observed,  \* history: observations since the last reset, with their multiplicity
          disturbed, \* history: a record or a snapshot overlapped the last reset
          reloads    \* reloads so far (for MaxReloads)

vars == <<kind, slot, value, todo, snap, toread, tozero, observed, disturbed, reloads>>

\* ExpHistogramSlot has as many buckets as bounds, and the last is also the
\* overflow; Histogram has an overflow bucket of its own.
LastBucket == Len(Bounds) + (IF kind = "exponential" THEN 0 ELSE 1)

Buckets == {<<"bucket", i>> : i \in 1..LastBucket}
ZeroCount == <<"zero_count", 0>>
Sum == <<"sum", 0>>
Count == <<"count", 0>>
Words == Buckets \union {ZeroCount, Sum, Count}

-----------------------------------------------------------------------------

\* Mutant of partition_point: the bounds are exclusive.
partition_exclusive(v) == Cardinality({i \in 1..Len(Bounds) : Bounds[i] <= v})

\* bounds.partition_point(|b| b < v): how many of the ascending bounds are below v.
partition_point(v) == Cardinality({i \in 1..Len(Bounds) : Bounds[i] < v})

\* The word an observation is counted in.
WordOf(v) == IF kind = "exponential" /\ v = 0 THEN ZeroCount
             ELSE <<"bucket", Min({partition_point(v) + 1, LastBucket})>>

Addend(x, v) == IF x = Sum THEN v ELSE 1

\* record is called.
RecordStart(w) ==
    /\ todo[w] = {}
    /\ MapThenSumSet(LAMBDA v : observed[v], Values) < MaxRecords
    /\ \E v \in Values :
          /\ value' = [value EXCEPT ![w] = v]
          /\ todo' = [todo EXCEPT ![w] = {WordOf(v), Sum, Count}]
          /\ observed' = [observed EXCEPT ![v] = @ + 1]
    /\ disturbed' = (disturbed \/ tozero # {})
    /\ UNCHANGED <<kind, slot, snap, toread, tozero, reloads>>

\* Mutant of RecordWord: `count` is not ordered after the other words.
RecordWordUnordered(w, x) ==
    /\ x \in todo[w]
    /\ slot' = [slot EXCEPT ![x] = @ + Addend(x, value[w])]
    /\ todo' = [todo EXCEPT ![w] = @ \ {x}]
    /\ UNCHANGED <<kind, value, snap, toread, tozero, observed, disturbed, reloads>>

\* One fetch_add of a record; count is the last (Release).
RecordWord(w, x) ==
    /\ x \in todo[w] /\ (x = Count => todo[w] = {Count})
    /\ slot' = [slot EXCEPT ![x] = @ + Addend(x, value[w])]
    /\ todo' = [todo EXCEPT ![w] = @ \ {x}]
    /\ UNCHANGED <<kind, value, snap, toread, tozero, observed, disturbed, reloads>>

\* One load of a snapshot; count is the first (Acquire).
SnapshotWord(x) ==
    /\ x \in toread /\ (Count \in toread => x = Count)
    /\ snap' = [snap EXCEPT ![x] = slot[x]]
    /\ toread' = toread \ {x}
    /\ UNCHANGED <<kind, slot, value, todo, tozero, observed, disturbed, reloads>>

\* snapshot is called.  (The sum it reads takes part in no property.)
SnapshotStart ==
    /\ toread = {}
    /\ toread' = Words \ {Sum}
    /\ disturbed' = (disturbed \/ tozero # {})
    /\ UNCHANGED <<kind, slot, value, todo, snap, tozero, observed, reloads>>

\* otel_shm_zone_init on a reload: zero_route_upstream_histograms, while old
\* workers are still recording.  The explicit histograms carry over.
ZeroStart ==
    /\ kind = "exponential" /\ tozero = {} /\ reloads < MaxReloads
    /\ tozero' = Words
    /\ reloads' = reloads + 1
    /\ observed' = [v \in Values |-> 0]
    /\ disturbed' = (toread # {} \/ \E w \in Workers : todo[w] # {})
    /\ UNCHANGED <<kind, slot, value, todo, snap, toread>>

ZeroWord(x) ==
    /\ x \in tozero
    /\ slot' = [slot EXCEPT ![x] = 0]
    /\ tozero' = tozero \ {x}
    /\ UNCHANGED <<kind, value, todo, snap, toread, observed, disturbed, reloads>>

Init ==
    /\ kind \in {"exponential", "explicit"}
    /\ slot = [x \in Words |-> 0] /\ snap = [x \in Words |-> 0]
    /\ value = [w \in Workers |-> 0] /\ todo = [w \in Workers |-> {}]
    /\ toread = {} /\ tozero = {}
    /\ observed = [v \in Values |-> 0] /\ disturbed = FALSE /\ reloads = 0

Next == \/ SnapshotStart \/ ZeroStart
        \/ \E w \in Workers : RecordStart(w) \/ \E x \in Words : RecordWord(w, x)
        \/ \E x \in Words : SnapshotWord(x) \/ ZeroWord(x)

Spec == Init /\ [][Next]_vars

-----------------------------------------------------------------------------
(* Properties                                                              *)

Total(words) == MapThenSumSet(LAMBDA x : words[x], Buckets \union {ZeroCount})

\* Type invariant.
TypeOK ==
    /\ kind \in {"exponential", "explicit"}
    /\ slot \in [Words -> Nat] /\ snap \in [Words -> Nat]
    /\ value \in [Workers -> Values \union {0}] /\ todo \in [Workers -> SUBSET Words]
    /\ toread \subseteq Words /\ tozero \subseteq Words
    /\ observed \in [Values -> 0..MaxRecords]
    /\ disturbed \in BOOLEAN /\ reloads \in 0..MaxReloads

\* A snapshot taken while workers record is never short of observations: its
\* buckets and zero_count add up to its count at least.  (Not claimed of a
\* record or snapshot that a reload's reset overlapped.)
SnapshotCovers == toread = {} /\ ~disturbed => Total(snap) >= snap[Count]

\* The bucket an observation belongs in, by its bounds: above the bound below,
\* not above its own; zero and the overflow have their own rule.
BelongsIn(v, x) ==
    \/ kind = "exponential" /\ v = 0 /\ x = ZeroCount
    \/ /\ ~(kind = "exponential" /\ v = 0)
       /\ \E i \in 1..LastBucket : /\ x = <<"bucket", i>>
                                   /\ i > 1 => Bounds[i - 1] < v
                                   /\ i < LastBucket => v <= Bounds[i]

\* Nothing is lost or miscounted by concurrent records: with none in progress
\* each bucket holds the number of observations within its bounds since the
\* last reset, count their number and sum their total.
CountsExact ==
    (\A w \in Workers : todo[w] = {}) /\ tozero = {} /\ ~disturbed =>
        /\ \A x \in Buckets \union {ZeroCount} :
              slot[x] = MapThenSumSet(LAMBDA v : observed[v], {v \in Values : BelongsIn(v, x)})
        /\ slot[Count] = MapThenSumSet(LAMBDA v : observed[v], Values)
        /\ slot[Sum] = MapThenSumSet(LAMBDA v : v * observed[v], Values)
=============================================================================
