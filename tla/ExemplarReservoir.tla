------------------------- MODULE ExemplarReservoir -------------------------
(***************************************************************************)
(* One exemplar reservoir of the metrics zone (ExemplarReservoir in        *)
(* shm/mod.rs): write by a worker, snapshot and reset by the exporter      *)
(* (collect in metric_source/instrumented.rs), field by field on shared    *)
(* atomics without a lock.                                                 *)
(*                                                                         *)
(* A request is a number, and each field of an entry holds the number of   *)
(* the request that stored it: `value` stands for value_us, ts_unix_nano   *)
(* and combo_idx, `trace` for the ids and has_trace.                       *)
(***************************************************************************)
EXTENDS Integers, Sequences, FiniteSets, FiniteSetsExt

CONSTANTS Workers,    \* processes writing to the reservoir
          Size,       \* EXEMPLAR_RESERVOIR_SIZE
          MaxWrites,  \* bound: sampled requests
          MaxCycles   \* bound: collections

ASSUME ReservoirAssumption == Size \in Nat \ {0} /\ MaxWrites \in Nat /\ MaxCycles \in Nat

Requests == 1..MaxWrites
Slots == 0..(Size - 1)
Fields == {"value", "trace"}
Blank == [value |-> 0, trace |-> 0]   \* zeroed shared memory
Idle == [request |-> 0, bucket |-> 0, todo |-> {}]

VARIABLES seen, entries,  \* shared memory
          writer,         \* per worker: the write in progress
          reader,         \* "idle" or "read": where collect is
          filled,         \* entries the snapshot takes
          toread,         \* fields it has still to read
          out,            \* the entries read
          requests,       \* requests so far
          fresh,          \* history: requests counted in `seen` since the last reset
          disturbed,      \* history: a write overlapped this collection
          cycles          \* collections so far (for MaxCycles)

vars == <<seen, entries, writer, reader, filled, toread, out, requests, fresh, disturbed, cycles>>

-----------------------------------------------------------------------------

\* rand_index(n) % (n + 1): a hash, any of 0..n.
rand_index(n) == 0..n

\* The slot of the n-th candidate: its own while the reservoir fills, then a random one.
Bucket(n) == IF n < Size THEN {n} ELSE rand_index(n)

\* write: count the candidate; past Size it may not be retained.
WriteStart(w) ==
    /\ writer[w].todo = {} /\ requests < MaxWrites
    /\ requests' = requests + 1
    /\ seen' = seen + 1
    /\ fresh' = fresh \cup {requests'}
    /\ \E b \in Bucket(seen) :
          writer' = IF b >= Size THEN writer
                    ELSE [writer EXCEPT ![w] = [request |-> requests', bucket |-> b, todo |-> Fields]]
    /\ disturbed' = (disturbed \/ reader # "idle")
    /\ UNCHANGED <<entries, reader, filled, toread, out, cycles>>

\* write: one Relaxed store of a field.
WriteField(w, f) ==
    /\ f \in writer[w].todo
    /\ entries' = [entries EXCEPT ![writer[w].bucket][f] = writer[w].request]
    /\ writer' = [writer EXCEPT ![w].todo = @ \ {f}]
    /\ UNCHANGED <<seen, reader, filled, toread, out, requests, fresh, disturbed, cycles>>

\* snapshot: occupancy is min(seen, Size).
SnapshotStart ==
    /\ reader = "idle" /\ cycles < MaxCycles
    /\ filled' = Min({seen, Size})
    /\ toread' = (0..(filled' - 1)) \X Fields
    /\ out' = [i \in Slots |-> Blank]
    /\ reader' = "read"
    /\ cycles' = cycles + 1
    /\ disturbed' = (\E w \in Workers : writer[w].todo # {})
    /\ UNCHANGED <<seen, entries, writer, requests, fresh>>

\* snapshot: one load of a field.
SnapshotField ==
    /\ reader = "read" /\ toread # {}
    /\ \E x \in toread :
          /\ out' = [out EXCEPT ![x[1]][x[2]] = entries[x[1]][x[2]]]
          /\ toread' = toread \ {x}
    /\ UNCHANGED <<seen, entries, writer, reader, filled, requests, fresh, disturbed, cycles>>

\* Mutant of Reset: the candidates counted are kept.
ResetNothing ==
    /\ reader = "read" /\ toread = {}
    /\ fresh' = {}
    /\ reader' = "idle"
    /\ UNCHANGED <<seen, entries, writer, filled, toread, out, requests, disturbed, cycles>>

\* reset: seen := 0; the entries keep their old payloads.
Reset ==
    /\ reader = "read" /\ toread = {}
    /\ seen' = 0
    /\ fresh' = {}
    /\ reader' = "idle"
    /\ UNCHANGED <<entries, writer, filled, toread, out, requests, disturbed, cycles>>

Init ==
    /\ seen = 0 /\ entries = [i \in Slots |-> Blank] /\ writer = [w \in Workers |-> Idle]
    /\ reader = "idle" /\ filled = 0 /\ toread = {} /\ out = [i \in Slots |-> Blank]
    /\ requests = 0 /\ fresh = {} /\ disturbed = FALSE /\ cycles = 0

Next == \/ \E w \in Workers : WriteStart(w) \/ \E f \in Fields : WriteField(w, f)
        \/ SnapshotStart \/ SnapshotField \/ Reset

Spec == Init /\ [][Next]_vars

-----------------------------------------------------------------------------
(* Properties                                                              *)

\* Type invariant: no entry outside the reservoir is ever addressed.
TypeOK ==
    /\ seen \in 0..MaxWrites /\ filled \in 0..Size /\ cycles \in 0..MaxCycles
    /\ entries \in [Slots -> [Fields -> 0..MaxWrites]]
    /\ writer \in [Workers -> [request : 0..MaxWrites, bucket : Slots, todo : SUBSET Fields]]
    /\ reader \in {"idle", "read"} /\ toread \subseteq Slots \X Fields
    /\ out \in [Slots -> [Fields -> 0..MaxWrites]]
    /\ requests \in 0..MaxWrites /\ fresh \subseteq Requests /\ disturbed \in BOOLEAN

Read == {i \in Slots : i < filled}
Collected == reader = "read" /\ toread = {}

\* A collection no write overlapped exports whole exemplars (the value and the
\* trace of one request), of this cycle, each once, and as many as it can.
QuietCollectionExact ==
    Collected /\ ~disturbed =>
        /\ \A i \in Read : out[i].value = out[i].trace /\ out[i].value \in fresh
        /\ \A i, j \in Read : out[i] = out[j] => i = j
        /\ filled = Min({Cardinality(fresh), Size})
=============================================================================
