--------------------------- MODULE ErrorCoalescer ---------------------------
(***************************************************************************)
(* The error-log path of one worker: the nginx log writer hook             *)
(* (logs/error_writer.rs), the per-worker template table in shared memory  *)
(* that suppresses repeats (logs/coalesce.rs), the error ring, and the     *)
(* exporter's interval drain of both (collect_log_records in drain/mod.rs). *)
(*                                                                         *)
(* The table has no lock: every load and store of a slot field is a step,  *)
(* so that a drain sweep interleaves with a writer in the middle of a      *)
(* probe or an insert.  The error ring is the bounded FIFO that            *)
(* WorkerSignalRing implements, counted in records.                        *)
(***************************************************************************)
EXTENDS Integers, Sequences, FiniteSets, FiniteSetsExt, Functions

CONSTANTS Messages,     \* names of the lines logged
          Level,          \* Level[m]: nginx severity, 1 = emerg .. 8 = debug
          Text,           \* Text[m]: what differs in a line: [conn, core, context],
                          \* each a sequence of runs of bytes
          Conns,          \* the runs "*<digits> " that name a connection
          Hash(_, _),     \* FNV-1a of the severity byte and a core
          Capacity,       \* COALESCE_CAPACITY
          RingCap,        \* records the error ring holds
          LevelFloor,     \* level_floor of the directive
          CoalesceEnabled,
          Crashes,        \* may the worker die in the middle of a log call?
          ErrorDrainCap,  \* MAX_ERROR_RECORDS_PER_WORKER_PER_DRAIN
          MaxEvents       \* bound: log calls

ASSUME CoalescerAssumption ==
    /\ Level \in [Messages -> 1..8]
    /\ \A m \in Messages : \* nginx messages are not empty and never start with "*"
         /\ Text[m].core # << >> /\ Text[m].core[1] \notin Conns
         /\ Range(Text[m].core) \cap {" while ", ", client:"} = {}
    /\ Capacity \in Nat \ {0} /\ RingCap \in Nat
    /\ LevelFloor \in 1..8
    /\ CoalesceEnabled \in BOOLEAN /\ Crashes \in BOOLEAN
    /\ ErrorDrainCap \in Nat \ {0} /\ MaxEvents \in Nat
    /\ ErrorDrainCap > RingCap   \* 50 000 records, and a 512 KiB ring holds under 22 000

VARIABLES slots,        \* the table: key_hash, severity, count, sample_emitted
          ring,         \* the error ring: [hash, msg], oldest first
          ring_dropped, \* per hash (0 included): pushes refused by a full ring
          writer,       \* the log call under way in the worker
          cleanup,      \* the cycle is being torn down
          error_rate,   \* per-message sum of the error-rate counters
          drain,        \* the drain interval under way in the exporter
          counts,       \* counts_vec of this interval: <<hash, severity, count>>
          reported,     \* history: per hash, occurrences the backend was told of
          orphaned,     \* history: per hash, counts sent as synthetic records
          untracked,    \* history: per message, verbatim records with hash 0
          last_sample,  \* history: per slot, the template whose sample set sample_emitted
          disturbed,    \* history: "no"; "race", a call and a drain have overlapped;
                        \* "crash", the worker has died inside a call
          events        \* log calls made (for MaxEvents)

table == <<slots, cleanup>>
writerVars == <<writer, error_rate, untracked, last_sample, events>>
drainVars == <<drain, counts, reported, orphaned>>
ringVars == <<ring, ring_dropped>>
vars == <<table, writerVars, drainVars, ringVars, disturbed>>

HIGH_SEVERITY_THRESHOLD == 3

(***************************************************************************)
(* The template of a line.  nginx formats a line as its time, "[level] ",   *)
(* "pid#tid: ", the connection if there is one, the message, and what the   *)
(* request's log handler appends.                                           *)
(***************************************************************************)
ngx_log_error_core(m) ==
    <<"time [", "level", "] ", "pid#tid", ": ">> \o Text[m].conn \o Text[m].core
      \o Text[m].context \o <<"\n">>

\* The place after the first mark at or after pos; the last one without a mark.
SkipPast(buf, pos, mark) ==
    LET found == {i \in pos .. Len(buf) : buf[i] = mark}
    IN  IF found = {} THEN Max({pos, Len(buf)}) ELSE Min(found) + 1

\* The part between the prefix that varies and the handler's context, or the
\* whole line when nothing is left.
stable_core(buf) ==
    LET pos == SkipPast(buf, SkipPast(buf, 1, "] "), ": ")
        start == IF pos <= Len(buf) /\ buf[pos] \in Conns THEN pos + 1 ELSE pos
        len == IF buf[Len(buf)] = "\n" THEN Len(buf) - 1 ELSE Len(buf)
        cuts == {i \in start .. len : buf[i] \in {" while ", ", client:"}}
        end == IF cuts = {} THEN len ELSE Min(cuts) - 1
    IN  IF start > end THEN buf ELSE SubSeq(buf, start, end)

\* 0 is the mark of an empty slot.
coalesce_key(severity, core) ==
    LET h == Hash(severity, core) IN IF h = 0 THEN 1 ELSE h

Key == [m \in Messages |-> coalesce_key(Level[m], stable_core(ngx_log_error_core(m)))]

Slots == 0..(Capacity - 1)
Hashes == {0} \union {Key[m] : m \in Messages}
EmptySlot == [key_hash |-> 0, severity |-> 0, count |-> 0, sample_emitted |-> FALSE]
IdleWriter == [pc |-> "idle"]
IdleDrain == [pc |-> "idle"]
Zero(S) == [x \in S |-> 0]

\* What a line says, apart from when, where and for whom.
Template(m) == <<Level[m], Text[m].core>>

-----------------------------------------------------------------------------
(* ngx_otel_error_writer                                                   *)

RaceIf(overlap) == disturbed' = IF overlap /\ disturbed = "no" THEN "race" ELSE disturbed

\* A line is logged.  A line under the floor, after cleanup, or by a signal
\* handler inside the writer (busy) returns at once; any other is counted in
\* the error rate.  With coalescing off, or a severity of crit and above, it
\* goes verbatim with hash 0; otherwise the probe starts at its home slot.
Log(m) ==
    /\ events < MaxEvents
    /\ writer.pc = "idle" /\ ~cleanup /\ Level[m] <= LevelFloor
    /\ events' = events + 1
    /\ error_rate' = [error_rate EXCEPT ![m] = @ + 1]
    /\ IF ~CoalesceEnabled \/ Level[m] <= HIGH_SEVERITY_THRESHOLD
       THEN writer' = [pc |-> "push", msg |-> m, hash |-> 0]
       ELSE writer' = [pc |-> "probe", msg |-> m, probe |-> Key[m] % Capacity,
                       probes |-> 0]
    /\ RaceIf(drain.pc # "idle")
    /\ UNCHANGED <<table, drainVars, ringVars, untracked, last_sample>>

\* ngx_otel_exit_process: the worker is going down.
set_cleanup_flag ==
    /\ writer.pc = "idle" /\ ~cleanup
    /\ cleanup' = TRUE
    /\ UNCHANGED <<disturbed, slots, writerVars, drainVars, ringVars>>

SetSlot(i, field, value) == slots' = [slots EXCEPT ![i][field] = value]
At(pc) == writer' = [writer EXCEPT !.pc = pc]
Verbatim(hash) == writer' = [pc |-> "push", msg |-> writer.msg, hash |-> hash]

\* Mutant of NextProbe: no table-full guard.
NextProbeForever ==
    writer' = [writer EXCEPT !.pc = "probe", !.probe = (writer.probe + 1) % Capacity]

\* Load key_hash of the probed slot: empty, a candidate, or a collision.  A
\* full table sends the line verbatim, untracked.
NextProbe ==
    LET probe == (writer.probe + 1) % Capacity
        start == Key[writer.msg] % Capacity
    IN  IF writer.probes + 1 >= Capacity \/ probe = start
        THEN Verbatim(0)
        ELSE writer' = [writer EXCEPT !.pc = "probe", !.probe = probe, !.probes = @ + 1]

\* Mutant of Probe: any occupied slot is taken for the template's own.
ProbeAnyKey ==
    /\ writer.pc = "probe"
    /\ At(IF slots[writer.probe].key_hash = 0 THEN "insert_key" ELSE "match")
    /\ UNCHANGED <<disturbed, table, drainVars, ringVars, error_rate, untracked, last_sample, events>>

Probe ==
    /\ writer.pc = "probe"
    /\ LET slot_key == slots[writer.probe].key_hash
       IN  \/ slot_key = 0 /\ At("insert_key")
           \/ slot_key = Key[writer.msg] /\ At("match")
           \/ slot_key \notin {0, Key[writer.msg]} /\ NextProbe
    /\ UNCHANGED <<disturbed, table, drainVars, ringVars, error_rate, untracked, last_sample, events>>

\* Mutant of Insert: the count starts at 0, as if the sample counted itself.
InsertUncounted ==
    /\ \/ /\ writer.pc = "insert_key"
          /\ SetSlot(writer.probe, "key_hash", Key[writer.msg])
          /\ At("insert_severity") /\ UNCHANGED last_sample
       \/ /\ writer.pc = "insert_severity"
          /\ SetSlot(writer.probe, "severity", Level[writer.msg])
          /\ At("insert_count") /\ UNCHANGED last_sample
       \/ /\ writer.pc = "insert_count"
          /\ SetSlot(writer.probe, "count", 0)
          /\ At("insert_sample") /\ UNCHANGED last_sample
       \/ /\ writer.pc = "insert_sample"
          /\ SetSlot(writer.probe, "sample_emitted", TRUE)
          /\ Verbatim(Key[writer.msg])
          /\ last_sample' = [last_sample EXCEPT ![writer.probe] = Template(writer.msg)]
    /\ UNCHANGED <<disturbed, cleanup, drainVars, ringVars, error_rate, untracked, events>>

\* A novel template: key_hash, severity, count := 1 and sample_emitted are
\* four stores, in this order.
Insert ==
    /\ \/ /\ writer.pc = "insert_key"
          /\ SetSlot(writer.probe, "key_hash", Key[writer.msg])
          /\ At("insert_severity") /\ UNCHANGED last_sample
       \/ /\ writer.pc = "insert_severity"
          /\ SetSlot(writer.probe, "severity", Level[writer.msg])
          /\ At("insert_count") /\ UNCHANGED last_sample
       \/ /\ writer.pc = "insert_count"
          /\ SetSlot(writer.probe, "count", 1)
          /\ At("insert_sample") /\ UNCHANGED last_sample
       \/ /\ writer.pc = "insert_sample"
          /\ SetSlot(writer.probe, "sample_emitted", TRUE)
          /\ Verbatim(Key[writer.msg])
          /\ last_sample' = [last_sample EXCEPT ![writer.probe] = Template(writer.msg)]
    /\ UNCHANGED <<disturbed, cleanup, drainVars, ringVars, error_rate, untracked, events>>

\* The key matches: load severity, and with an equal severity load
\* sample_emitted, bump count, and suppress the line or emit a fresh sample.
Match ==
    /\ writer.pc = "match"
    /\ IF slots[writer.probe].severity = Level[writer.msg] THEN At("emitted?") ELSE NextProbe
    /\ UNCHANGED <<disturbed, table, drainVars, ringVars, error_rate, untracked, last_sample, events>>

Emitted ==
    /\ writer.pc = "emitted?"
    /\ At(IF slots[writer.probe].sample_emitted THEN "suppress" ELSE "resample")
    /\ UNCHANGED <<disturbed, table, drainVars, ringVars, error_rate, untracked, last_sample, events>>

Bump ==
    /\ writer.pc \in {"suppress", "resample"}
    /\ SetSlot(writer.probe, "count", slots[writer.probe].count + 1)
    /\ \/ writer.pc = "suppress" /\ writer' = IdleWriter
       \/ writer.pc = "resample" /\ At("insert_sample")
    /\ UNCHANGED <<disturbed, cleanup, drainVars, ringVars, error_rate, untracked, last_sample, events>>

\* push_error_record: into the ring, or counted as dropped when it is full.
push_error_record ==
    /\ writer.pc = "push"
    /\ \/ /\ Len(ring) < RingCap
          /\ ring' = Append(ring, [hash |-> writer.hash, msg |-> writer.msg])
          /\ UNCHANGED ring_dropped
       \/ /\ Len(ring) >= RingCap
          /\ ring_dropped' = [ring_dropped EXCEPT ![writer.hash] = @ + 1]
          /\ UNCHANGED ring
    /\ untracked' = IF writer.hash = 0 THEN [untracked EXCEPT ![writer.msg] = @ + 1]
                                       ELSE untracked
    /\ writer' = IdleWriter
    /\ UNCHANGED <<disturbed, table, drainVars, error_rate, last_sample, events>>

\* The worker dies inside a call, or has left after cleanup; the next worker
\* with its index starts on the table and ring it left behind.
WorkerRestarts ==
    /\ cleanup \/ (Crashes /\ writer.pc # "idle")
    /\ writer' = IdleWriter /\ cleanup' = FALSE
    /\ disturbed' = IF writer.pc # "idle" THEN "crash" ELSE disturbed
    /\ UNCHANGED <<slots, drainVars, ringVars, error_rate, untracked, last_sample, events>>

WriterStep == Probe \/ Insert \/ Match \/ Emitted \/ Bump \/ push_error_record

-----------------------------------------------------------------------------
(* The drain interval: drain_coalesce_table, then the error ring, then a   *)
(* synthetic record for every count whose sample was not in the ring       *)

DrainStart ==
    /\ drain.pc = "idle"
    /\ drain' = [pc |-> "filter", i |-> 0]
    /\ counts' = << >>
    /\ RaceIf(writer.pc # "idle")
    /\ UNCHANGED <<table, writerVars, ringVars, reported, orphaned>>

Advance == IF drain.i + 1 < Capacity THEN [pc |-> "filter", i |-> drain.i + 1]
                                     ELSE [pc |-> "ring", consumed |-> {}, drained |-> 0]

\* Skip a slot whose key_hash is 0.
DrainFilter ==
    /\ drain.pc = "filter"
    /\ drain' = IF slots[drain.i].key_hash = 0 THEN Advance ELSE [drain EXCEPT !.pc = "swap"]
    /\ UNCHANGED <<disturbed, table, writerVars, ringVars, counts, reported, orphaned>>

\* count.swap(0), then the loads of key_hash and severity.
DrainSwap ==
    /\ drain.pc = "swap"
    /\ SetSlot(drain.i, "count", 0)
    /\ drain' = [pc |-> "load", i |-> drain.i, count |-> slots[drain.i].count]
    /\ UNCHANGED <<disturbed, cleanup, writerVars, ringVars, counts, reported, orphaned>>

DrainLoad ==
    /\ drain.pc = "load"
    /\ drain' = [pc |-> "evict_key", i |-> drain.i, count |-> drain.count,
                 key_hash |-> slots[drain.i].key_hash, severity |-> slots[drain.i].severity]
    /\ UNCHANGED <<disturbed, table, writerVars, ringVars, counts, reported, orphaned>>

\* Mutant of DrainEvict: the count is collected and reset, the key stays.
DrainKeepsKey ==
    /\ drain.pc = "evict_key"
    /\ SetSlot(drain.i, "sample_emitted", FALSE)
    /\ drain' = Advance
    /\ UNCHANGED <<disturbed, cleanup, writerVars, ringVars, counts, reported, orphaned>>

\* Evict: key_hash, severity and sample_emitted are three stores; a count above
\* zero is collected.
DrainEvict ==
    /\ \/ /\ drain.pc = "evict_key"
          /\ SetSlot(drain.i, "key_hash", 0)
          /\ drain' = [drain EXCEPT !.pc = "evict_severity"]
          /\ UNCHANGED counts
       \/ /\ drain.pc = "evict_severity"
          /\ SetSlot(drain.i, "severity", 0)
          /\ drain' = [drain EXCEPT !.pc = "evict_sample"]
          /\ UNCHANGED counts
       \/ /\ drain.pc = "evict_sample"
          /\ SetSlot(drain.i, "sample_emitted", FALSE)
          /\ drain' = Advance
          /\ counts' = IF drain.count > 0
                       THEN Append(counts, <<drain.key_hash, drain.severity, drain.count>>)
                       ELSE counts
    /\ UNCHANGED <<disturbed, cleanup, writerVars, ringVars, reported, orphaned>>

\* counts_map: the last count collected for a hash, 0 if there is none.
CountFor(hash) ==
    LET found == {k \in DOMAIN counts : counts[k][1] = hash}
    IN  IF found = {} THEN 0 ELSE counts[Max(found)][3]

\* Pop one record.  A tracked sample is sent with the count of its template;
\* a count of 0 or 1 is not attached and the record stands for itself.
DrainRing ==
    /\ drain.pc = "ring" /\ drain.drained < ErrorDrainCap /\ ring # << >>
    /\ ring' = Tail(ring)
    /\ LET hash == Head(ring).hash
           occurrences == IF hash # 0 /\ CountFor(hash) > 1 THEN CountFor(hash) ELSE 1
       IN  /\ reported' = [reported EXCEPT ![hash] = @ + occurrences]
           /\ drain' = [drain EXCEPT !.drained = @ + 1, !.consumed = @ \union ({hash} \ {0})]
    /\ UNCHANGED <<disturbed, table, writerVars, counts, orphaned, ring_dropped>>

\* The ring is empty or the cap is reached: send the orphans, end the interval.
DrainOrphans ==
    /\ drain.pc = "ring" /\ (ring = << >> \/ drain.drained >= ErrorDrainCap)
    /\ LET orphans(hash) == {k \in DOMAIN counts : counts[k][1] = hash /\ hash \notin drain.consumed}
           total(hash) == MapThenSumSet(LAMBDA k : counts[k][3], orphans(hash))
       IN  /\ reported' = [hash \in Hashes |-> reported[hash] + total(hash)]
           /\ orphaned' = [hash \in Hashes |-> orphaned[hash] + total(hash)]
    /\ counts' = << >>
    /\ drain' = IdleDrain
    /\ UNCHANGED <<disturbed, table, writerVars, ringVars>>

DrainStep == \/ DrainFilter \/ DrainSwap \/ DrainLoad \/ DrainEvict \/ DrainRing \/ DrainOrphans

Init ==
    /\ slots = [i \in Slots |-> EmptySlot]
    /\ ring = << >> /\ ring_dropped = Zero(Hashes)
    /\ writer = IdleWriter /\ cleanup = FALSE
    /\ error_rate = Zero(Messages) /\ untracked = Zero(Messages) /\ events = 0
    /\ last_sample = [i \in Slots |-> << >>]
    /\ drain = IdleDrain /\ counts = << >> /\ disturbed = "no"
    /\ reported = Zero(Hashes) /\ orphaned = Zero(Hashes)

Next == \/ \E m \in Messages : Log(m)
        \/ set_cleanup_flag \/ WorkerRestarts
        \/ WriterStep
        \/ DrainStart \/ DrainStep

Spec == Init /\ [][Next]_vars

\* The worker alone is scheduled: the exporter may be stopped for good.
FairSpec == Spec /\ WF_vars(WriterStep)

\* The exporter runs: its timer starts an interval and an interval runs on.
ExporterRuns == WF_vars(DrainStart \/ DrainStep)

-----------------------------------------------------------------------------
(* Properties                                                              *)

\* Type invariant: slot fields, ring records and both program counters stay
\* in their ranges, and nothing is counted that was never logged.
TypeOK ==
    /\ slots \in [Slots -> [key_hash : Hashes, severity : 0..8,
                            count : 0..MaxEvents, sample_emitted : BOOLEAN]]
    /\ ring \in Seq([hash : Hashes, msg : Messages]) /\ Len(ring) <= RingCap
    /\ writer.pc \in {"idle", "probe", "insert_key", "insert_severity", "insert_count",
                      "insert_sample", "match", "emitted?", "suppress", "resample", "push"}
    /\ writer.pc \notin {"idle", "push"} => writer.probe \in Slots /\ writer.probes \in Slots
    /\ drain.pc \in {"idle", "filter", "swap", "load", "evict_key", "evict_severity",
                     "evict_sample", "ring"}
    /\ drain.pc \notin {"idle", "ring"} => drain.i \in Slots
    /\ cleanup \in BOOLEAN /\ events \in 0..MaxEvents
    /\ disturbed \in {"no", "race", "crash"}
    /\ DOMAIN ring_dropped = Hashes /\ DOMAIN last_sample = Slots

\* A line of m is tracked in the table (severity below crit, coalescing on).
Tracked(m) == CoalesceEnabled /\ Level[m] > HIGH_SEVERITY_THRESHOLD
Like(m) == {n \in Messages : Template(n) = Template(m)}
TotalOf(f, S) == MapThenSumSet(LAMBDA x : f[x], S)

\* The occurrences of a template that the table still holds.
TableCount(hash) ==
    MapThenSumSet(LAMBDA i : slots[i].count, {i \in Slots : slots[i].key_hash = hash})
Logged(m) == TotalOf(error_rate, Like(m)) - TotalOf(untracked, Like(m))
Quiet == writer.pc = "idle" /\ drain.pc = "idle"

\* coalesce() and collect_log_records: between calls and intervals, every
\* occurrence of a message that was given a slot, whichever connection it names
\* and whatever context follows it, has, unless a drain overlapped a call or the
\* worker died inside one, either been reported to the backend, in the count of
\* its sample or in a synthetic record when the ring refused the sample, or is
\* still counted in the table.  None is lost and none is reported twice, and a
\* synthetic record is sent only if the ring refused a sample of that message.
ExactCounts ==
    disturbed = "no" => \A m \in {n \in Messages : Tracked(n)} :
        /\ Quiet => Logged(m) = reported[Key[m]] + TableCount(Key[m])
        /\ orphaned[Key[m]] > 0 => ring_dropped[Key[m]] > 0

\* coalesce() suppresses a line at a slot only when the sample that set that
\* slot's flag was a sample of the same message at the same severity: whatever
\* an eviction that runs at the same time has left of the slot, and however the
\* lines differ in connection and context, no message is silenced by another
\* one's sample, as long as no worker dies between its insert and its flag.
SuppressedWasSampled ==
    [][(disturbed # "crash" /\ writer.pc = "emitted?" /\ writer'.pc = "suppress")
         => last_sample[writer.probe] = Template(writer.msg)]_vars

\* drain_coalesce_table evicts every occupied slot, half-written ones of a dead
\* worker included: while the exporter runs the table cannot fill for good.
SlotsAreFreed ==
    ExporterRuns => \A i \in Slots : slots[i].key_hash # 0 ~> slots[i].key_hash = 0

\* The log hook returns without help from any other process: the probe of a
\* full table ends even when the exporter never drains again.
WriterReturns == writer.pc # "idle" ~> writer.pc = "idle"
=============================================================================
