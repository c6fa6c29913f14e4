-------------------------- MODULE WorkerSignalRing --------------------------
(***************************************************************************)
(* The per-worker byte ring in shared memory (src/src/logs/ring.rs) that   *)
(* carries access-log, error-log and span records from an nginx worker to  *)
(* the exporter process.  The header is two offsets that only grow and a   *)
(* drop counter; the payload is Cap bytes addressed modulo Cap; a record   *)
(* is a 4-byte big-endian length followed by its bytes.                    *)
(*                                                                         *)
(* `push` and `pop_into` take no lock.  Each of their shared-memory        *)
(* accesses is a step here, so that every interleaving of a push with a    *)
(* pop is a behaviour, and a process may die between any two of them: nginx *)
(* respawns it and the replacement starts from the header in shared memory. *)
(* The Release store and Acquire load of an offset order the payload bytes *)
(* before it, so the steps are taken in program order.                     *)
(*                                                                         *)
(* ring.rs asks its callers for "one writer and one reader".  Producers    *)
(* and Consumers are the processes that have a view of this ring (an old   *)
(* and a new worker or exporter overlap at a reload); ExclusiveWriters and *)
(* ExclusiveReaders say whether that contract is kept.                     *)
(***************************************************************************)
EXTENDS Integers, Sequences

CONSTANTS Cap,               \* `cap` in the header: payload bytes, stamped before any fork
          Records,           \* the records a worker may push: sequences of bytes
          U64,               \* modulus of the 64-bit offset subtraction
          Producers,         \* worker processes that write this ring
          Consumers,         \* exporter processes that read it
          ExclusiveWriters,  \* no two pushes overlap
          ExclusiveReaders,  \* no two pops overlap
          MaxPushes,         \* bound: calls of push
          MaxDeaths          \* bound: processes killed

Byte == 0..255

ASSUME RingAssumption ==
    /\ Cap \in Nat \ {0}
    /\ Cap < 256 * 256 * 256
    /\ U64 \in Nat /\ Cap < U64
    /\ Records \subseteq Seq(Byte)
    /\ ExclusiveWriters \in BOOLEAN /\ ExclusiveReaders \in BOOLEAN
    /\ MaxPushes \in Nat /\ MaxDeaths \in Nat

VARIABLES write_offset,  \* header: bytes published so far
          read_offset,   \* header: bytes consumed so far
          dropped,       \* header: records refused because the ring was full
          payload,       \* the Cap payload bytes
          push,          \* per producer: where its push is and what it loaded
          pop,           \* per consumer: where its pop is and what it loaded
          pushed,        \* history: [start, record] of every published record
          popped,        \* history: every record a pop returned
          calls,         \* pushes begun (for MaxPushes)
          deaths         \* processes killed (for MaxDeaths)

header == <<write_offset, read_offset, dropped>>
history == <<pushed, popped>>
bounds == <<calls, deaths>>
vars == <<header, payload, push, pop, history, bounds>>

Addr == 0..(Cap - 1)

IdlePush == [pc |-> "idle", record |-> << >>, write_off |-> 0]
IdlePop == [pc |-> "idle", write_off |-> 0, read_off |-> 0, out |-> << >>]

-----------------------------------------------------------------------------
\* `write_off.wrapping_sub(read_off)` on u64.
wrapping_sub(a, b) == (a - b) % U64

\* Mutant of to_be_bytes: the host's byte order.
to_le_bytes(n) == <<n % 256, (n \div 256) % 256, (n \div 256) \div 256, 0>>

\* `(record_len as u32).to_be_bytes()` and `u32::from_be_bytes`.  The capacity
\* is 512 KiB, so the leading byte of the length of a record that fits is 0.
to_be_bytes(n) == <<0, (n \div 256) \div 256, (n \div 256) % 256, n % 256>>

from_be_bytes(b) == 256 * (256 * (256 * b[1] + b[2]) + b[3]) + b[4]

\* Mutant of write_wrap: the part past the end is not written.
write_truncated(mem, offset, data) ==
    [a \in Addr |-> IF offset % Cap <= a /\ a - (offset % Cap) < Len(data)
                    THEN data[a - (offset % Cap) + 1] ELSE mem[a]]

\* Copy data into the ring at offset: the part that fits before the end of the
\* payload, then the rest from its start.
write_wrap(mem, offset, data) ==
    LET start == offset % Cap
        end_space == Cap - start
    IN  [a \in Addr |->
            IF start <= a /\ a - start < Len(data) THEN data[a - start + 1]
            ELSE IF end_space + a < Len(data) THEN data[end_space + a + 1]
            ELSE mem[a]]

\* The n bytes of the ring at offset, in the same two parts.
read_wrap(mem, offset, n) ==
    LET start == offset % Cap
        end_space == Cap - start
    IN  [i \in 1..n |-> IF i <= end_space THEN mem[start + i - 1]
                                          ELSE mem[i - end_space - 1]]

-----------------------------------------------------------------------------
(* push: the producer, a worker                                            *)

\* The contract of ring.rs ("only one writer ... may operate concurrently").
MayPush(p) == ExclusiveWriters => \A q \in Producers : push[q].pc = "idle"

\* push is called: load write_offset (Relaxed).
PushStart(p) ==
    /\ push[p].pc = "idle"
    /\ MayPush(p)
    /\ calls < MaxPushes
    /\ \E record \in Records :
         push' = [push EXCEPT ![p] = [pc |-> "check", record |-> record,
                                      write_off |-> write_offset]]
    /\ calls' = calls + 1
    /\ UNCHANGED <<header, payload, pop, history, deaths>>

\* Mutants of PushCheck: the prefix is left out of the total, or a record that
\* fits exactly is refused.
PushCheckAs(p, total, limit) ==
    /\ push[p].pc = "check"
    /\ LET used == wrapping_sub(push[p].write_off, read_offset)
       IN  \/ /\ used + total > limit
              /\ dropped' = dropped + 1
              /\ push' = [push EXCEPT ![p] = IdlePush]
           \/ /\ used + total <= limit
              /\ push' = [push EXCEPT ![p].pc = "prefix"]
              /\ UNCHANGED dropped
    /\ UNCHANGED <<write_offset, read_offset, payload, pop, history, bounds>>
PushCheckNoPrefix(p) == PushCheckAs(p, Len(push[p].record), Cap)
PushCheckStrict(p) == PushCheckAs(p, 4 + Len(push[p].record), Cap - 1)

\* Load read_offset (Acquire); a record that does not fit is counted and lost.
PushCheck(p) ==
    /\ push[p].pc = "check"
    /\ LET used == wrapping_sub(push[p].write_off, read_offset)
           total == 4 + Len(push[p].record)
       IN  \/ /\ used + total > Cap
              /\ dropped' = dropped + 1
              /\ push' = [push EXCEPT ![p] = IdlePush]
           \/ /\ used + total <= Cap
              /\ push' = [push EXCEPT ![p].pc = "prefix"]
              /\ UNCHANGED dropped
    /\ UNCHANGED <<write_offset, read_offset, payload, pop, history, bounds>>

\* write_wrap of the length prefix.
PushPrefix(p) ==
    /\ push[p].pc = "prefix"
    /\ payload' = write_wrap(payload, push[p].write_off,
                             to_be_bytes(Len(push[p].record)))
    /\ push' = [push EXCEPT ![p].pc = "body"]
    /\ UNCHANGED <<header, pop, history, bounds>>

\* write_wrap of the record.
PushBody(p) ==
    /\ push[p].pc = "body"
    /\ payload' = write_wrap(payload, push[p].write_off + 4, push[p].record)
    /\ push' = [push EXCEPT ![p].pc = "publish"]
    /\ UNCHANGED <<header, pop, history, bounds>>

\* Store write_offset (Release) and return true.
PushPublish(p) ==
    /\ push[p].pc = "publish"
    /\ write_offset' = push[p].write_off + 4 + Len(push[p].record)
    /\ pushed' = Append(pushed, [start |-> push[p].write_off, record |-> push[p].record])
    /\ push' = [push EXCEPT ![p] = IdlePush]
    /\ UNCHANGED <<read_offset, dropped, payload, pop, popped, bounds>>

-----------------------------------------------------------------------------
(* pop_into: the consumer, the exporter                                    *)

MayPop(c) == ExclusiveReaders => \A d \in Consumers : pop[d].pc = "idle"

\* pop_into is called: load write_offset (Acquire).
PopStart(c) ==
    /\ pop[c].pc = "idle"
    /\ MayPop(c)
    /\ pop' = [pop EXCEPT ![c].pc = "check", ![c].write_off = write_offset]
    /\ UNCHANGED <<header, payload, push, history, bounds>>

Available(c) == wrapping_sub(pop[c].write_off, pop[c].read_off)

\* Load read_offset (Relaxed); with no room for a prefix the ring is empty.
PopCheck(c) ==
    /\ pop[c].pc = "check"
    /\ IF wrapping_sub(pop[c].write_off, read_offset) < 4
       THEN pop' = [pop EXCEPT ![c] = IdlePop]
       ELSE pop' = [pop EXCEPT ![c].pc = "length", ![c].read_off = read_offset]
    /\ UNCHANGED <<header, payload, push, history, bounds>>

\* Read the length prefix; return if the record is not all there.  `out` is
\* resized to the record, its bytes still zero.
PopLength(c) ==
    /\ pop[c].pc = "length"
    /\ LET record_len == from_be_bytes(read_wrap(payload, pop[c].read_off, 4))
       IN  IF Available(c) < 4 + record_len
           THEN pop' = [pop EXCEPT ![c] = IdlePop]
           ELSE pop' = [pop EXCEPT ![c].pc = "copy", ![c].out = [i \in 1..record_len |-> 0]]
    /\ UNCHANGED <<header, payload, push, history, bounds>>

\* read_wrap of the record.
PopCopy(c) ==
    /\ pop[c].pc = "copy"
    /\ pop' = [pop EXCEPT ![c].pc = "advance",
                          ![c].out = read_wrap(payload, pop[c].read_off + 4, Len(pop[c].out))]
    /\ UNCHANGED <<header, payload, push, history, bounds>>

\* Mutant of PopAdvance: the prefix is not skipped.
PopAdvanceNoPrefix(c) ==
    /\ pop[c].pc = "advance"
    /\ read_offset' = pop[c].read_off + Len(pop[c].out)
    /\ popped' = Append(popped, pop[c].out)
    /\ pop' = [pop EXCEPT ![c] = IdlePop]
    /\ UNCHANGED <<write_offset, dropped, payload, push, pushed, bounds>>

\* Store read_offset (Release) and return true: the bytes belong to the producer again.
PopAdvance(c) ==
    /\ pop[c].pc = "advance"
    /\ read_offset' = pop[c].read_off + 4 + Len(pop[c].out)
    /\ popped' = Append(popped, pop[c].out)
    /\ pop' = [pop EXCEPT ![c] = IdlePop]
    /\ UNCHANGED <<write_offset, dropped, payload, push, pushed, bounds>>

-----------------------------------------------------------------------------
(* A process dies inside push or pop_into; what it had loaded is gone, the *)
(* header and the payload stay as they are.                                *)

WorkerDies(p) ==
    /\ push[p].pc # "idle"
    /\ deaths < MaxDeaths
    /\ push' = [push EXCEPT ![p] = IdlePush]
    /\ deaths' = deaths + 1
    /\ UNCHANGED <<header, payload, pop, history, calls>>

ExporterDies(c) ==
    /\ pop[c].pc # "idle"
    /\ deaths < MaxDeaths
    /\ pop' = [pop EXCEPT ![c] = IdlePop]
    /\ deaths' = deaths + 1
    /\ UNCHANGED <<header, payload, push, history, calls>>

Push(p) == PushStart(p) \/ PushCheck(p) \/ PushPrefix(p) \/ PushBody(p) \/ PushPublish(p)
Pop(c) == PopStart(c) \/ PopCheck(c) \/ PopLength(c) \/ PopCopy(c) \/ PopAdvance(c)

\* A fresh zone: the slot is zeroed and cap is stamped in the header.
Init ==
    /\ write_offset = 0 /\ read_offset = 0 /\ dropped = 0
    /\ payload = [a \in Addr |-> 0]
    /\ push = [p \in Producers |-> IdlePush]
    /\ pop = [c \in Consumers |-> IdlePop]
    /\ pushed = << >> /\ popped = << >>
    /\ calls = 0 /\ deaths = 0

Next ==
    \/ \E p \in Producers : Push(p) \/ WorkerDies(p)
    \/ \E c \in Consumers : Pop(c) \/ ExporterDies(c)

Spec == Init /\ [][Next]_vars

\* The exporter keeps polling the ring, and a worker inside push runs on.
FairSpec == /\ Spec
            /\ WF_vars(\E c \in Consumers : Pop(c))
            /\ \A p \in Producers : WF_vars(Push(p))

-----------------------------------------------------------------------------
(* Properties                                                              *)

PushCall == [pc : {"idle", "check", "prefix", "body", "publish"},
             record : Records \union {<< >>}, write_off : Nat]
PopCall == [pc : {"idle", "check", "length", "copy", "advance"},
            write_off : Nat, read_off : Nat, out : Seq(Byte)]

\* The offsets and the drop counter are counts of bytes and records, the
\* payload is Cap bytes, and every call is at one of its steps.
TypeOK ==
    /\ write_offset \in Nat /\ read_offset \in Nat /\ dropped \in Nat
    /\ payload \in [Addr -> Byte]
    /\ push \in [Producers -> PushCall]
    /\ pop \in [Consumers -> PopCall]
    /\ pushed \in Seq([start : Nat, record : Records])
    /\ popped \in Seq(Seq(Byte))
    /\ calls \in Nat /\ deaths \in Nat

\* What the exporter pops is what the workers pushed: every record whole, in
\* order, none twice and none skipped, whichever of the processes died inside
\* push or pop_into and wherever the payload wrapped.
DeliveredInOrder ==
    /\ Len(popped) <= Len(pushed)
    /\ \A k \in 1..Len(popped) : popped[k] = pushed[k].record

\* The payload addresses of n bytes at offset.
Region(offset, n) == {x % Cap : x \in offset..(offset + n - 1)}

\* The bytes a push writes are never bytes that are published and unread: no
\* byte a pop is copying changes under it, although push and pop_into share no
\* lock and push decides from a read_offset it loaded earlier.
NoOverlap ==
    \A p \in Producers : push[p].pc \in {"prefix", "body", "publish"} =>
        Region(push[p].write_off, 4 + Len(push[p].record))
            \cap Region(read_offset, write_offset - read_offset) = {}

\* The ring is a bounded FIFO of records that discards the newest when full:
\* a push takes effect when write_offset is stored, a pop when read_offset is.
UnreadRecords == [k \in 1..(Len(pushed) - Len(popped)) |-> pushed[Len(popped) + k].record]
Queue == INSTANCE RecordQueue
            WITH queue <- UnreadRecords,
                 bytes <- write_offset - read_offset
ImplementsQueue == Queue!QueueSpec

\* Every published record reaches the exporter as long as it keeps polling,
\* even when exporters die in the middle of a pop.
EveryRecordDrained ==
    \A k \in 1..MaxPushes : Len(pushed) >= k ~> Len(popped) >= k

-----------------------------------------------------------------------------
(* The inductive invariant behind DeliveredInOrder and NoOverlap           *)

\* The stream offset of the k-th published record, and of the next one.
StartOf(k) == IF k <= Len(pushed) THEN pushed[k].start ELSE write_offset

\* A push or a pop is under way in at most one process.
OneOfEach ==
    /\ \A p, q \in Producers : push[p].pc # "idle" /\ push[q].pc # "idle" => p = q
    /\ \A c, d \in Consumers : pop[c].pc # "idle" /\ pop[d].pc # "idle" => c = d

\* Records tile the byte stream; read_offset is the start of the first one not
\* yet popped, and at most Cap bytes are unread.
Framing ==
    /\ \A k \in 1..Len(pushed) : StartOf(k + 1) = StartOf(k) + 4 + Len(pushed[k].record)
    /\ \A j, k \in 1..(Len(pushed) + 1) : j <= k => StartOf(j) <= StartOf(k)
    /\ read_offset = StartOf(Len(popped) + 1)
    /\ write_offset - read_offset <= Cap

PrefixAt(offset, record) == read_wrap(payload, offset, 4) = to_be_bytes(Len(record))
BodyAt(offset, record) == read_wrap(payload, offset + 4, Len(record)) = record

\* Every unread record is in the payload, prefix and body.
UnreadStored ==
    \A k \in (Len(popped) + 1)..Len(pushed) :
        /\ PrefixAt(pushed[k].start, pushed[k].record)
        /\ BodyAt(pushed[k].start, pushed[k].record)

\* A push has the current write_offset, room for its record once it has
\* checked, and has stored what its program counter says.
PushOK(p) ==
    /\ push[p].record \in Records
    /\ push[p].write_off = write_offset
    /\ push[p].pc # "check" =>
         (write_offset - read_offset) + 4 + Len(push[p].record) <= Cap
    /\ push[p].pc \in {"body", "publish"} => PrefixAt(write_offset, push[p].record)
    /\ push[p].pc = "publish" => BodyAt(write_offset, push[p].record)

PushInFlight == \A p \in Producers : push[p].pc # "idle" => PushOK(p)

\* A pop past its check holds the current read_offset, and there is an unread
\* record there whose length and bytes it has read.
PopOK(c) ==
    /\ read_offset <= pop[c].write_off /\ pop[c].write_off <= write_offset
    /\ pop[c].pc # "check" =>
         /\ pop[c].read_off = read_offset
         /\ Len(popped) < Len(pushed)
    /\ pop[c].pc = "copy" => Len(pop[c].out) = Len(pushed[Len(popped) + 1].record)
    /\ pop[c].pc = "advance" => pop[c].out = pushed[Len(popped) + 1].record

PopInFlight == \A c \in Consumers : pop[c].pc # "idle" => PopOK(c)

\* Together: what the code relies on between any two of its memory accesses.
RingInv == /\ TypeOK
           /\ DeliveredInOrder
           /\ OneOfEach
           /\ Framing
           /\ UnreadStored
           /\ PushInFlight
           /\ PopInFlight
=============================================================================
