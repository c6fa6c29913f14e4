----------------------- MODULE WorkerSignalRingProofs -----------------------
(***************************************************************************)
(* Proofs about the ring for every capacity, every set of records and any  *)
(* number of worker and exporter processes that share it, as long as no    *)
(* two pushes and no two pops overlap.                                     *)
(***************************************************************************)
EXTENDS WorkerSignalRing, TLAPS

-----------------------------------------------------------------------------
(* Arithmetic modulo Cap                                                   *)

\* Quotient and remainder of an offset by the capacity.
LEMMA DivMod ==
    ASSUME NEW x \in Nat
    PROVE  /\ x \div Cap \in Nat
           /\ x = Cap * (x \div Cap) + (x % Cap)
           /\ x % Cap \in 0..(Cap - 1)
BY RingAssumption

\* A remainder is determined by any decomposition of the offset.
LEMMA ModUnique ==
    ASSUME NEW x \in Int, NEW q \in Int, NEW r \in Addr, x = Cap * q + r
    PROVE  x % Cap = r
BY RingAssumption DEF Addr

\* Moving an offset forward by at most Cap bytes moves its address forward,
\* or wraps it once.
LEMMA ModAdd ==
    ASSUME NEW x \in Nat, NEW d \in Nat, d <= Cap
    PROVE  (x + d) % Cap = IF (x % Cap) + d < Cap THEN (x % Cap) + d
                                                  ELSE (x % Cap) + d - Cap
<1> DEFINE q == x \div Cap
           r == x % Cap
<1>1. q \in Nat /\ x = Cap * q + r /\ r \in 0..(Cap - 1)
    BY DivMod
<1>2. Cap \in Nat \ {0}
    BY RingAssumption
<1> HIDE DEF q, r
<1>3. CASE r + d < Cap
    <2>1. x + d = Cap * q + (r + d)
        BY <1>1, <1>2
    <2>2. r + d \in Addr
        BY <1>1, <1>2, <1>3 DEF Addr
    <2>3. (x + d) % Cap = r + d
        BY <2>1, <2>2, <1>1, ModUnique
    <2> QED BY <2>3, <1>3 DEF r
<1>4. CASE ~(r + d < Cap)
    <2>1. x + d = Cap * (q + 1) + (r + d - Cap)
        BY <1>1, <1>2
    <2>2. r + d - Cap \in Addr
        BY <1>1, <1>2, <1>4 DEF Addr
    <2>3. (x + d) % Cap = r + d - Cap
        BY <2>1, <2>2, <1>1, ModUnique
    <2> QED BY <2>3, <1>4 DEF r
<1> QED BY <1>3, <1>4

\* The 64-bit difference of two offsets at most Cap apart is their difference.
LEMMA SubSmall ==
    ASSUME NEW x \in Nat, NEW y \in Nat, y <= x, x - y <= Cap
    PROVE  wrapping_sub(x, y) = x - y
BY RingAssumption DEF wrapping_sub

\* Decoding the prefix of a record that fits gives its length.
LEMMA BigEndian ==
    ASSUME NEW n \in Nat, n < 256 * 256 * 256
    PROVE  /\ from_be_bytes(to_be_bytes(n)) = n
           /\ to_be_bytes(n) \in Seq(Byte)
           /\ Len(to_be_bytes(n)) = 4
BY DEF from_be_bytes, to_be_bytes, Byte

-----------------------------------------------------------------------------
(* The two-part copies                                                     *)

\* read_wrap returns n bytes.
LEMMA ReadType ==
    ASSUME NEW mem \in [Addr -> Byte], NEW o \in Nat, NEW n \in Nat, n <= Cap
    PROVE  /\ read_wrap(mem, o, n) \in Seq(Byte)
           /\ Len(read_wrap(mem, o, n)) = n
<1>1. Cap \in Nat \ {0} /\ o % Cap \in 0..(Cap - 1)
    BY DivMod, RingAssumption
<1>2. read_wrap(mem, o, n) \in [1..n -> Byte]
    BY <1>1 DEF read_wrap, Addr
<1>3. read_wrap(mem, o, n) \in Seq(Byte)
    BY <1>2
<1> QED BY <1>2, <1>3

\* write_wrap leaves a payload of Cap bytes.
LEMMA WriteType ==
    ASSUME NEW mem \in [Addr -> Byte], NEW o \in Nat, NEW data \in Seq(Byte)
    PROVE  write_wrap(mem, o, data) \in [Addr -> Byte]
<1>1. Cap \in Nat \ {0} /\ o % Cap \in 0..(Cap - 1)
    BY DivMod, RingAssumption
<1>2. \A i \in 1..Len(data) : data[i] \in Byte
    OBVIOUS
<1>3. Len(data) \in Nat
    OBVIOUS
<1> QED BY <1>1, <1>2, <1>3 DEF write_wrap, Addr

\* Reading back what was just written returns it, wrapped or not.
LEMMA ReadWritten ==
    ASSUME NEW mem \in [Addr -> Byte], NEW o \in Nat, NEW data \in Seq(Byte),
           Len(data) <= Cap
    PROVE  read_wrap(write_wrap(mem, o, data), o, Len(data)) = data
<1> DEFINE start == o % Cap
           n == Len(data)
           new == write_wrap(mem, o, data)
<1>1. Cap \in Nat \ {0} /\ start \in 0..(Cap - 1) /\ n \in Nat
    <2>1. n \in Nat
        OBVIOUS
    <2> HIDE DEF n
    <2> QED BY <2>1, DivMod, RingAssumption
<1>2. \A a \in Addr : new[a] =
            IF start <= a /\ a - start < n THEN data[a - start + 1]
            ELSE IF (Cap - start) + a < n THEN data[(Cap - start) + a + 1]
            ELSE mem[a]
    BY DEF write_wrap
<1>3. read_wrap(new, o, n) =
            [i \in 1..n |-> IF i <= Cap - start THEN new[start + i - 1]
                                                ELSE new[i - (Cap - start) - 1]]
    BY DEF read_wrap
<1> HIDE DEF start, n, new
<1>4. ASSUME NEW i \in 1..n
      PROVE  read_wrap(new, o, n)[i] = data[i]
    <2>1. CASE i <= Cap - start
        <3>1. start + i - 1 \in Addr
            BY <1>1, <2>1 DEF Addr
        <3>2. new[start + i - 1] = data[i]
            BY <1>1, <1>2, <3>1
        <3> QED BY <1>3, <2>1, <3>2
    <2>2. CASE ~(i <= Cap - start)
        <3> DEFINE a == i - (Cap - start) - 1
        <3>1. a \in Addr /\ ~(start <= a) /\ (Cap - start) + a < n
            BY <1>1, <2>2, Len(data) <= Cap DEF Addr, n
        <3>2. (Cap - start) + a + 1 = i
            BY <1>1
        <3>3. new[a] = data[i]
            BY <1>2, <3>1, <3>2
        <3> QED BY <1>3, <2>2, <3>3
    <2> QED BY <2>1, <2>2
<1>5. data = [i \in 1..n |-> data[i]]
    BY DEF n
<1>6. read_wrap(new, o, n) = [i \in 1..n |-> data[i]]
    BY <1>3, <1>4
<1> QED BY <1>5, <1>6 DEF new, n

\* A write does not change bytes that lie before it and less than Cap away
\* from its end.
LEMMA ReadKept ==
    ASSUME NEW mem \in [Addr -> Byte], NEW o \in Nat, NEW n \in Nat,
           NEW w \in Nat, NEW data \in Seq(Byte),
           o + n <= w, w + Len(data) <= o + Cap
    PROVE  read_wrap(write_wrap(mem, w, data), o, n) = read_wrap(mem, o, n)
<1> DEFINE s == o % Cap
           t == w % Cap
           d == w - o
           m == Len(data)
           new == write_wrap(mem, w, data)
<1>1. /\ Cap \in Nat \ {0} /\ s \in 0..(Cap - 1)
      /\ m \in Nat /\ d \in Nat /\ n <= d /\ d + m <= Cap
    <2>1. Cap \in Nat \ {0} /\ s \in 0..(Cap - 1)
        BY DivMod, RingAssumption
    <2>2. m \in Nat
        OBVIOUS
    <2> HIDE DEF s
    <2> QED BY <2>1, <2>2
<1>2. t = IF s + d < Cap THEN s + d ELSE s + d - Cap
    <2>1. w = o + d
        OBVIOUS
    <2>2. d \in Nat /\ d <= Cap
        BY <1>1
    <2> HIDE DEF d
    <2> QED BY <2>1, <2>2, ModAdd
<1>3. \A a \in Addr : new[a] =
            IF t <= a /\ a - t < m THEN data[a - t + 1]
            ELSE IF (Cap - t) + a < m THEN data[(Cap - t) + a + 1]
            ELSE mem[a]
    BY DEF write_wrap
<1>4. \A f : read_wrap(f, o, n) =
            [i \in 1..n |-> IF i <= Cap - s THEN f[s + i - 1]
                                            ELSE f[i - (Cap - s) - 1]]
    BY DEF read_wrap
<1> HIDE DEF s, t, d, m, new
<1>5. ASSUME NEW i \in 1..n, i <= Cap - s
      PROVE  new[s + i - 1] = mem[s + i - 1]
    <2>1. s + i - 1 \in Addr
        BY <1>1, <1>5 DEF Addr
    <2>2. ~(t <= s + i - 1 /\ (s + i - 1) - t < m) /\ ~((Cap - t) + (s + i - 1) < m)
        BY <1>1, <1>2, <1>5
    <2> QED BY <1>3, <2>1, <2>2
<1>6. ASSUME NEW i \in 1..n, ~(i <= Cap - s)
      PROVE  new[i - (Cap - s) - 1] = mem[i - (Cap - s) - 1]
    <2> DEFINE a == i - (Cap - s) - 1
    <2>1. a \in Addr
        BY <1>1, <1>6 DEF Addr
    <2>2. ~(t <= a /\ a - t < m) /\ ~((Cap - t) + a < m)
        BY <1>1, <1>2, <1>6
    <2> QED BY <1>3, <2>1, <2>2
<1>7. read_wrap(new, o, n) = read_wrap(mem, o, n)
    BY <1>4, <1>5, <1>6
<1> QED BY <1>7 DEF new

-----------------------------------------------------------------------------
(* The invariant is inductive when pushes exclude each other and pops do.  *)

Contract == ExclusiveWriters /\ ExclusiveReaders

\* A fresh zone satisfies the invariant.
LEMMA InitInv == Init => RingInv
<1> SUFFICES ASSUME Init PROVE RingInv
    OBVIOUS
<1>1. TypeOK
    BY RingAssumption DEF Init, TypeOK, IdlePush, IdlePop, PushCall, PopCall, Byte
<1>2. DeliveredInOrder
    BY DEF Init, DeliveredInOrder
<1>3. OneOfEach
    BY DEF Init, OneOfEach, IdlePush, IdlePop
<1>4. Framing
    BY RingAssumption DEF Init, Framing, StartOf
<1>5. UnreadStored
    BY DEF Init, UnreadStored
<1>6. PushInFlight /\ PopInFlight
    BY DEF Init, PushInFlight, PopInFlight, IdlePush, IdlePop
<1> QED BY <1>1, <1>2, <1>3, <1>4, <1>5, <1>6 DEF RingInv

\* A record is a sequence of bytes.
LEMMA RecordType ==
    ASSUME NEW record \in Records \union {<< >>}
    PROVE  record \in Seq(Byte) /\ Len(record) \in Nat
<1>1. << >> \in Seq(Byte)
    OBVIOUS
<1>2. record \in Seq(Byte)
    BY <1>1, RingAssumption
<1> QED BY <1>2

\* An element of a sequence over S is in S.
LEMMA SeqElement ==
    ASSUME NEW S, NEW s \in Seq(S), NEW k \in 1..Len(s)
    PROVE  s[k] \in S
OBVIOUS

\* The steps of a call keep the shape of its local state.
LEMMA PushCallType ==
    /\ IdlePush \in PushCall
    /\ \A x \in PushCall : \A s \in {"prefix", "body", "publish"} :
          [x EXCEPT !.pc = s] \in PushCall
<1>1. IdlePush \in PushCall
    BY DEF IdlePush, PushCall
<1>2. ASSUME NEW x \in PushCall, NEW s \in {"prefix", "body", "publish"}
      PROVE  [x EXCEPT !.pc = s] \in PushCall
    BY DEF PushCall
<1> QED BY <1>1, <1>2

\* A pop that is not under way has the type of a pop.
LEMMA PopCallType == IdlePop \in PopCall
<1>1. << >> \in Seq(Byte)
    OBVIOUS
<1> QED BY <1>1 DEF IdlePop, PopCall

\* The offsets are ordered and at most Cap apart.
LEMMA OffsetFacts ==
    ASSUME RingInv
    PROVE  /\ write_offset \in Nat /\ read_offset \in Nat
           /\ Len(pushed) \in Nat /\ Len(popped) \in Nat /\ Len(popped) <= Len(pushed)
           /\ read_offset <= write_offset /\ write_offset - read_offset <= Cap
<1>1. /\ write_offset \in Nat /\ read_offset \in Nat
      /\ Len(pushed) \in Nat /\ Len(popped) \in Nat /\ Len(popped) <= Len(pushed)
    BY DEF RingInv, TypeOK, DeliveredInOrder
<1>2. read_offset = StartOf(Len(popped) + 1)
    BY DEF RingInv, Framing
<1>3. write_offset = StartOf(Len(pushed) + 1)
    BY <1>1 DEF StartOf
<1>4. StartOf(Len(popped) + 1) <= StartOf(Len(pushed) + 1)
    <2>1. \A j, k \in 1..(Len(pushed) + 1) : j <= k => StartOf(j) <= StartOf(k)
        BY DEF RingInv, Framing
    <2>2. /\ Len(popped) + 1 \in 1..(Len(pushed) + 1)
          /\ Len(pushed) + 1 \in 1..(Len(pushed) + 1)
          /\ Len(popped) + 1 <= Len(pushed) + 1
        BY <1>1
    <2> QED BY <2>1, <2>2
<1> QED BY <1>1, <1>2, <1>3, <1>4 DEF RingInv, Framing

\* The parts of the invariant that mention neither push nor pop.
LEMMA StreamUnchanged ==
    ASSUME RingInv, UNCHANGED <<write_offset, read_offset, payload, pushed, popped>>
    PROVE  DeliveredInOrder' /\ Framing' /\ UnreadStored'
BY DEF RingInv, DeliveredInOrder, Framing, UnreadStored, StartOf, PrefixAt, BodyAt, read_wrap

\* A step that leaves the header's write side, the payload and the pushes alone
\* keeps what is known of the push in flight.
LEMMA PushUnchanged ==
    ASSUME RingInv, UNCHANGED <<write_offset, read_offset, payload, push>>
    PROVE  PushInFlight'
BY DEF RingInv, PushInFlight, PushOK, PrefixAt, BodyAt, read_wrap

\* Likewise for the pop in flight.
LEMMA PopUnchanged ==
    ASSUME RingInv, UNCHANGED <<write_offset, read_offset, pushed, popped, pop>>
    PROVE  PopInFlight'
BY DEF RingInv, PopInFlight, PopOK

\* push is entered (write_offset loaded): RingInv is kept.
LEMMA PushStartInv ==
    ASSUME RingInv, Contract, NEW p \in Producers, PushStart(p)
    PROVE  RingInv'
<1>1. TypeOK'
    BY DEF RingInv, TypeOK, PushStart, header, history, PushCall
<1>2. DeliveredInOrder' /\ Framing' /\ UnreadStored'
    BY StreamUnchanged DEF PushStart, header, history
<1>3. OneOfEach'
    BY DEF RingInv, TypeOK, OneOfEach, PushStart, MayPush, Contract
<1>4. PushInFlight'
    <2> SUFFICES ASSUME NEW q \in Producers, push'[q].pc # "idle" PROVE PushOK(q)'
        BY DEF PushInFlight
    <2>1. q = p
        BY DEF RingInv, TypeOK, PushStart, MayPush, Contract
    <2>2. push'[p].pc = "check" /\ push'[p].record \in Records
        BY DEF RingInv, TypeOK, PushStart
    <2>3. push'[p].write_off = write_offset'
        BY DEF RingInv, TypeOK, PushStart, header
    <2> QED BY <2>1, <2>2, <2>3 DEF PushOK
<1>5. PopInFlight'
    BY PopUnchanged DEF PushStart, header, history
<1> QED BY <1>1, <1>2, <1>3, <1>4, <1>5 DEF RingInv

\* The full check of push, and the drop it may count: RingInv is kept.
LEMMA PushCheckInv ==
    ASSUME RingInv, Contract, NEW p \in Producers, PushCheck(p)
    PROVE  RingInv'
<1> DEFINE used == wrapping_sub(push[p].write_off, read_offset)
           total == 4 + Len(push[p].record)
<1>0. \/ /\ dropped' = dropped + 1
         /\ push' = [push EXCEPT ![p] = IdlePush]
      \/ /\ used + total <= Cap
         /\ push' = [push EXCEPT ![p].pc = "prefix"]
         /\ dropped' = dropped
    BY DEF PushCheck
<1>9. UNCHANGED <<write_offset, read_offset, payload, pop, pushed, popped, calls, deaths>>
    BY DEF PushCheck, history, bounds
<1> HIDE DEF used, total
<1>1. TypeOK'
    <2>1. dropped' \in Nat
        BY <1>0 DEF RingInv, TypeOK
    <2>2. push' \in [Producers -> PushCall]
        BY <1>0, PushCallType DEF RingInv, TypeOK
    <2> QED BY <1>9, <2>1, <2>2 DEF RingInv, TypeOK
<1>2. DeliveredInOrder' /\ Framing' /\ UnreadStored'
    BY StreamUnchanged DEF PushCheck, history
<1>3. OneOfEach'
    BY <1>0 DEF RingInv, TypeOK, OneOfEach, PushCheck, IdlePush
<1>4. PushInFlight'
    <2> SUFFICES ASSUME NEW q \in Producers, push'[q].pc # "idle" PROVE PushOK(q)'
        BY DEF PushInFlight
    <2>1. q = p /\ push[p].pc = "check"
        BY <1>0 DEF RingInv, TypeOK, OneOfEach, PushCheck, IdlePush
    <2>2. push' = [push EXCEPT ![p].pc = "prefix"] /\ used + total <= Cap
        BY <1>0, <2>1 DEF RingInv, TypeOK, IdlePush
    <2>3. PushOK(p)
        BY <2>1 DEF RingInv, PushInFlight
    <2>4. /\ push'[p].pc = "prefix"
          /\ push'[p].record = push[p].record
          /\ push'[p].write_off = push[p].write_off
        BY <2>2 DEF RingInv, TypeOK
    <2>5. used = write_offset - read_offset
        BY <2>3, SubSmall, OffsetFacts DEF used, PushOK
    <2>6. write_offset' = write_offset /\ read_offset' = read_offset
        BY DEF PushCheck
    <2>7. total = 4 + Len(push[p].record) /\ Len(push[p].record) \in Nat
        BY <2>3, RecordType DEF total, PushOK
    <2>8. (write_offset - read_offset) + 4 + Len(push[p].record) <= Cap
        BY <2>2, <2>5, <2>7, RingAssumption DEF RingInv, TypeOK
    <2> QED BY <2>1, <2>3, <2>4, <2>6, <2>8 DEF PushOK
<1>5. PopInFlight'
    BY PopUnchanged DEF PushCheck, history
<1> QED BY <1>1, <1>2, <1>3, <1>4, <1>5 DEF RingInv

\* An unread record lies between the two offsets.
LEMMA UnreadBounds ==
    ASSUME RingInv, NEW k \in (Len(popped) + 1)..Len(pushed)
    PROVE  /\ pushed[k].start \in Nat /\ pushed[k].record \in Records
           /\ Len(pushed[k].record) \in Nat
           /\ read_offset <= pushed[k].start
           /\ pushed[k].start + 4 + Len(pushed[k].record) <= write_offset
<1>1. k \in 1..Len(pushed) /\ Len(popped) \in Nat /\ Len(pushed) \in Nat
    BY OffsetFacts
<1>2. pushed[k].start \in Nat /\ pushed[k].record \in Records
    <2>1. pushed \in Seq([start : Nat, record : Records])
        BY DEF RingInv, TypeOK
    <2>2. pushed[k] \in [start : Nat, record : Records]
        BY <1>1, <2>1, SeqElement
    <2> QED BY <2>2
<1>3. Len(pushed[k].record) \in Nat
    BY <1>2, RecordType
<1>4. StartOf(k) = pushed[k].start /\ StartOf(Len(pushed) + 1) = write_offset
    BY <1>1 DEF StartOf
<1>5. \A i, j \in 1..(Len(pushed) + 1) : i <= j => StartOf(i) <= StartOf(j)
    BY DEF RingInv, Framing
<1>6. StartOf(Len(popped) + 1) <= StartOf(k) /\ StartOf(k + 1) <= StartOf(Len(pushed) + 1)
    <2>1. /\ Len(popped) + 1 \in 1..(Len(pushed) + 1) /\ k \in 1..(Len(pushed) + 1)
          /\ k + 1 \in 1..(Len(pushed) + 1) /\ Len(pushed) + 1 \in 1..(Len(pushed) + 1)
          /\ Len(popped) + 1 <= k /\ k + 1 <= Len(pushed) + 1
        BY <1>1
    <2> QED BY <1>5, <2>1
<1>7. StartOf(k + 1) = StartOf(k) + 4 + Len(pushed[k].record)
    BY <1>1 DEF RingInv, Framing
<1>8. read_offset = StartOf(Len(popped) + 1)
    BY DEF RingInv, Framing
<1> QED BY <1>2, <1>3, <1>4, <1>6, <1>7, <1>8

\* Writing past write_offset and less than Cap past read_offset touches no
\* published, unread byte.
LEMMA WriteKeepsUnread ==
    ASSUME RingInv, NEW w \in Nat, NEW data \in Seq(Byte),
           write_offset <= w, w + Len(data) <= read_offset + Cap,
           payload' = write_wrap(payload, w, data),
           UNCHANGED <<write_offset, read_offset, pushed, popped>>
    PROVE  /\ payload' \in [Addr -> Byte]
           /\ DeliveredInOrder' /\ Framing' /\ UnreadStored'
<1>1. payload \in [Addr -> Byte]
    BY DEF RingInv, TypeOK
<1>2. payload' \in [Addr -> Byte]
    BY <1>1, WriteType
<1>3. DeliveredInOrder' /\ Framing'
    BY DEF RingInv, DeliveredInOrder, Framing, StartOf
<1>4. UnreadStored'
    <2> SUFFICES ASSUME NEW k \in (Len(popped) + 1)..Len(pushed)
                 PROVE  /\ PrefixAt(pushed[k].start, pushed[k].record)'
                        /\ BodyAt(pushed[k].start, pushed[k].record)'
        BY DEF UnreadStored
    <2> DEFINE o == pushed[k].start
               n == Len(pushed[k].record)
    <2>1. /\ o \in Nat /\ n \in Nat /\ read_offset <= o
          /\ o + 4 + n <= write_offset
        BY UnreadBounds
    <2>2. PrefixAt(o, pushed[k].record) /\ BodyAt(o, pushed[k].record)
        BY DEF RingInv, UnreadStored
    <2>3. Len(data) \in Nat /\ write_offset \in Nat /\ read_offset \in Nat /\ Cap \in Nat
        BY OffsetFacts, RingAssumption
    <2> HIDE DEF o, n
    <2>4. read_wrap(payload', o, 4) = read_wrap(payload, o, 4)
        <3>1. o + 4 <= w /\ w + Len(data) <= o + Cap
            BY <2>1, <2>3
        <3> QED BY <1>1, <2>1, <3>1, ReadKept
    <2>5. read_wrap(payload', o + 4, n) = read_wrap(payload, o + 4, n)
        <3>1. (o + 4) + n <= w /\ w + Len(data) <= (o + 4) + Cap /\ o + 4 \in Nat
            BY <2>1, <2>3
        <3> QED BY <1>1, <2>1, <3>1, ReadKept
    <2> QED BY <2>2, <2>4, <2>5 DEF PrefixAt, BodyAt, o, n
<1> QED BY <1>2, <1>3, <1>4

\* Writing the length prefix leaves every unread record intact: RingInv is kept.
LEMMA PushPrefixInv ==
    ASSUME RingInv, Contract, NEW p \in Producers, PushPrefix(p)
    PROVE  RingInv'
<1> DEFINE rec == push[p].record
           data == to_be_bytes(Len(rec))
<1>0. /\ push[p].pc = "prefix" /\ payload' = write_wrap(payload, push[p].write_off, data)
      /\ push' = [push EXCEPT ![p].pc = "body"]
      /\ UNCHANGED <<write_offset, read_offset, dropped, pop, pushed, popped, calls, deaths>>
    BY DEF PushPrefix, header, history, bounds
<1>1. PushOK(p)
    BY <1>0 DEF RingInv, PushInFlight
<1>2. Len(rec) \in Nat /\ rec \in Records
    BY <1>1, RecordType DEF PushOK
<1>3. /\ push[p].write_off = write_offset
      /\ (write_offset - read_offset) + 4 + Len(rec) <= Cap
    BY <1>0, <1>1 DEF PushOK
<1> HIDE DEF rec
<1>4. data \in Seq(Byte) /\ Len(data) = 4
    BY <1>2, <1>3, BigEndian, OffsetFacts, RingAssumption
<1> HIDE DEF data
<1>5. payload' \in [Addr -> Byte] /\ DeliveredInOrder' /\ Framing' /\ UnreadStored'
    <2>1. write_offset + Len(data) <= read_offset + Cap
        BY <1>2, <1>3, <1>4, OffsetFacts, RingAssumption
    <2>2. payload' = write_wrap(payload, write_offset, data)
        BY <1>0, <1>3
    <2>3. write_offset \in Nat /\ write_offset <= write_offset
        BY OffsetFacts
    <2>4. UNCHANGED <<write_offset, read_offset, pushed, popped>>
        BY <1>0
    <2> QED BY <1>4, <2>1, <2>2, <2>3, <2>4, WriteKeepsUnread
<1>6. push' \in [Producers -> PushCall]
    BY <1>0, PushCallType DEF RingInv, TypeOK
<1>7. TypeOK'
    BY <1>0, <1>5, <1>6 DEF RingInv, TypeOK
<1>8. OneOfEach'
    BY <1>0 DEF RingInv, TypeOK, OneOfEach
<1>9. PushInFlight'
    <2> SUFFICES ASSUME NEW q \in Producers, push'[q].pc # "idle" PROVE PushOK(q)'
        BY DEF PushInFlight
    <2>1. q = p
        BY <1>0 DEF RingInv, TypeOK, OneOfEach
    <2>2. /\ push'[p].pc = "body" /\ push'[p].record = rec
          /\ push'[p].write_off = write_offset'
        BY <1>0, <1>3 DEF RingInv, TypeOK, PushCall, rec
    <2>3. PrefixAt(write_offset, rec)'
        <3>1. read_wrap(payload', write_offset, 4) = data
            <4>1. payload \in [Addr -> Byte] /\ write_offset \in Nat /\ 4 <= Cap
                BY <1>2, <1>3, OffsetFacts, RingAssumption DEF RingInv, TypeOK
            <4>2. read_wrap(write_wrap(payload, write_offset, data), write_offset, Len(data)) = data
                BY <1>4, <4>1, ReadWritten
            <4> QED BY <1>0, <1>3, <1>4, <4>2
        <3>2. read_wrap(payload', write_offset', 4) = to_be_bytes(Len(push'[p].record))
            BY <3>1, <1>0, <2>2 DEF data
        <3> QED BY <3>2, <2>2, <1>0 DEF PrefixAt, rec
    <2> QED BY <2>1, <2>2, <2>3, <1>0, <1>2, <1>3 DEF PushOK, rec
<1>10. PopInFlight'
    BY <1>0, PopUnchanged
<1> QED BY <1>5, <1>7, <1>8, <1>9, <1>10 DEF RingInv

\* Writing the record leaves the prefix and every unread record intact.
LEMMA PushBodyInv ==
    ASSUME RingInv, Contract, NEW p \in Producers, PushBody(p)
    PROVE  RingInv'
<1> DEFINE rec == push[p].record
<1>0. /\ push[p].pc = "body" /\ payload' = write_wrap(payload, push[p].write_off + 4, rec)
      /\ push' = [push EXCEPT ![p].pc = "publish"]
      /\ UNCHANGED <<write_offset, read_offset, dropped, pop, pushed, popped, calls, deaths>>
    BY DEF PushBody, header, history, bounds
<1>1. PushOK(p)
    BY <1>0 DEF RingInv, PushInFlight
<1>2. Len(rec) \in Nat /\ rec \in Records /\ rec \in Seq(Byte)
    BY <1>1, RecordType DEF PushOK
<1>3. /\ push[p].write_off = write_offset
      /\ (write_offset - read_offset) + 4 + Len(rec) <= Cap
      /\ PrefixAt(write_offset, rec)
    BY <1>0, <1>1 DEF PushOK
<1> HIDE DEF rec
<1>4. /\ payload \in [Addr -> Byte] /\ write_offset \in Nat /\ write_offset + 4 \in Nat
      /\ write_offset <= write_offset + 4 /\ Len(rec) <= Cap
      /\ write_offset + 4 + Len(rec) <= read_offset + Cap
      /\ write_offset + 4 + Len(rec) <= write_offset + Cap
    <2>1. payload \in [Addr -> Byte]
        BY DEF RingInv, TypeOK
    <2> QED BY <1>2, <1>3, <2>1, OffsetFacts, RingAssumption
<1>5. payload' = write_wrap(payload, write_offset + 4, rec)
    BY <1>0, <1>3
<1>6. payload' \in [Addr -> Byte] /\ DeliveredInOrder' /\ Framing' /\ UnreadStored'
    <2>1. UNCHANGED <<write_offset, read_offset, pushed, popped>>
        BY <1>0
    <2> QED BY <1>2, <1>4, <1>5, <2>1, WriteKeepsUnread
<1>7. TypeOK'
    <2>1. push' \in [Producers -> PushCall]
        BY <1>0, PushCallType DEF RingInv, TypeOK
    <2> QED BY <1>0, <1>6, <2>1 DEF RingInv, TypeOK
<1>8. OneOfEach'
    BY <1>0 DEF RingInv, TypeOK, OneOfEach
<1>9. PushInFlight'
    <2> SUFFICES ASSUME NEW q \in Producers, push'[q].pc # "idle" PROVE PushOK(q)'
        BY DEF PushInFlight
    <2>1. q = p
        BY <1>0 DEF RingInv, TypeOK, OneOfEach
    <2>2. /\ push'[p].pc = "publish" /\ push'[p].record = rec
          /\ push'[p].write_off = write_offset'
        BY <1>0, <1>3 DEF RingInv, TypeOK, PushCall, rec
    <2>3. read_wrap(payload', write_offset', 4) = to_be_bytes(Len(rec))
        <3>1. read_wrap(payload', write_offset, 4) = read_wrap(payload, write_offset, 4)
            <4>1. write_offset + 4 <= write_offset + 4 /\ 4 \in Nat
                BY <1>4
            <4>2. read_wrap(write_wrap(payload, write_offset + 4, rec), write_offset, 4)
                    = read_wrap(payload, write_offset, 4)
                BY <1>2, <1>4, <4>1, ReadKept
            <4> QED BY <1>5, <4>2
        <3> QED BY <1>0, <1>3, <3>1 DEF PrefixAt
    <2>4. read_wrap(payload', write_offset' + 4, Len(rec)) = rec
        <3>1. read_wrap(payload', write_offset + 4, Len(rec)) = rec
            BY <1>2, <1>4, <1>5, ReadWritten
        <3> QED BY <1>0, <3>1
    <2>5. PrefixAt(write_offset, push[p].record)' /\ BodyAt(write_offset, push[p].record)'
        BY <2>2, <2>3, <2>4 DEF PrefixAt, BodyAt
    <2> QED BY <2>1, <2>2, <2>5, <1>0, <1>2, <1>3 DEF PushOK, rec
<1>10. PopInFlight'
    BY <1>0, PopUnchanged
<1> QED BY <1>6, <1>7, <1>8, <1>9, <1>10 DEF RingInv

\* The store of write_offset turns the bytes written into one more unread record.
LEMMA PushPublishInv ==
    ASSUME RingInv, Contract, NEW p \in Producers, PushPublish(p)
    PROVE  RingInv'
<1> DEFINE rec == push[p].record
           entry == [start |-> push[p].write_off, record |-> rec]
<1>n. PICK N \in Nat : N = Len(pushed)
    BY OffsetFacts
<1>0. /\ push[p].pc = "publish" /\ write_offset' = push[p].write_off + 4 + Len(rec)
      /\ pushed' = Append(pushed, entry) /\ push' = [push EXCEPT ![p] = IdlePush]
      /\ UNCHANGED <<read_offset, dropped, payload, pop, popped, calls, deaths>>
    BY DEF PushPublish, bounds
<1>1. PushOK(p)
    BY <1>0 DEF RingInv, PushInFlight
<1>2. Len(rec) \in Nat /\ rec \in Records
    BY <1>1, RecordType DEF PushOK
<1>3. /\ push[p].write_off = write_offset
      /\ (write_offset - read_offset) + 4 + Len(rec) <= Cap
      /\ PrefixAt(write_offset, rec) /\ BodyAt(write_offset, rec)
    BY <1>0, <1>1 DEF PushOK
<1> HIDE DEF rec
<1>4. /\ entry \in [start : Nat, record : Records]
      /\ entry.start = write_offset /\ entry.record = rec
    BY <1>2, <1>3, OffsetFacts
<1> HIDE DEF entry
<1>5. /\ N \in Nat /\ Len(pushed') = N + 1 /\ pushed' \in Seq([start : Nat, record : Records])
      /\ pushed'[N + 1] = entry /\ \A k \in 1..N : pushed'[k] = pushed[k]
    <2>1. pushed \in Seq([start : Nat, record : Records])
        BY DEF RingInv, TypeOK
    <2> QED BY <1>0, <1>4, <2>1, <1>n
<1>6. write_offset' = write_offset + 4 + Len(rec) /\ write_offset \in Nat /\ write_offset' \in Nat
    BY <1>0, <1>2, <1>3, OffsetFacts
<1>7. TypeOK'
    <2>1. push' \in [Producers -> PushCall]
        BY <1>0, PushCallType DEF RingInv, TypeOK
    <2> QED BY <1>0, <1>5, <1>6, <2>1 DEF RingInv, TypeOK
<1>8. DeliveredInOrder'
    BY <1>0, <1>5, <1>n, OffsetFacts DEF RingInv, DeliveredInOrder
<1>9. OneOfEach'
    BY <1>0 DEF RingInv, TypeOK, OneOfEach, IdlePush
<1>10. /\ \A k \in 1..(N + 1) : StartOf(k)' = StartOf(k)
       /\ StartOf(N + 2)' = write_offset + 4 + Len(rec)
       /\ StartOf(N + 1) = write_offset
    <2>1. StartOf(N + 1) = write_offset
        BY <1>5, <1>n DEF StartOf
    <2>2. ASSUME NEW k \in 1..N PROVE StartOf(k)' = StartOf(k)
        BY <1>5, <1>n DEF StartOf
    <2>3. StartOf(N + 1)' = write_offset
        BY <1>4, <1>5 DEF StartOf
    <2>4. StartOf(N + 2)' = write_offset'
        BY <1>5 DEF StartOf
    <2> QED BY <1>5, <1>6, <2>1, <2>2, <2>3, <2>4
<1>11. Framing'
    <2>1. \A k \in 1..(N + 1) : StartOf(k + 1)' = StartOf(k)' + 4 + Len(pushed'[k].record)
        <3>1. \A k \in 1..N : StartOf(k + 1) = StartOf(k) + 4 + Len(pushed[k].record)
            BY <1>n DEF RingInv, Framing
        <3>2. ASSUME NEW k \in 1..N
              PROVE  StartOf(k + 1)' = StartOf(k)' + 4 + Len(pushed'[k].record)
            <4>1. k \in 1..(N + 1) /\ k + 1 \in 1..(N + 1)
                OBVIOUS
            <4>2. StartOf(k)' = StartOf(k) /\ StartOf(k + 1)' = StartOf(k + 1)
                BY <4>1, <1>10
            <4> QED BY <1>5, <3>1, <4>2
        <3>3. StartOf(N + 1 + 1)' = StartOf(N + 1)' + 4 + Len(pushed'[N + 1].record)
            <4>1. N + 1 + 1 = N + 2 /\ N + 1 \in 1..(N + 1)
                BY <1>5
            <4> QED BY <1>4, <1>5, <1>10, <4>1
        <3>4. ASSUME NEW k \in 1..(N + 1)
              PROVE  StartOf(k + 1)' = StartOf(k)' + 4 + Len(pushed'[k].record)
            <4>1. k \in 1..N \/ k = N + 1
                OBVIOUS
            <4> QED BY <3>2, <3>3, <4>1
        <3> QED BY <3>4
    <2>2. \A j, k \in 1..(N + 2) : j <= k => StartOf(j)' <= StartOf(k)'
        <3>1. \A j, k \in 1..(N + 1) : j <= k => StartOf(j) <= StartOf(k)
            BY <1>n DEF RingInv, Framing
        <3>2. \A j \in 1..(N + 1) : StartOf(j) <= write_offset /\ StartOf(j) \in Nat
            <4>1. \A j \in 1..N : StartOf(j) \in Nat
                <5>1. pushed \in Seq([start : Nat, record : Records])
                    BY DEF RingInv, TypeOK
                <5>2. \A j \in 1..N : pushed[j] \in [start : Nat, record : Records]
                    BY <5>1, <1>n, SeqElement
                <5> QED BY <5>2, <1>5, <1>n DEF StartOf
            <4> QED BY <1>5, <1>6, <1>10, <3>1, <4>1
        <3>3. ASSUME NEW j \in 1..(N + 2), NEW k \in 1..(N + 2), j <= k
              PROVE  StartOf(j)' <= StartOf(k)'
            <4>1. CASE k \in 1..(N + 1)
                <5>1. j \in 1..(N + 1)
                    BY <3>3, <4>1
                <5> QED BY <1>10, <3>1, <3>3, <4>1, <5>1
            <4>2. CASE k = N + 2 /\ j \in 1..(N + 1)
                <5>1. StartOf(j)' <= write_offset /\ StartOf(j)' \in Nat
                    BY <1>10, <3>2, <4>2
                <5>2. StartOf(k)' = write_offset + 4 + Len(rec)
                    BY <1>10, <4>2
                <5> QED BY <1>2, <1>6, <5>1, <5>2
            <4>3. CASE k = N + 2 /\ j = N + 2
                BY <1>2, <1>6, <1>10, <4>3
            <4> QED BY <3>3, <4>1, <4>2, <4>3
        <3> QED BY <3>3
    <2>3. (read_offset = StartOf(Len(popped) + 1))'
        <3>1. Len(popped) + 1 \in 1..(N + 1)
            BY <1>n, OffsetFacts
        <3>2. read_offset = StartOf(Len(popped) + 1)
            BY DEF RingInv, Framing
        <3> QED BY <1>0, <1>10, <3>1, <3>2
    <2>4. write_offset' - read_offset' <= Cap
        BY <1>0, <1>2, <1>3, <1>6, OffsetFacts, RingAssumption
    <2>5. Len(pushed') + 1 = N + 2
        BY <1>5
    <2> QED BY <1>5, <2>1, <2>2, <2>3, <2>4, <2>5 DEF Framing
<1>12. UnreadStored'
    <2> SUFFICES ASSUME NEW k \in (Len(popped) + 1)..(N + 1)
                 PROVE  /\ PrefixAt(pushed[k].start, pushed[k].record)'
                        /\ BodyAt(pushed[k].start, pushed[k].record)'
        BY <1>0, <1>5 DEF UnreadStored
    <2>1. CASE k = N + 1
        BY <1>0, <1>3, <1>4, <1>5, <2>1 DEF PrefixAt, BodyAt
    <2>2. CASE k # N + 1
        <3>1. k \in (Len(popped) + 1)..N /\ k \in 1..N
            BY <1>5, <2>2, OffsetFacts
        <3>2. PrefixAt(pushed[k].start, pushed[k].record) /\ BodyAt(pushed[k].start, pushed[k].record)
            BY <3>1, <1>n DEF RingInv, UnreadStored
        <3> QED BY <1>0, <1>5, <3>1, <3>2 DEF PrefixAt, BodyAt
    <2> QED BY <2>1, <2>2
<1>13. PushInFlight'
    <2>1. \A q \in Producers : push'[q].pc = "idle"
        BY <1>0 DEF RingInv, TypeOK, OneOfEach, IdlePush
    <2> QED BY <2>1 DEF PushInFlight
<1>14. PopInFlight'
    <2> SUFFICES ASSUME NEW c \in Consumers, pop'[c].pc # "idle" PROVE PopOK(c)'
        BY DEF PopInFlight
    <2>1. PopOK(c) /\ pop[c] \in PopCall
        BY <1>0 DEF RingInv, TypeOK, PopInFlight
    <2>2. pop[c].write_off \in Nat
        BY <2>1 DEF PopCall
    <2>3. Len(popped) < N => pushed'[Len(popped) + 1] = pushed[Len(popped) + 1]
        BY <1>5, OffsetFacts
    <2>4. pop' = pop /\ popped' = popped /\ read_offset' = read_offset
        BY <1>0
    <2>5. /\ read_offset <= pop[c].write_off /\ pop[c].write_off <= write_offset'
        BY <1>2, <1>6, <2>1, <2>2 DEF PopOK
    <2>6. pop[c].pc # "check" => /\ pop[c].read_off = read_offset
                                 /\ Len(popped) < N /\ Len(popped) < Len(pushed')
        BY <1>5, <1>n, <2>1, OffsetFacts DEF PopOK
    <2>7. /\ pop[c].pc = "copy" => Len(pop[c].out) = Len(pushed'[Len(popped) + 1].record)
          /\ pop[c].pc = "advance" => pop[c].out = pushed'[Len(popped) + 1].record
        BY <2>1, <2>3, <2>6 DEF PopOK
    <2> QED BY <2>4, <2>5, <2>6, <2>7 DEF PopOK
<1> QED BY <1>7, <1>8, <1>9, <1>11, <1>12, <1>13, <1>14 DEF RingInv

-----------------------------------------------------------------------------
(* pop_into                                                                *)

\* A step of a pop that only changes its local state keeps the invariant if it
\* keeps the pop's own part of it.
LEMMA PopLocal ==
    ASSUME RingInv, NEW c \in Consumers,
           UNCHANGED <<write_offset, read_offset, dropped, payload, push, pushed, popped,
                       calls, deaths>>,
           pop' \in [Consumers -> PopCall],
           \A d \in Consumers \ {c} : pop'[d] = pop[d],
           pop'[c].pc = "idle" \/ (PopOK(c)' /\ \A d \in Consumers \ {c} : pop[d].pc = "idle")
    PROVE  RingInv'
<1>1. TypeOK'
    BY DEF RingInv, TypeOK
<1>2. DeliveredInOrder' /\ Framing' /\ UnreadStored'
    BY StreamUnchanged
<1>3. OneOfEach'
    BY DEF RingInv, OneOfEach
<1>4. PushInFlight'
    BY PushUnchanged
<1>5. PopInFlight'
    <2> SUFFICES ASSUME NEW d \in Consumers, pop'[d].pc # "idle" PROVE PopOK(d)'
        BY DEF PopInFlight
    <2>1. CASE d = c
        BY <2>1
    <2>2. CASE d # c
        <3>1. pop'[d] = pop[d] /\ PopOK(d)
            BY <2>2 DEF RingInv, PopInFlight
        <3> QED BY <3>1 DEF PopOK
    <2> QED BY <2>1, <2>2
<1> QED BY <1>1, <1>2, <1>3, <1>4, <1>5 DEF RingInv

\* While c is inside a pop no other process is.
LEMMA OthersIdle ==
    ASSUME RingInv, NEW c \in Consumers, pop[c].pc # "idle"
    PROVE  \A d \in Consumers \ {c} : pop[d].pc = "idle"
BY DEF RingInv, OneOfEach

\* pop_into is entered (write_offset loaded): RingInv is kept.
LEMMA PopStartInv ==
    ASSUME RingInv, Contract, NEW c \in Consumers, PopStart(c)
    PROVE  RingInv'
<1>0. /\ pop' = [pop EXCEPT ![c].pc = "check", ![c].write_off = write_offset]
      /\ UNCHANGED <<write_offset, read_offset, dropped, payload, push, pushed, popped,
                     calls, deaths>>
    BY DEF PopStart, header, history, bounds
<1>1. pop \in [Consumers -> PopCall] /\ pop[c] \in PopCall
    BY DEF RingInv, TypeOK
<1>2. /\ pop' \in [Consumers -> PopCall]
      /\ pop'[c].pc = "check" /\ pop'[c].write_off = write_offset
    BY <1>0, <1>1, OffsetFacts DEF PopCall
<1>3. \A d \in Consumers \ {c} : pop'[d] = pop[d]
    BY <1>0, <1>1
<1>4. \A d \in Consumers \ {c} : pop[d].pc = "idle"
    BY DEF PopStart, MayPop, Contract
<1>5. PopOK(c)'
    BY <1>0, <1>2, OffsetFacts DEF PopOK
<1> QED BY <1>0, <1>2, <1>3, <1>4, <1>5, PopLocal

\* pop_into loads read_offset and finds the ring empty or not: RingInv is kept.
LEMMA PopCheckInv ==
    ASSUME RingInv, Contract, NEW c \in Consumers, PopCheck(c)
    PROVE  RingInv'
<1> DEFINE available == wrapping_sub(pop[c].write_off, read_offset)
<1>0. /\ pop[c].pc = "check"
      /\ \/ pop' = [pop EXCEPT ![c] = IdlePop]
         \/ /\ ~(available < 4)
            /\ pop' = [pop EXCEPT ![c].pc = "length", ![c].read_off = read_offset]
      /\ UNCHANGED <<write_offset, read_offset, dropped, payload, push, pushed, popped,
                     calls, deaths>>
    BY DEF PopCheck, header, history, bounds
<1> HIDE DEF available
<1>1. pop \in [Consumers -> PopCall] /\ pop[c] \in PopCall /\ PopOK(c)
    BY <1>0 DEF RingInv, TypeOK, PopInFlight
<1>2. \A d \in Consumers \ {c} : pop[d].pc = "idle"
    BY <1>0, OthersIdle
<1>3. CASE pop' = [pop EXCEPT ![c] = IdlePop]
    <2>1. /\ pop' \in [Consumers -> PopCall] /\ pop'[c].pc = "idle"
          /\ \A d \in Consumers \ {c} : pop'[d] = pop[d]
        BY <1>1, <1>3, PopCallType DEF IdlePop
    <2> QED BY <1>0, <2>1, PopLocal
<1>4. CASE /\ ~(available < 4)
           /\ pop' = [pop EXCEPT ![c].pc = "length", ![c].read_off = read_offset]
    <2>1. /\ pop' \in [Consumers -> PopCall]
          /\ pop'[c].pc = "length" /\ pop'[c].read_off = read_offset
          /\ pop'[c].write_off = pop[c].write_off
          /\ \A d \in Consumers \ {c} : pop'[d] = pop[d]
        BY <1>1, <1>4, OffsetFacts DEF PopCall
    <2>2. /\ pop[c].write_off \in Nat
          /\ read_offset <= pop[c].write_off /\ pop[c].write_off <= write_offset
        BY <1>1 DEF PopOK, PopCall
    <2>3. available = pop[c].write_off - read_offset
        BY <2>2, OffsetFacts, SubSmall, RingAssumption DEF available
    <2>4. read_offset < write_offset
        BY <1>4, <2>2, <2>3, OffsetFacts
    <2>5. Len(popped) < Len(pushed)
        BY <2>4, OffsetFacts DEF RingInv, Framing, StartOf
    <2>6. PopOK(c)'
        BY <1>0, <2>1, <2>2, <2>5 DEF PopOK
    <2> QED BY <1>0, <1>2, <2>1, <2>6, PopLocal
<1> QED BY <1>0, <1>3, <1>4

\* The record a pop past its check is about to read.
LEMMA HeadStored ==
    ASSUME RingInv, NEW c \in Consumers, pop[c].pc # "idle", pop[c].pc # "check"
    PROVE  LET head == pushed[Len(popped) + 1]
           IN  /\ pop[c].read_off = read_offset /\ head.start = read_offset
               /\ Len(popped) + 1 \in (Len(popped) + 1)..Len(pushed)
               /\ head.record \in Records /\ Len(head.record) \in Nat
               /\ read_wrap(payload, read_offset, 4) = to_be_bytes(Len(head.record))
               /\ read_wrap(payload, read_offset + 4, Len(head.record)) = head.record
               /\ read_offset + 4 + Len(head.record) <= write_offset
<1> DEFINE k == Len(popped) + 1
<1>1. /\ pop[c].read_off = read_offset /\ Len(popped) < Len(pushed)
    BY DEF RingInv, PopInFlight, PopOK
<1>2. k \in (Len(popped) + 1)..Len(pushed)
    BY <1>1, OffsetFacts
<1>3. StartOf(k) = pushed[k].start /\ read_offset = StartOf(k)
    BY <1>1, OffsetFacts DEF RingInv, Framing, StartOf
<1>4. PrefixAt(pushed[k].start, pushed[k].record) /\ BodyAt(pushed[k].start, pushed[k].record)
    BY <1>2 DEF RingInv, UnreadStored
<1>5. /\ pushed[k].record \in Records /\ Len(pushed[k].record) \in Nat
      /\ pushed[k].start + 4 + Len(pushed[k].record) <= write_offset
    BY <1>2, UnreadBounds
<1> QED BY <1>1, <1>2, <1>3, <1>4, <1>5 DEF PrefixAt, BodyAt

\* The length pop_into reads is that of the oldest unread record.
LEMMA PopLengthInv ==
    ASSUME RingInv, Contract, NEW c \in Consumers, PopLength(c)
    PROVE  RingInv'
<1> DEFINE record_len == from_be_bytes(read_wrap(payload, pop[c].read_off, 4))
           zeros == [i \in 1..record_len |-> 0]
           head == pushed[Len(popped) + 1]
<1>0. /\ pop[c].pc = "length"
      /\ \/ pop' = [pop EXCEPT ![c] = IdlePop]
         \/ pop' = [pop EXCEPT ![c].pc = "copy", ![c].out = zeros]
      /\ UNCHANGED <<write_offset, read_offset, dropped, payload, push, pushed, popped,
                     calls, deaths>>
    BY DEF PopLength, header, history, bounds
<1>1. pop \in [Consumers -> PopCall] /\ pop[c] \in PopCall /\ PopOK(c)
    BY <1>0 DEF RingInv, TypeOK, PopInFlight
<1>2. \A d \in Consumers \ {c} : pop[d].pc = "idle"
    BY <1>0, OthersIdle
<1>3. CASE pop' = [pop EXCEPT ![c] = IdlePop]
    <2>1. /\ pop' \in [Consumers -> PopCall] /\ pop'[c].pc = "idle"
          /\ \A d \in Consumers \ {c} : pop'[d] = pop[d]
        BY <1>1, <1>3, PopCallType DEF IdlePop
    <2> QED BY <1>0, <2>1, PopLocal
<1>4. CASE pop' = [pop EXCEPT ![c].pc = "copy", ![c].out = zeros]
    <2>1. record_len = Len(head.record) /\ record_len \in Nat
        <3>1. /\ pop[c].read_off = read_offset /\ Len(head.record) \in Nat
              /\ read_wrap(payload, read_offset, 4) = to_be_bytes(Len(head.record))
              /\ read_offset + 4 + Len(head.record) <= write_offset
            BY <1>0, HeadStored
        <3> HIDE DEF head
        <3>2. Len(head.record) < 256 * 256 * 256
            BY <3>1, OffsetFacts, RingAssumption
        <3> QED BY <3>1, <3>2, BigEndian
    <2> HIDE DEF record_len
    <2>2. zeros \in Seq(Byte) /\ Len(zeros) = record_len
        <3>1. zeros \in [1..record_len -> Byte]
            BY DEF Byte
        <3> QED BY <2>1, <3>1
    <2> HIDE DEF zeros
    <2>3. /\ pop' \in [Consumers -> PopCall]
          /\ pop'[c].pc = "copy" /\ pop'[c].out = zeros
          /\ pop'[c].write_off = pop[c].write_off /\ pop'[c].read_off = pop[c].read_off
          /\ \A d \in Consumers \ {c} : pop'[d] = pop[d]
        BY <1>1, <1>4, <2>2 DEF PopCall
    <2>4. PopOK(c)'
        BY <1>0, <1>1, <2>1, <2>2, <2>3 DEF PopOK
    <2> QED BY <1>0, <1>2, <2>3, <2>4, PopLocal
<1> QED BY <1>0, <1>3, <1>4

\* The bytes pop_into copies are those of the oldest unread record.
LEMMA PopCopyInv ==
    ASSUME RingInv, Contract, NEW c \in Consumers, PopCopy(c)
    PROVE  RingInv'
<1> DEFINE copied == read_wrap(payload, pop[c].read_off + 4, Len(pop[c].out))
           head == pushed[Len(popped) + 1]
<1>0. /\ pop[c].pc = "copy"
      /\ pop' = [pop EXCEPT ![c].pc = "advance", ![c].out = copied]
      /\ UNCHANGED <<write_offset, read_offset, dropped, payload, push, pushed, popped,
                     calls, deaths>>
    BY DEF PopCopy, header, history, bounds
<1>1. pop \in [Consumers -> PopCall] /\ pop[c] \in PopCall /\ PopOK(c)
    BY <1>0 DEF RingInv, TypeOK, PopInFlight
<1>2. \A d \in Consumers \ {c} : pop[d].pc = "idle"
    BY <1>0, OthersIdle
<1>3. copied = head.record /\ copied \in Seq(Byte)
    <2>1. /\ pop[c].read_off = read_offset /\ head.record \in Records
          /\ read_wrap(payload, read_offset + 4, Len(head.record)) = head.record
        BY <1>0, HeadStored
    <2>2. Len(pop[c].out) = Len(head.record)
        BY <1>0, <1>1 DEF PopOK
    <2> QED BY <2>1, <2>2, RecordType
<1> HIDE DEF copied
<1>4. /\ pop' \in [Consumers -> PopCall]
      /\ pop'[c].pc = "advance" /\ pop'[c].out = copied
      /\ pop'[c].write_off = pop[c].write_off /\ pop'[c].read_off = pop[c].read_off
      /\ \A d \in Consumers \ {c} : pop'[d] = pop[d]
    BY <1>0, <1>1, <1>3 DEF PopCall
<1>5. PopOK(c)'
    BY <1>0, <1>1, <1>3, <1>4 DEF PopOK
<1> QED BY <1>0, <1>2, <1>4, <1>5, PopLocal

\* The store of read_offset consumes exactly the oldest unread record.
LEMMA PopAdvanceInv ==
    ASSUME RingInv, Contract, NEW c \in Consumers, PopAdvance(c)
    PROVE  RingInv'
<1>n. PICK n \in Nat : n = Len(popped)
    BY OffsetFacts
<1> DEFINE rec == pushed[n + 1].record
<1>0. /\ pop[c].pc = "advance" /\ read_offset' = pop[c].read_off + 4 + Len(pop[c].out)
      /\ popped' = Append(popped, pop[c].out) /\ pop' = [pop EXCEPT ![c] = IdlePop]
      /\ UNCHANGED <<write_offset, dropped, payload, push, pushed, calls, deaths>>
    BY DEF PopAdvance, bounds
<1>1. PopOK(c) /\ pop[c].out = rec /\ pop[c].read_off = read_offset /\ n < Len(pushed)
    BY <1>0, <1>n DEF RingInv, PopInFlight, PopOK
<1>2. /\ rec \in Records /\ Len(rec) \in Nat /\ rec \in Seq(Byte)
      /\ read_offset + 4 + Len(rec) <= write_offset
    <2>1. /\ rec \in Records /\ Len(rec) \in Nat
          /\ read_offset + 4 + Len(rec) <= write_offset
        BY <1>0, <1>n, HeadStored
    <2> QED BY <2>1, RecordType
<1>3. /\ popped' \in Seq(Seq(Byte)) /\ Len(popped') = n + 1
      /\ popped'[n + 1] = rec /\ \A k \in 1..n : popped'[k] = popped[k]
    <2>1. popped \in Seq(Seq(Byte))
        BY DEF RingInv, TypeOK
    <2> HIDE DEF rec
    <2> QED BY <1>0, <1>1, <1>2, <1>n, <2>1
<1>4. read_offset' = read_offset + 4 + Len(rec) /\ read_offset' \in Nat
    <2> HIDE DEF rec
    <2> QED BY <1>0, <1>1, <1>2, OffsetFacts
<1>5. TypeOK'
    <2>1. pop' \in [Consumers -> PopCall]
        BY <1>0, PopCallType DEF RingInv, TypeOK
    <2> QED BY <1>0, <1>3, <1>4, <2>1 DEF RingInv, TypeOK
<1>6. DeliveredInOrder'
    <2>1. Len(popped') <= Len(pushed')
        BY <1>0, <1>1, <1>3, OffsetFacts
    <2>2. ASSUME NEW k \in 1..(n + 1) PROVE popped'[k] = pushed'[k].record
        <3>1. CASE k = n + 1
            BY <1>0, <1>3, <3>1
        <3>2. CASE k \in 1..n
            BY <1>0, <1>3, <1>n, <3>2 DEF RingInv, DeliveredInOrder
        <3> QED BY <3>1, <3>2
    <2> QED BY <1>3, <2>1, <2>2 DEF DeliveredInOrder
<1>7. OneOfEach'
    BY <1>0 DEF RingInv, TypeOK, OneOfEach, IdlePop
<1>8. Framing'
    <2>1. \A k : StartOf(k)' = StartOf(k)
        BY <1>0 DEF StartOf
    <2>2. StartOf(n + 1 + 1) = StartOf(n + 1) + 4 + Len(rec) /\ StartOf(n + 1) = read_offset
        <3>1. n + 1 \in 1..Len(pushed)
            BY <1>1, OffsetFacts
        <3> QED BY <3>1, <1>n DEF RingInv, Framing
    <2>3. read_offset' = StartOf(n + 1 + 1)
        BY <1>4, <2>2
    <2>4. write_offset' - read_offset' <= Cap
        <3> HIDE DEF rec
        <3> QED BY <1>0, <1>2, <1>4, OffsetFacts, RingAssumption
    <2>5. \A k \in 1..Len(pushed) : StartOf(k + 1) = StartOf(k) + 4 + Len(pushed[k].record)
        BY DEF RingInv, Framing
    <2>6. \A j, k \in 1..(Len(pushed) + 1) : j <= k => StartOf(j) <= StartOf(k)
        BY DEF RingInv, Framing
    <2>7. (read_offset = StartOf(Len(popped) + 1))'
        BY <1>3, <2>1, <2>3
    <2>8. (\A k \in 1..Len(pushed) : StartOf(k + 1) = StartOf(k) + 4 + Len(pushed[k].record))'
        BY <1>0, <2>1, <2>5
    <2>9. (\A j, k \in 1..(Len(pushed) + 1) : j <= k => StartOf(j) <= StartOf(k))'
        BY <1>0, <2>1, <2>6
    <2> QED BY <2>4, <2>7, <2>8, <2>9 DEF Framing
<1>9. UnreadStored'
    <2>1. \A k \in (Len(popped') + 1)..Len(pushed') : k \in (Len(popped) + 1)..Len(pushed)
        BY <1>0, <1>3, <1>n, OffsetFacts
    <2> QED BY <1>0, <2>1 DEF RingInv, UnreadStored, PrefixAt, BodyAt
<1>10. PushInFlight'
    <2> SUFFICES ASSUME NEW p \in Producers, push'[p].pc # "idle" PROVE PushOK(p)'
        BY DEF PushInFlight
    <2>1. PushOK(p)
        BY <1>0 DEF RingInv, PushInFlight
    <2>2. Len(push[p].record) \in Nat
        BY <2>1, RecordType DEF PushOK
    <2>3. push[p].pc # "check" =>
            (write_offset - read_offset') + 4 + Len(push[p].record) <= Cap
        <3>1. PICK d \in Nat : /\ read_offset' = read_offset + d
                              /\ Cap \in Nat /\ write_offset \in Nat /\ read_offset \in Nat
            <4>1. 4 + Len(rec) \in Nat /\ read_offset' = read_offset + (4 + Len(rec))
                <5> HIDE DEF rec
                <5> QED BY <1>2, <1>4, OffsetFacts
            <4> QED BY <4>1, OffsetFacts, RingAssumption
        <3> DEFINE len == Len(push[p].record)
        <3> SUFFICES ASSUME push[p].pc # "check"
                     PROVE  (write_offset - read_offset') + 4 + len <= Cap
            OBVIOUS
        <3>2. (write_offset - read_offset) + 4 + len <= Cap
            BY <2>1 DEF PushOK
        <3>3. len \in Nat
            BY <2>2
        <3> HIDE DEF len
        <3> QED BY <3>1, <3>2, <3>3
    <2> QED BY <1>0, <2>1, <2>3 DEF PushOK, PrefixAt, BodyAt
<1>11. PopInFlight'
    <2>1. \A d \in Consumers : pop'[d].pc = "idle"
        BY <1>0 DEF RingInv, TypeOK, OneOfEach, IdlePop
    <2> QED BY <2>1 DEF PopInFlight
<1> QED BY <1>5, <1>6, <1>7, <1>8, <1>9, <1>10, <1>11 DEF RingInv

-----------------------------------------------------------------------------
(* Deaths, and the theorems                                                *)

\* A worker killed inside push leaves a ring its replacement can use.
LEMMA WorkerDiesInv ==
    ASSUME RingInv, NEW p \in Producers, WorkerDies(p)
    PROVE  RingInv'
<1>0. /\ push' = [push EXCEPT ![p] = IdlePush] /\ deaths' = deaths + 1
      /\ UNCHANGED <<write_offset, read_offset, dropped, payload, pop, pushed, popped, calls>>
    BY DEF WorkerDies, header, history
<1>1. TypeOK'
    BY <1>0, PushCallType DEF RingInv, TypeOK
<1>2. DeliveredInOrder' /\ Framing' /\ UnreadStored'
    BY <1>0, StreamUnchanged
<1>3. OneOfEach'
    BY <1>0 DEF RingInv, TypeOK, OneOfEach, IdlePush
<1>4. PushInFlight'
    <2> SUFFICES ASSUME NEW q \in Producers, push'[q].pc # "idle" PROVE PushOK(q)'
        BY DEF PushInFlight
    <2>1. push'[q] = push[q] /\ PushOK(q)
        BY <1>0 DEF RingInv, TypeOK, PushInFlight, IdlePush
    <2> QED BY <1>0, <2>1 DEF PushOK, PrefixAt, BodyAt
<1>5. PopInFlight'
    BY <1>0, PopUnchanged
<1> QED BY <1>1, <1>2, <1>3, <1>4, <1>5 DEF RingInv

\* An exporter killed inside pop_into leaves a ring its replacement can use.
LEMMA ExporterDiesInv ==
    ASSUME RingInv, NEW c \in Consumers, ExporterDies(c)
    PROVE  RingInv'
<1>0. /\ pop' = [pop EXCEPT ![c] = IdlePop] /\ deaths' = deaths + 1
      /\ UNCHANGED <<write_offset, read_offset, dropped, payload, push, pushed, popped, calls>>
    BY DEF ExporterDies, header, history
<1>1. TypeOK'
    BY <1>0, PopCallType DEF RingInv, TypeOK
<1>2. DeliveredInOrder' /\ Framing' /\ UnreadStored'
    BY <1>0, StreamUnchanged
<1>3. OneOfEach'
    BY <1>0 DEF RingInv, TypeOK, OneOfEach, IdlePop
<1>4. PushInFlight'
    BY <1>0, PushUnchanged
<1>5. PopInFlight'
    <2> SUFFICES ASSUME NEW d \in Consumers, pop'[d].pc # "idle" PROVE PopOK(d)'
        BY DEF PopInFlight
    <2>1. pop'[d] = pop[d] /\ PopOK(d)
        BY <1>0 DEF RingInv, TypeOK, PopInFlight, IdlePop
    <2> QED BY <1>0, <2>1 DEF PopOK
<1> QED BY <1>1, <1>2, <1>3, <1>4, <1>5 DEF RingInv

\* Every step of push, pop_into or a death preserves the invariant.
LEMMA NextInv == RingInv /\ Contract /\ [Next]_vars => RingInv'
<1> SUFFICES ASSUME RingInv, Contract, [Next]_vars PROVE RingInv'
    OBVIOUS
<1>1. ASSUME NEW p \in Producers, Push(p) PROVE RingInv'
    BY <1>1, PushStartInv, PushCheckInv, PushPrefixInv, PushBodyInv, PushPublishInv DEF Push
<1>2. ASSUME NEW c \in Consumers, Pop(c) PROVE RingInv'
    BY <1>2, PopStartInv, PopCheckInv, PopLengthInv, PopCopyInv, PopAdvanceInv DEF Pop
<1>3. ASSUME NEW p \in Producers, WorkerDies(p) PROVE RingInv'
    BY <1>3, WorkerDiesInv
<1>4. ASSUME NEW c \in Consumers, ExporterDies(c) PROVE RingInv'
    BY <1>4, ExporterDiesInv
<1>5. CASE UNCHANGED vars
    <2>1. UNCHANGED <<write_offset, read_offset, dropped, payload, push, pop, pushed, popped,
                      calls, deaths>>
        BY <1>5 DEF vars, header, history, bounds
    <2>2. TypeOK' /\ OneOfEach'
        BY <2>1 DEF RingInv, TypeOK, OneOfEach
    <2> QED BY <2>1, <2>2, StreamUnchanged, PushUnchanged, PopUnchanged DEF RingInv
<1> QED BY <1>1, <1>2, <1>3, <1>4, <1>5 DEF Next

\* The inductive invariant holds in every behaviour that keeps the contract.
THEOREM RingInvariant == Contract => (Spec => []RingInv)
<1>1. Contract /\ RingInv /\ [Next]_vars => RingInv'
    BY NextInv
<1> SUFFICES ASSUME Contract PROVE Spec => []RingInv
    OBVIOUS
<1>2. RingInv /\ [Next]_vars => RingInv'
    BY <1>1
<1> QED BY InitInv, <1>2, PTL DEF Spec

\* The state of the ring and of every call stays well formed: in particular a
\* pop never reads a length out of a half-written prefix.
THEOREM TypeCorrect == Contract => (Spec => []TypeOK)
<1> SUFFICES ASSUME Contract PROVE Spec => []TypeOK
    OBVIOUS
<1>1. Spec => []RingInv
    BY RingInvariant
<1>2. RingInv => TypeOK
    BY DEF RingInv
<1> QED BY <1>1, <1>2, PTL

\* The records popped are the records pushed, whole, in order, none lost,
\* repeated or torn, for every capacity, record set and number of processes.
THEOREM InOrderDelivery == Contract => (Spec => []DeliveredInOrder)
<1> SUFFICES ASSUME Contract PROVE Spec => []DeliveredInOrder
    OBVIOUS
<1>1. Spec => []RingInv
    BY RingInvariant
<1>2. RingInv => DeliveredInOrder
    BY DEF RingInv
<1> QED BY <1>1, <1>2, PTL

\* Two offsets less than Cap apart have different addresses.
LEMMA DistinctAddresses ==
    ASSUME NEW x \in Nat, NEW y \in Nat, y < x, x - y < Cap
    PROVE  x % Cap # y % Cap
<1> DEFINE d == x - y
<1>1. d \in Nat /\ d <= Cap /\ x = y + d /\ 0 < d /\ d < Cap
    BY RingAssumption
<1> HIDE DEF d
<1>2. x % Cap = IF (y % Cap) + d < Cap THEN (y % Cap) + d ELSE (y % Cap) + d - Cap
    BY <1>1, ModAdd
<1>3. y % Cap \in 0..(Cap - 1) /\ Cap \in Nat
    BY DivMod, RingAssumption
<1> QED BY <1>1, <1>2, <1>3

\* A push never writes a byte that is published and unread.
THEOREM DisjointRegions == Contract => (Spec => []NoOverlap)
<1> SUFFICES ASSUME Contract PROVE Spec => []NoOverlap
    OBVIOUS
<1>1. Spec => []RingInv
    BY RingInvariant
<1>2. RingInv => NoOverlap
    <2> SUFFICES ASSUME RingInv, NEW p \in Producers,
                        push[p].pc \in {"prefix", "body", "publish"}
                 PROVE  Region(push[p].write_off, 4 + Len(push[p].record))
                            \cap Region(read_offset, write_offset - read_offset) = {}
        BY DEF NoOverlap
    <2>1. PushOK(p)
        BY DEF RingInv, PushInFlight
    <2>2. /\ Len(push[p].record) \in Nat /\ push[p].write_off = write_offset
          /\ (write_offset - read_offset) + 4 + Len(push[p].record) <= Cap
        BY <2>1, RecordType DEF PushOK
    <2>3. ASSUME NEW x \in write_offset..(write_offset + (4 + Len(push[p].record)) - 1),
                 NEW y \in read_offset..(read_offset + (write_offset - read_offset) - 1)
          PROVE  x % Cap # y % Cap
        <3>1. x \in Nat /\ y \in Nat /\ y < x /\ x - y < Cap
            <4>1. Cap \in Nat /\ write_offset \in Nat /\ read_offset \in Nat
                BY OffsetFacts, RingAssumption
            <4> DEFINE len == Len(push[p].record)
            <4>2. /\ len \in Nat /\ (write_offset - read_offset) + 4 + len <= Cap
                  /\ x \in write_offset..(write_offset + (4 + len) - 1)
                BY <2>2
            <4> HIDE DEF len
            <4> QED BY <4>1, <4>2
        <3> QED BY <3>1, DistinctAddresses
    <2> QED BY <2>2, <2>3 DEF Region
<1> QED BY <1>1, <1>2, PTL

-----------------------------------------------------------------------------
(* The ring implements the abstract queue                                  *)

\* A sequence one longer that agrees on the rest is an Append.
LEMMA AppendIs ==
    ASSUME NEW S, NEW s \in Seq(S), NEW t \in Seq(S), Len(t) = Len(s) + 1,
           \A i \in 1..Len(s) : t[i] = s[i]
    PROVE  t = Append(s, t[Len(s) + 1])
<1>1. Len(s) \in Nat /\ t[Len(s) + 1] \in S
    BY SeqElement
<1>2. Append(s, t[Len(s) + 1]) \in Seq(S) /\ Len(Append(s, t[Len(s) + 1])) = Len(s) + 1
    BY <1>1
<1>3. \A i \in 1..(Len(s) + 1) : Append(s, t[Len(s) + 1])[i] = t[i]
    BY <1>1
<1> QED BY <1>1, <1>2, <1>3

\* A sequence one shorter that agrees on the rest is a Tail.
LEMMA TailIs ==
    ASSUME NEW S, NEW s \in Seq(S), NEW t \in Seq(S), Len(s) = Len(t) + 1,
           \A i \in 1..Len(t) : t[i] = s[i + 1]
    PROVE  t = Tail(s)
<1>1. Len(t) \in Nat
    OBVIOUS
<1>2. s # << >>
    BY <1>1
<1>3. Tail(s) \in Seq(S) /\ Len(Tail(s)) = Len(t)
    BY <1>1, <1>2
<1>4. \A i \in 1..Len(t) : Tail(s)[i] = s[i + 1]
    BY <1>1, <1>2
<1> QED BY <1>1, <1>3, <1>4

\* The unread records form a sequence of records.
LEMMA UnreadType ==
    ASSUME RingInv
    PROVE  UnreadRecords \in Seq(Records) /\ Len(UnreadRecords) = Len(pushed) - Len(popped)
<1>1. Len(pushed) - Len(popped) \in Nat
    BY OffsetFacts
<1>2. ASSUME NEW k \in 1..(Len(pushed) - Len(popped))
      PROVE  pushed[Len(popped) + k].record \in Records
    <2>1. Len(popped) + k \in (Len(popped) + 1)..Len(pushed)
        BY OffsetFacts
    <2> QED BY <2>1, UnreadBounds
<1>3. UnreadRecords \in [1..(Len(pushed) - Len(popped)) -> Records]
    BY <1>2 DEF UnreadRecords
<1> QED BY <1>1, <1>3

\* Steps that store neither offset nor the drop counter are invisible.
LEMMA QueueStutter ==
    ASSUME UNCHANGED <<write_offset, read_offset, dropped, pushed, popped>>
    PROVE  UNCHANGED Queue!queueVars
BY DEF Queue!queueVars, UnreadRecords

\* Storing write_offset accepts the record.
LEMMA PublishAccepts ==
    ASSUME RingInv, RingInv', NEW p \in Producers, PushPublish(p)
    PROVE  Queue!QueueNext
<1> DEFINE rec == push[p].record
           entry == [start |-> push[p].write_off, record |-> rec]
<1>n. PICK N \in Nat, n \in Nat : N = Len(pushed) /\ n = Len(popped) /\ n <= N
    BY OffsetFacts
<1>0. /\ push[p].pc = "publish" /\ write_offset' = push[p].write_off + 4 + Len(rec)
      /\ pushed' = Append(pushed, entry)
      /\ UNCHANGED <<read_offset, dropped, popped>>
    BY DEF PushPublish
<1>1. /\ rec \in Records /\ Len(rec) \in Nat /\ push[p].write_off = write_offset
      /\ (write_offset - read_offset) + 4 + Len(rec) <= Cap
    <2>1. PushOK(p)
        BY <1>0 DEF RingInv, PushInFlight
    <2> QED BY <1>0, <2>1, RecordType DEF PushOK
<1>2. /\ Len(pushed') = N + 1 /\ pushed'[N + 1].record = rec
      /\ \A k \in 1..N : pushed'[k] = pushed[k]
    <2>1. pushed \in Seq([start : Nat, record : Records])
        BY DEF RingInv, TypeOK
    <2>2. entry \in [start : Nat, record : Records] /\ entry.record = rec
        BY <1>1, OffsetFacts
    <2> HIDE DEF entry, rec
    <2> QED BY <1>0, <1>n, <2>1, <2>2
<1> HIDE DEF rec
<1>3. UnreadRecords' = Append(UnreadRecords, rec)
    <2>1. UnreadRecords \in Seq(Records) /\ Len(UnreadRecords) = N - n
        BY <1>n, UnreadType
    <2>2. UnreadRecords' = [k \in 1..(N + 1 - n) |-> pushed'[n + k].record]
        BY <1>0, <1>2, <1>n DEF UnreadRecords
    <2>3. UnreadRecords' \in Seq(Records)
        <3>1. \A k \in 1..(N + 1 - n) : pushed'[n + k].record \in Records
            <4>1. \A j \in 1..N : pushed[j].record \in Records
                <5>1. pushed \in Seq([start : Nat, record : Records])
                    BY DEF RingInv, TypeOK
                <5>2. \A j \in 1..N : pushed[j] \in [start : Nat, record : Records]
                    BY <5>1, <1>n, SeqElement
                <5> QED BY <5>2
            <4>2. ASSUME NEW k \in 1..(N + 1 - n) PROVE pushed'[n + k].record \in Records
                <5>1. n + k \in 1..N \/ n + k = N + 1
                    BY <1>n
                <5> QED BY <1>1, <1>2, <4>1, <5>1
            <4> QED BY <4>2
        <3>2. N + 1 - n \in Nat
            BY <1>n
        <3>3. UnreadRecords' \in [1..(N + 1 - n) -> Records]
            BY <2>2, <3>1
        <3> QED BY <3>2, <3>3
    <2>4. Len(UnreadRecords') = N - n + 1
        BY <1>n, <2>2
    <2>5. \A i \in 1..(N - n) : UnreadRecords'[i] = UnreadRecords[i]
        <3>1. ASSUME NEW i \in 1..(N - n) PROVE UnreadRecords'[i] = UnreadRecords[i]
            <4>1. i \in 1..(N + 1 - n) /\ n + i \in 1..N
                BY <1>n
            <4>2. UnreadRecords[i] = pushed[n + i].record
                BY <1>n DEF UnreadRecords
            <4> QED BY <1>2, <2>2, <4>1, <4>2
        <3> QED BY <3>1
    <2>6. UnreadRecords'[N - n + 1] = rec
        <3>1. N - n + 1 \in 1..(N + 1 - n) /\ n + (N - n + 1) = N + 1
            BY <1>n
        <3> QED BY <1>2, <2>2, <3>1
    <2> QED BY <2>1, <2>3, <2>4, <2>5, <2>6, AppendIs
<1>4. Queue!Accept(rec)
    <2>1. (write_offset - read_offset) + (4 + Len(rec)) <= Cap
        BY <1>1, OffsetFacts, RingAssumption
    <2>2. write_offset' - read_offset' = (write_offset - read_offset) + (4 + Len(rec))
        <3>1. write_offset' = write_offset + 4 + Len(rec) /\ read_offset' = read_offset
            BY <1>0, <1>1
        <3> QED BY <1>1, <3>1, OffsetFacts
    <2> QED BY <1>0, <1>3, <2>1, <2>2 DEF Queue!Accept, Queue!Cost
<1> QED BY <1>1, <1>4 DEF Queue!QueueNext

\* Storing read_offset takes the oldest record.
LEMMA AdvanceTakes ==
    ASSUME RingInv, RingInv', NEW c \in Consumers, PopAdvance(c)
    PROVE  Queue!QueueNext
<1>n. PICK N \in Nat, n \in Nat : N = Len(pushed) /\ n = Len(popped) /\ n <= N
    BY OffsetFacts
<1> DEFINE rec == pushed[n + 1].record
<1>0. /\ pop[c].pc = "advance" /\ read_offset' = pop[c].read_off + 4 + Len(pop[c].out)
      /\ popped' = Append(popped, pop[c].out)
      /\ UNCHANGED <<write_offset, dropped, pushed>>
    BY DEF PopAdvance
<1>1. pop[c].out = rec /\ pop[c].read_off = read_offset /\ n < N /\ Len(rec) \in Nat
    <2>1. pop[c].out = rec /\ pop[c].read_off = read_offset /\ n < N
        BY <1>0, <1>n DEF RingInv, PopInFlight, PopOK
    <2> QED BY <1>0, <1>n, <2>1, HeadStored
<1>2. Len(popped') = n + 1
    <2>1. popped \in Seq(Seq(Byte))
        BY DEF RingInv, TypeOK
    <2> QED BY <1>0, <1>n, <2>1
<1>3. UnreadRecords \in Seq(Records) /\ Len(UnreadRecords) = N - n
    BY <1>n, UnreadType
<1>4. UnreadRecords' \in Seq(Records) /\ Len(UnreadRecords') = N - (n + 1)
    <2>1. UnreadRecords' = [k \in 1..(N - (n + 1)) |-> pushed[(n + 1) + k].record]
        BY <1>0, <1>2, <1>n DEF UnreadRecords
    <2>2. ASSUME NEW k \in 1..(N - (n + 1)) PROVE pushed[(n + 1) + k].record \in Records
        <3>1. (n + 1) + k \in (n + 1)..N
            BY <1>n
        <3> QED BY <1>n, <3>1, UnreadBounds
    <2>3. N - (n + 1) \in Nat
        <3>1. n < N
            BY <1>1
        <3> QED BY <3>1
    <2>4. UnreadRecords' \in [1..(N - (n + 1)) -> Records]
        BY <2>1, <2>2
    <2> QED BY <2>3, <2>4
<1>5. UnreadRecords' = Tail(UnreadRecords)
    <2>1. ASSUME NEW i \in 1..(N - (n + 1)) PROVE UnreadRecords'[i] = UnreadRecords[i + 1]
        <3>1. i + 1 \in 1..(N - n) /\ n + (i + 1) = (n + 1) + i
            BY <1>n
        <3>2. UnreadRecords[i + 1] = pushed[n + (i + 1)].record
            BY <1>n, <3>1 DEF UnreadRecords
        <3>3. UnreadRecords'[i] = pushed[(n + 1) + i].record
            BY <1>0, <1>2, <1>n DEF UnreadRecords
        <3> QED BY <3>1, <3>2, <3>3
    <2>2. Len(UnreadRecords) = Len(UnreadRecords') + 1
        BY <1>3, <1>4, <1>1
    <2> QED BY <1>3, <1>4, <2>1, <2>2, TailIs
<1>6. UnreadRecords # << >> /\ Head(UnreadRecords) = rec
    <2>1. 1 \in 1..(N - n)
        BY <1>1
    <2>2. UnreadRecords[1] = rec
        BY <1>n, <2>1 DEF UnreadRecords
    <2>3. UnreadRecords # << >>
        BY <1>1, <1>3
    <2> HIDE DEF rec
    <2> QED BY <1>3, <2>2, <2>3
<1> HIDE DEF rec
<1>7. write_offset' - read_offset' = (write_offset - read_offset) - (4 + Len(rec))
    BY <1>0, <1>1, OffsetFacts
<1>8. Queue!Take
    BY <1>0, <1>5, <1>6, <1>7 DEF Queue!Take, Queue!Cost
<1> QED BY <1>8 DEF Queue!QueueNext

\* A record is refused only when it does not fit.
LEMMA CheckDiscards ==
    ASSUME RingInv, NEW p \in Producers, PushCheck(p)
    PROVE  Queue!QueueNext \/ UNCHANGED Queue!queueVars
<1> DEFINE used == wrapping_sub(push[p].write_off, read_offset)
           rec == push[p].record
<1>0. /\ push[p].pc = "check"
      /\ \/ used + (4 + Len(rec)) > Cap /\ dropped' = dropped + 1
         \/ dropped' = dropped
      /\ UNCHANGED <<write_offset, read_offset, pushed, popped>>
    BY DEF PushCheck, history
<1>1. PushOK(p)
    BY <1>0 DEF RingInv, PushInFlight
<1>2. used = write_offset - read_offset /\ rec \in Records
    BY <1>1, SubSmall, OffsetFacts DEF PushOK
<1> HIDE DEF used, rec
<1>3. CASE dropped' = dropped
    BY <1>0, <1>3, QueueStutter
<1>4. CASE used + (4 + Len(rec)) > Cap /\ dropped' = dropped + 1
    <2>1. UnreadRecords' = UnreadRecords
        BY <1>0 DEF UnreadRecords
    <2>2. Queue!Discard(rec)
        BY <1>0, <1>2, <1>4, <2>1 DEF Queue!Discard, Queue!Cost
    <2> QED BY <1>2, <2>2 DEF Queue!QueueNext
<1> QED BY <1>0, <1>3, <1>4

\* The byte ring implements the bounded FIFO that drops the newest record:
\* push takes effect at the store of write_offset, pop_into at the store of
\* read_offset, and a process that dies in between has done nothing.
THEOREM RingImplementsQueue == Contract => (Spec => ImplementsQueue)
<1> SUFFICES ASSUME Contract PROVE Spec => ImplementsQueue
    OBVIOUS
<1>1. Init => Queue!QueueInit
    <2> SUFFICES ASSUME Init PROVE Queue!QueueInit
        OBVIOUS
    <2>1. UnreadRecords = << >>
        BY DEF Init, UnreadRecords
    <2> QED BY <2>1 DEF Init, Queue!QueueInit
<1>2. RingInv /\ RingInv' /\ [Next]_vars => [Queue!QueueNext]_(Queue!queueVars)
    <2> SUFFICES ASSUME RingInv, RingInv', [Next]_vars
                 PROVE  Queue!QueueNext \/ UNCHANGED Queue!queueVars
        OBVIOUS
    <2>1. ASSUME NEW p \in Producers,
                 PushStart(p) \/ PushPrefix(p) \/ PushBody(p) \/ WorkerDies(p)
          PROVE  UNCHANGED Queue!queueVars
        BY <2>1, QueueStutter DEF PushStart, PushPrefix, PushBody, WorkerDies, header, history
    <2>2. ASSUME NEW c \in Consumers,
                 PopStart(c) \/ PopCheck(c) \/ PopLength(c) \/ PopCopy(c) \/ ExporterDies(c)
          PROVE  UNCHANGED Queue!queueVars
        BY <2>2, QueueStutter
           DEF PopStart, PopCheck, PopLength, PopCopy, ExporterDies, header, history
    <2>3. CASE UNCHANGED vars
        BY <2>3, QueueStutter DEF vars, header, history
    <2> QED BY <2>1, <2>2, <2>3, CheckDiscards, PublishAccepts, AdvanceTakes
            DEF Next, Push, Pop
<1>3. Spec => []RingInv
    BY RingInvariant
<1> QED BY <1>1, <1>2, <1>3, PTL DEF Spec, ImplementsQueue, Queue!QueueSpec
=============================================================================
