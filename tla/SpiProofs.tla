------------------------------ MODULE SpiProofs ------------------------------
(***************************************************************************)
(* Proofs about SpiChannel, for every number of tasks and every capacity   *)
(* and packet length: its types, its index order, and that it implements   *)
(* BoundedFifo.  Proofs about SpiTransfer, for every set of channels,      *)
(* order of draining and capacity: the rings stay sound.                   *)
(***************************************************************************)
EXTENDS SpiChannel, SpiTransfer, SequenceTheorems, TLAPS

USE DEF Threads

-----------------------------------------------------------------------------
(* The ring's operators                                                    *)

Ordered(rb) == rb.start <= rb.end

Stored == Cell \cup {NoCell}

\* Below the modulus, % does nothing.
LEMMA SmallModulo ==
    ASSUME NEW a \in Nat, NEW m \in Nat, a < m
    PROVE  a % m = a
OBVIOUS

\* The queued cells are a sequence of end - start cells.
LEMMA ContentsSeq ==
    ASSUME NEW rb \in Ring, Ordered(rb)
    PROVE  /\ Contents(rb) \in Seq(Stored)
           /\ Len(Contents(rb)) = rb.end - rb.start
           /\ \A i \in 1 .. rb.end - rb.start :
                  Contents(rb)[i] = rb.buffer[rb.start + i - 1]
<1>. DEFINE n == rb.end - rb.start
<1>1. n \in Nat /\ rb.start \in Nat /\ rb.end \in 0..Capacity
    BY SizesAssumption DEF Ring, Ordered
<1>2. \A i \in 1..n : rb.buffer[rb.start + i - 1] \in Stored
    <2>. SUFFICES ASSUME NEW i \in 1..n PROVE rb.buffer[rb.start + i - 1] \in Stored
        OBVIOUS
    <2>1. rb.start + i - 1 \in 0..Capacity
        BY <1>1, SizesAssumption
    <2>. QED BY <2>1 DEF Ring, Stored
<1>3. Contents(rb) = [i \in 1..n |-> rb.buffer[rb.start + i - 1]]
    BY DEF Contents
<1>4. Contents(rb) \in [1..n -> Stored]
    BY <1>2, <1>3
<1>5. Contents(rb) \in Seq(Stored) /\ Len(Contents(rb)) = n
    BY <1>1, <1>4, SeqDef, LenProperties
<1>. QED BY <1>3, <1>5

\* While the indices are in order the % of RingBuffer_available_data is idle.
LEMMA AvailableData ==
    ASSUME NEW rb \in Ring
    PROVE  RingBuffer_available_data(rb) = rb.end - rb.start
<1>1. rb.end \in 0..Capacity /\ rb.length = Capacity + 1
    BY DEF Ring
<1>2. rb.end % rb.length = rb.end
    BY <1>1, SizesAssumption
<1>. QED BY <1>2 DEF RingBuffer_available_data

\* A write's reset gives back the drained cells and never touches queued ones.
LEMMA ResetProperties ==
    ASSUME NEW rb \in Ring, Ordered(rb)
    PROVE  /\ ResetIfDrained(rb) \in Ring
           /\ Ordered(ResetIfDrained(rb))
           /\ ResetIfDrained(rb).end - ResetIfDrained(rb).start = rb.end - rb.start
           /\ ResetIfDrained(rb).buffer = rb.buffer
           /\ rb.end # rb.start => ResetIfDrained(rb) = rb
           /\ rb.end = rb.start => ResetIfDrained(rb).end = 0
           /\ Contents(ResetIfDrained(rb)) = Contents(rb)
<1>1. CASE rb.end = rb.start
    <2>1. ResetIfDrained(rb) = [rb EXCEPT !.start = 0, !.end = 0]
        BY <1>1, AvailableData, SizesAssumption DEF ResetIfDrained, RingbBuffer_flush, Ring
    <2>2. ResetIfDrained(rb) \in Ring /\ ResetIfDrained(rb).buffer = rb.buffer
          /\ ResetIfDrained(rb).start = 0 /\ ResetIfDrained(rb).end = 0
        <3>1. 0 \in 0..Capacity
            BY SizesAssumption
        <3>. QED BY <2>1, <3>1 DEF Ring
    <2>3. Contents(rb) = << >> /\ Contents(ResetIfDrained(rb)) = << >>
        BY <1>1, <2>2, ContentsSeq, EmptySeq, SizesAssumption DEF Ordered, Ring
    <2>. QED BY <1>1, <2>2, <2>3, SizesAssumption DEF Ordered, Ring
<1>2. CASE rb.end # rb.start
    <2>1. RingBuffer_available_data(rb) # 0
        BY <1>2, AvailableData, SizesAssumption DEF Ring
    <2>. QED BY <1>2, <2>1 DEF ResetIfDrained
<1>. QED BY <1>1, <1>2

\* The memcpy of a write that fits changes no queued cell and puts the packet
\* just behind them.
LEMMA CopyInProperties ==
    ASSUME NEW rb \in Ring, Ordered(rb), NEW d \in [1..PacketLen -> Cell],
           rb.end + PacketLen <= Capacity
    PROVE  /\ CopyIn(rb, d) \in Ring
           /\ CopyIn(rb, d).start = rb.start
           /\ CopyIn(rb, d).end = rb.end
           /\ \A i \in 1..PacketLen : CopyIn(rb, d).buffer[rb.end + i - 1] = d[i]
           /\ Contents(CopyIn(rb, d)) = Contents(rb)
<1>. DEFINE new == CopyIn(rb, d)
<1>1. Len(d) = PacketLen
    BY SizesAssumption, SeqDef, LenProperties
<1>2. rb.start \in 0..Capacity /\ rb.end \in 0..Capacity /\ rb.length = Capacity + 1
      /\ rb.buffer \in [0..Capacity -> Stored]
    BY DEF Ring, Stored
<1>3. new.buffer = [i \in 0..Capacity |->
                      IF i \in rb.end .. rb.end + PacketLen - 1
                        THEN d[i - rb.end + 1] ELSE rb.buffer[i]]
      /\ new.start = rb.start /\ new.end = rb.end /\ new.length = rb.length
    BY <1>1, <1>2 DEF CopyIn, Ring
<1>4. new.buffer \in [0..Capacity -> Stored]
    <2>. SUFFICES ASSUME NEW i \in 0..Capacity
                  PROVE  (IF i \in rb.end .. rb.end + PacketLen - 1
                            THEN d[i - rb.end + 1] ELSE rb.buffer[i]) \in Stored
        BY <1>3
    <2>1. CASE i \in rb.end .. rb.end + PacketLen - 1
        <3>1. i - rb.end + 1 \in 1..PacketLen
            BY <2>1, <1>2, SizesAssumption
        <3>. QED BY <3>1, <2>1 DEF Stored
    <2>2. CASE i \notin rb.end .. rb.end + PacketLen - 1
        BY <2>2, <1>2
    <2>. QED BY <2>1, <2>2
<1>5. new \in Ring
    BY <1>2, <1>3, <1>4 DEF Ring, CopyIn, Stored
<1>6. ASSUME NEW i \in 1..PacketLen PROVE new.buffer[rb.end + i - 1] = d[i]
    <2>1. rb.end + i - 1 \in 0..Capacity /\ rb.end + i - 1 \in rb.end .. rb.end + PacketLen - 1
          /\ (rb.end + i - 1) - rb.end + 1 = i
        BY <1>2, SizesAssumption
    <2>. QED BY <2>1, <1>3
<1>7. ASSUME NEW i \in 1 .. rb.end - rb.start
      PROVE  new.buffer[rb.start + i - 1] = rb.buffer[rb.start + i - 1]
    <2>1. rb.start + i - 1 \in 0..Capacity
          /\ rb.start + i - 1 \notin rb.end .. rb.end + PacketLen - 1
        BY <1>2, SizesAssumption DEF Ordered
    <2>. QED BY <2>1, <1>3
<1>8. Contents(new) = Contents(rb)
    BY <1>3, <1>7 DEF Contents
<1>. QED BY <1>3, <1>5, <1>6, <1>8

\* The commit of a write makes the copied packet the last of the queue.
LEMMA CommitWriteProperties ==
    ASSUME NEW rb \in Ring, Ordered(rb), NEW d \in [1..PacketLen -> Cell],
           rb.end + PacketLen <= Capacity,
           \A i \in 1..PacketLen : rb.buffer[rb.end + i - 1] = d[i]
    PROVE  /\ RingBuffer_commit_write(rb, PacketLen) \in Ring
           /\ Ordered(RingBuffer_commit_write(rb, PacketLen))
           /\ RingBuffer_commit_write(rb, PacketLen).start = rb.start
           /\ RingBuffer_commit_write(rb, PacketLen).end = rb.end + PacketLen
           /\ Contents(RingBuffer_commit_write(rb, PacketLen)) = Contents(rb) \o d
<1>. DEFINE new == RingBuffer_commit_write(rb, PacketLen)
<1>1. rb.start \in 0..Capacity /\ rb.end \in 0..Capacity /\ rb.length = Capacity + 1
    BY DEF Ring
<1>2. (rb.end + PacketLen) % rb.length = rb.end + PacketLen
    <2>1. rb.end + PacketLen \in Nat /\ rb.length \in Nat /\ rb.end + PacketLen < rb.length
        BY <1>1, SizesAssumption
    <2>. QED BY <2>1, SmallModulo
<1>3. new = [rb EXCEPT !.end = rb.end + PacketLen]
    BY <1>2 DEF RingBuffer_commit_write
<1>4. new \in Ring /\ new.start = rb.start /\ new.end = rb.end + PacketLen
      /\ new.buffer = rb.buffer
    <2>1. rb.end + PacketLen \in 0..Capacity
        BY <1>1, SizesAssumption
    <2>. QED BY <2>1, <1>3 DEF Ring
<1>5. Ordered(new)
    BY <1>1, <1>4, SizesAssumption DEF Ordered
<1>6. d \in Seq(Stored) /\ Len(d) = PacketLen
    <2>1. d \in [1..PacketLen -> Stored]
        BY DEF Stored
    <2>. QED BY <2>1, SizesAssumption, SeqDef, LenProperties
<1>7. Contents(rb) \in Seq(Stored) /\ Len(Contents(rb)) = rb.end - rb.start
    BY ContentsSeq
<1>. HIDE DEF new
<1>8. /\ Contents(new) \in Seq(Stored)
      /\ Len(Contents(new)) = new.end - new.start
      /\ \A i \in 1 .. new.end - new.start :
             Contents(new)[i] = new.buffer[new.start + i - 1]
    BY <1>4, <1>5, ContentsSeq
<1>9. /\ Contents(rb) \o d \in Seq(Stored)
      /\ Len(Contents(rb) \o d) = Len(Contents(rb)) + Len(d)
      /\ \A i \in 1 .. Len(Contents(rb)) + Len(d) :
            (Contents(rb) \o d)[i] = IF i <= Len(Contents(rb)) THEN Contents(rb)[i]
                                      ELSE d[i - Len(Contents(rb))]
    BY <1>6, <1>7, ConcatProperties
<1>10. rb.end + PacketLen - rb.start = (rb.end - rb.start) + PacketLen
    BY <1>1, SizesAssumption
<1>11. ASSUME NEW i \in 1 .. (rb.end - rb.start) + PacketLen
       PROVE  Contents(new)[i] = (Contents(rb) \o d)[i]
    <2>1. Contents(new)[i] = rb.buffer[rb.start + i - 1]
        <3>1. new.end - new.start = (rb.end - rb.start) + PacketLen
            BY <1>1, <1>4, SizesAssumption
        <3>2. Contents(new)[i] = new.buffer[new.start + i - 1]
            BY <1>8, <3>1
        <3>. QED BY <1>4, <3>2
    <2>2. (Contents(rb) \o d)[i] = IF i <= rb.end - rb.start THEN Contents(rb)[i]
                                    ELSE d[i - (rb.end - rb.start)]
        BY <1>6, <1>7, <1>9
    <2>3. CASE i <= rb.end - rb.start
        <3>1. i \in 1 .. rb.end - rb.start
            BY <2>3, <1>1
        <3>2. Contents(rb)[i] = rb.buffer[rb.start + i - 1]
            BY <3>1, ContentsSeq
        <3>. QED BY <2>1, <2>2, <2>3, <3>2
    <2>4. CASE ~(i <= rb.end - rb.start)
        <3>. DEFINE j == i - (rb.end - rb.start)
        <3>1. j \in 1..PacketLen /\ rb.end + j - 1 = rb.start + i - 1
            BY <2>4, <1>1, SizesAssumption
        <3>2. rb.buffer[rb.end + j - 1] = d[j]
            BY <3>1
        <3>. QED BY <2>1, <2>2, <2>4, <3>1, <3>2
    <2>. QED BY <2>3, <2>4
<1>12. Contents(new) = Contents(rb) \o d
    <2>1. Len(Contents(new)) = (rb.end - rb.start) + PacketLen
          /\ Len(Contents(rb) \o d) = (rb.end - rb.start) + PacketLen
        <3>1. Len(Contents(new)) = (rb.end - rb.start) + PacketLen
            BY <1>1, <1>4, <1>8, SizesAssumption
        <3>2. Len(Contents(rb) \o d) = (rb.end - rb.start) + PacketLen
            BY <1>6, <1>7, <1>9
        <3>. QED BY <3>1, <3>2
    <2>. QED BY <1>8, <1>9, <1>11, <2>1, SeqEqual
<1>. QED BY <1>4, <1>5, <1>12 DEF new

\* The commit of a read takes the first packet off the queue, and the reset of a
\* drained buffer that may follow changes nothing a caller can see.
LEMMA CommitReadProperties ==
    ASSUME NEW rb \in Ring, Ordered(rb), rb.end - rb.start >= PacketLen
    PROVE  /\ RingBuffer_commit_read(rb, PacketLen) \in Ring
           /\ Ordered(RingBuffer_commit_read(rb, PacketLen))
           /\ RingBuffer_commit_read(rb, PacketLen).end
                - RingBuffer_commit_read(rb, PacketLen).start
              = rb.end - rb.start - PacketLen
           /\ Contents(RingBuffer_commit_read(rb, PacketLen))
                = SubSeq(Contents(rb), PacketLen + 1, Len(Contents(rb)))
<1>. DEFINE new == RingBuffer_commit_read(rb, PacketLen)
            rest == SubSeq(Contents(rb), PacketLen + 1, Len(Contents(rb)))
<1>1. rb.start \in 0..Capacity /\ rb.end \in 0..Capacity /\ rb.length = Capacity + 1
    BY DEF Ring
<1>2. (rb.start + PacketLen) % rb.length = rb.start + PacketLen
    <2>1. rb.start + PacketLen \in Nat /\ rb.length \in Nat /\ rb.start + PacketLen < rb.length
        BY <1>1, SizesAssumption
    <2>. QED BY <2>1, SmallModulo
<1>3. /\ Contents(rb) \in Seq(Stored)
      /\ Len(Contents(rb)) = rb.end - rb.start
      /\ \A i \in 1 .. rb.end - rb.start : Contents(rb)[i] = rb.buffer[rb.start + i - 1]
    BY ContentsSeq
<1>4. /\ rest \in Seq(Stored)
      /\ Len(rest) = rb.end - rb.start - PacketLen
      /\ \A i \in 1 .. rb.end - rb.start - PacketLen :
             rest[i] = Contents(rb)[PacketLen + i]
    <2>. DEFINE m == PacketLen + 1
                n == Len(Contents(rb))
    <2>1. m \in Int /\ n \in Int /\ \A i \in m..n : Contents(rb)[i] \in Stored
        BY <1>1, <1>3, ElementOfSeq, SizesAssumption
    <2>2. /\ rest \in Seq(Stored)
          /\ Len(rest) = IF m <= n THEN n - m + 1 ELSE 0
          /\ \A i \in 1 .. n - m + 1 : rest[i] = Contents(rb)[m + i - 1]
        BY <2>1, SubSeqProperties
    <2>3. n - m + 1 = rb.end - rb.start - PacketLen
          /\ \A i \in 1 .. n - m + 1 : m + i - 1 = PacketLen + i
        BY <1>1, <1>3, SizesAssumption
    <2>4. Len(rest) = rb.end - rb.start - PacketLen
        BY <1>1, <1>3, <2>2, SizesAssumption
    <2>. QED BY <2>2, <2>3, <2>4
<1>5. CASE rb.end = rb.start + PacketLen
    <2>1. new = [rb EXCEPT !.start = 0, !.end = 0]
        BY <1>2, <1>5 DEF RingBuffer_commit_read, RingbBuffer_flush
    <2>2. new \in Ring /\ new.start = 0 /\ new.end = 0
        <3>1. 0 \in 0..Capacity
            BY SizesAssumption
        <3>. QED BY <2>1, <3>1 DEF Ring
    <2>3. Ordered(new)
        BY <2>2 DEF Ordered
    <2>4. Contents(new) \in Seq(Stored) /\ Len(Contents(new)) = 0
        <3>. HIDE DEF new
        <3>. QED BY <2>2, <2>3, ContentsSeq
    <2>5. Len(rest) = 0
        BY <1>1, <1>4, <1>5, SizesAssumption
    <2>6. Contents(new) = rest
        BY <1>4, <2>4, <2>5, SeqEqual
    <2>. QED BY <1>1, <1>5, <2>2, <2>3, <2>6, SizesAssumption
<1>6. CASE rb.end # rb.start + PacketLen
    <2>1. new = [rb EXCEPT !.start = rb.start + PacketLen]
        BY <1>2, <1>6 DEF RingBuffer_commit_read
    <2>2. new \in Ring /\ new.start = rb.start + PacketLen /\ new.end = rb.end
          /\ new.buffer = rb.buffer
        <3>1. rb.start + PacketLen \in 0..Capacity
            BY <1>1, SizesAssumption
        <3>. QED BY <2>1, <3>1 DEF Ring
    <2>3. Ordered(new)
        BY <1>1, <2>2, SizesAssumption DEF Ordered
    <2>. HIDE DEF new
    <2>4. /\ Contents(new) \in Seq(Stored)
          /\ Len(Contents(new)) = new.end - new.start
          /\ \A i \in 1 .. new.end - new.start :
                 Contents(new)[i] = new.buffer[new.start + i - 1]
        BY <2>2, <2>3, ContentsSeq
    <2>5. new.end - new.start = rb.end - rb.start - PacketLen
        BY <1>1, <2>2, SizesAssumption
    <2>6. ASSUME NEW i \in 1 .. rb.end - rb.start - PacketLen
          PROVE  Contents(new)[i] = rest[i]
        <3>1. Contents(new)[i] = rb.buffer[rb.start + PacketLen + i - 1]
            BY <2>2, <2>4, <2>5
        <3>2. PacketLen + i \in 1 .. rb.end - rb.start
              /\ rb.start + (PacketLen + i) - 1 = rb.start + PacketLen + i - 1
            BY <1>1, SizesAssumption
        <3>3. Contents(rb)[PacketLen + i] = rb.buffer[rb.start + PacketLen + i - 1]
            BY <1>3, <3>2
        <3>. QED BY <1>4, <3>1, <3>3
    <2>7. Contents(new) = rest
        BY <1>4, <2>4, <2>5, <2>6, SeqEqual
    <2>. QED BY <2>2, <2>3, <2>5, <2>7 DEF new
<1>. QED BY <1>5, <1>6

\* The memcpy of a read copies the first packet of the queue.
LEMMA CopyOutProperties ==
    ASSUME NEW rb \in Ring, Ordered(rb), rb.end - rb.start >= PacketLen
    PROVE  /\ CopyOut(rb, PacketLen) \in [1..PacketLen -> Stored]
           /\ CopyOut(rb, PacketLen) = SubSeq(Contents(rb), 1, PacketLen)
<1>1. rb.start \in 0..Capacity /\ rb.end \in 0..Capacity
    BY DEF Ring
<1>2. /\ Contents(rb) \in Seq(Stored)
      /\ Len(Contents(rb)) = rb.end - rb.start
      /\ \A i \in 1 .. rb.end - rb.start : Contents(rb)[i] = rb.buffer[rb.start + i - 1]
    BY ContentsSeq
<1>3. \A i \in 1..PacketLen : i \in 1 .. rb.end - rb.start /\ Contents(rb)[i] \in Stored
    BY <1>1, <1>2, ElementOfSeq, SizesAssumption
<1>4. /\ SubSeq(Contents(rb), 1, PacketLen) \in Seq(Stored)
      /\ Len(SubSeq(Contents(rb), 1, PacketLen)) = PacketLen
      /\ \A i \in 1..PacketLen : SubSeq(Contents(rb), 1, PacketLen)[i] = Contents(rb)[i]
    <2>1. PacketLen - 1 + 1 = PacketLen /\ 1 <= PacketLen /\ PacketLen \in Int /\ 1 \in Int
        BY SizesAssumption
    <2>2. \A i \in 1..PacketLen : 1 + i - 1 = i
        BY SizesAssumption
    <2>3. /\ SubSeq(Contents(rb), 1, PacketLen) \in Seq(Stored)
          /\ Len(SubSeq(Contents(rb), 1, PacketLen)) =
                 IF 1 <= PacketLen THEN PacketLen - 1 + 1 ELSE 0
          /\ \A i \in 1 .. PacketLen - 1 + 1 :
                 SubSeq(Contents(rb), 1, PacketLen)[i] = Contents(rb)[1 + i - 1]
        BY <1>3, <2>1, SubSeqProperties
    <2>. QED BY <2>1, <2>2, <2>3
<1>5. CopyOut(rb, PacketLen) = [i \in 1..PacketLen |-> Contents(rb)[i]]
    BY <1>2, <1>3 DEF CopyOut
<1>6. CopyOut(rb, PacketLen) \in [1..PacketLen -> Stored]
    BY <1>3, <1>5
<1>7. CopyOut(rb, PacketLen) \in Seq(Stored) /\ Len(CopyOut(rb, PacketLen)) = PacketLen
    BY <1>6, SeqDef, LenProperties, SizesAssumption
<1>8. CopyOut(rb, PacketLen) = SubSeq(Contents(rb), 1, PacketLen)
    BY <1>4, <1>5, <1>7, SeqEqual
<1>. QED BY <1>6, <1>8
-----------------------------------------------------------------------------
(* The inductive invariant                                                 *)

\* A count of packets never exceeds the cells they take.
LEMMA PacketCount ==
    ASSUME NEW n \in Nat, n * PacketLen <= Capacity
    PROVE  n \in 0..Capacity
<1>1. n <= n * PacketLen
    BY SizesAssumption
<1>. QED BY <1>1, SizesAssumption

LEMMA AddPacket ==
    ASSUME NEW n \in Nat, n * PacketLen + PacketLen <= Capacity
    PROVE  /\ n + 1 \in 0..Capacity
           /\ (n + 1) * PacketLen = n * PacketLen + PacketLen
<1>1. (n + 1) * PacketLen = n * PacketLen + PacketLen
    BY SizesAssumption
<1>. QED BY <1>1, PacketCount, SizesAssumption

LEMMA RemovePacket ==
    ASSUME NEW n \in Nat, n * PacketLen <= Capacity, n * PacketLen >= PacketLen
    PROVE  /\ n - 1 \in 0..Capacity
           /\ (n - 1) * PacketLen = n * PacketLen - PacketLen
<1>1. n # 0
    BY SizesAssumption
<1>2. (n - 1) * PacketLen = n * PacketLen - PacketLen
    BY SizesAssumption
<1>3. n \in 0..Capacity
    BY PacketCount
<1>. QED BY <1>1, <1>2, <1>3, SizesAssumption

\* Fewer cells than a packet needs means no cell at all.
LEMMA NoPartPacket ==
    ASSUME NEW n \in Nat, n * PacketLen < PacketLen
    PROVE  n * PacketLen = 0
<1>1. CASE n = 0
    BY <1>1, SizesAssumption
<1>2. CASE n # 0
    <2>1. n * PacketLen >= PacketLen
        BY <1>2, SizesAssumption
    <2>. QED BY <2>1, SizesAssumption
<1>. QED BY <1>1, <1>2

\* The mutex: while one thread is inside a call every other one is outside.
LEMMA MutualExclusion ==
    ASSUME IInv, NEW t \in Threads, pc[t] # "idle", NEW u \in Threads, u # t
    PROVE  pc[u] = "idle"
BY DEF IInv, LockHeld

\* The struct as created satisfies what every step keeps.
LEMMA InitInv == Init => IInv
<1>. SUFFICES ASSUME Init PROVE IInv
    OBVIOUS
<1>1. fifo = RingBuffer_create(Capacity) /\ fifo.start = 0 /\ fifo.end = 0
    BY DEF Init, RingBuffer_create
<1>2. fifo \in Ring
    BY <1>1, SizesAssumption DEF RingBuffer_create, Ring
<1>3. TypeOK
    BY <1>2, SizesAssumption DEF TypeOK, Init
<1>4. IndicesInOrder
    BY <1>1, SizesAssumption DEF IndicesInOrder
<1>5. WholePackets
    <2>1. 0 \in 0..Capacity /\ 0 - 0 = 0 * PacketLen
        BY SizesAssumption
    <2>. QED BY <1>1, <2>1 DEF WholePackets
<1>6. LockHeld /\ Roles /\ PacketInPlace /\ PacketStillQueued
    BY DEF Init, LockHeld, Roles, PacketInPlace, PacketStillQueued
<1>. QED BY <1>3, <1>4, <1>5, <1>6 DEF IInv

LEMMA PutLockInv ==
    ASSUME IInv, NEW t \in Producers, NEW p \in Packets, PutLock(t, p)
    PROVE  IInv'
<1>. USE DEF PutLock, Lock
<1>1. \A u \in Threads : pc[u] = "idle"
    BY ThreadsAssumption DEF IInv, LockHeld
<1>2. TypeOK'
    BY DEF IInv, TypeOK
<1>3. IndicesInOrder' /\ WholePackets'
    BY DEF IInv, IndicesInOrder, WholePackets
<1>4. LockHeld' /\ Roles'
    BY <1>1, RolesAssumption DEF IInv, TypeOK, LockHeld, Roles
<1>5. PacketInPlace' /\ PacketStillQueued'
    BY <1>1, RolesAssumption DEF IInv, TypeOK, PacketInPlace, PacketStillQueued
<1>. QED BY <1>2, <1>3, <1>4, <1>5 DEF IInv

LEMMA PutCopyInv ==
    ASSUME IInv, NEW t \in Producers, PutCopy(t)
    PROVE  IInv'
<1>. DEFINE rb == ResetIfDrained(fifo)
<1>1. \A u \in Threads : u # t => pc[u] = "idle"
    BY MutualExclusion DEF PutCopy
<1>2. fifo \in Ring /\ Ordered(fifo)
    BY DEF IInv, TypeOK, IndicesInOrder, Ordered
<1>3. rb \in Ring /\ Ordered(rb) /\ rb.end - rb.start = fifo.end - fifo.start
    BY <1>2, ResetProperties
<1>4. data[t] \in [1..PacketLen -> Cell]
    BY PacketsAssumption DEF IInv, Roles, PutCopy
<1>. HIDE DEF rb
<1>5. rb.end + PacketLen <= Capacity
    BY <1>3, SizesAssumption DEF PutCopy, HasSpace, RingBuffer_available_space, Ring, rb
<1>6. fifo' = CopyIn(rb, data[t])
    BY DEF PutCopy, rb
<1>7. /\ fifo' \in Ring
      /\ fifo'.start = rb.start
      /\ fifo'.end = rb.end
      /\ \A i \in 1..PacketLen : fifo'.buffer[rb.end + i - 1] = data[t][i]
    BY <1>3, <1>4, <1>5, <1>6, CopyInProperties
<1>8. pc' = [pc EXCEPT ![t] = "commit_write"] /\ pc[t] = "put"
      /\ UNCHANGED <<lock, data, target, ret>>
    BY DEF PutCopy
<1>9. TypeOK'
    BY <1>7, <1>8 DEF IInv, TypeOK
<1>10. IndicesInOrder'
    BY <1>3, <1>7, SizesAssumption DEF IndicesInOrder, Ordered, Ring
<1>11. WholePackets'
    BY <1>3, <1>7 DEF IInv, WholePackets
<1>12. LockHeld' /\ Roles'
    BY <1>8, RolesAssumption DEF IInv, TypeOK, LockHeld, Roles
<1>13. PacketInPlace'
    BY <1>1, <1>5, <1>7, <1>8 DEF IInv, TypeOK, PacketInPlace
<1>14. PacketStillQueued'
    BY <1>1, <1>8, RolesAssumption DEF IInv, TypeOK, PacketStillQueued
<1>. QED BY <1>9, <1>10, <1>11, <1>12, <1>13, <1>14 DEF IInv

LEMMA PutCommitInv ==
    ASSUME IInv, NEW t \in Producers, PutCommit(t)
    PROVE  IInv'
<1>1. \A u \in Threads : u # t => pc[u] = "idle"
    BY MutualExclusion DEF PutCommit
<1>2. fifo \in Ring /\ Ordered(fifo)
    BY DEF IInv, TypeOK, IndicesInOrder, Ordered
<1>3. data[t] \in [1..PacketLen -> Cell]
    BY PacketsAssumption DEF IInv, Roles, PutCommit
<1>4. fifo.end + PacketLen <= Capacity
      /\ \A i \in 1..PacketLen : fifo.buffer[fifo.end + i - 1] = data[t][i]
    BY DEF IInv, PacketInPlace, PutCommit
<1>5. fifo' \in Ring /\ Ordered(fifo') /\ fifo'.start = fifo.start
      /\ fifo'.end = fifo.end + PacketLen
    BY <1>2, <1>3, <1>4, CommitWriteProperties DEF PutCommit
<1>6. pc' = [pc EXCEPT ![t] = "unlock"] /\ pc[t] = "commit_write"
      /\ ret' = [ret EXCEPT ![t] = PacketLen] /\ UNCHANGED <<lock, data, target>>
    BY DEF PutCommit
<1>7. TypeOK'
    BY <1>5, <1>6 DEF IInv, TypeOK
<1>8. IndicesInOrder'
    BY <1>5, SizesAssumption DEF IndicesInOrder, Ordered, Ring
<1>9. WholePackets'
    <2>1. PICK n \in 0..Capacity : fifo.end - fifo.start = n * PacketLen
        BY DEF IInv, WholePackets
    <2>2. n * PacketLen + PacketLen <= Capacity
        BY <1>2, <1>4, <2>1, SizesAssumption DEF Ring
    <2>3. n + 1 \in 0..Capacity /\ (n + 1) * PacketLen = n * PacketLen + PacketLen
        BY <2>2, AddPacket, SizesAssumption
    <2>4. fifo'.end - fifo'.start = (n + 1) * PacketLen
        BY <1>2, <1>5, <2>1, <2>3, SizesAssumption DEF Ring
    <2>. QED BY <2>3, <2>4 DEF WholePackets
<1>10. LockHeld' /\ Roles'
    BY <1>6 DEF IInv, TypeOK, LockHeld, Roles
<1>11. PacketInPlace' /\ PacketStillQueued'
    BY <1>1, <1>6 DEF IInv, TypeOK, PacketInPlace, PacketStillQueued
<1>. QED BY <1>7, <1>8, <1>9, <1>10, <1>11 DEF IInv

LEMMA PutRefusedInv ==
    ASSUME IInv, NEW t \in Producers, PutRefused(t)
    PROVE  IInv'
<1>1. \A u \in Threads : u # t => pc[u] = "idle"
    BY MutualExclusion DEF PutRefused
<1>2. fifo \in Ring /\ Ordered(fifo)
    BY DEF IInv, TypeOK, IndicesInOrder, Ordered
<1>3. fifo' = ResetIfDrained(fifo)
    BY DEF PutRefused
<1>4. fifo' \in Ring /\ Ordered(fifo') /\ fifo'.end - fifo'.start = fifo.end - fifo.start
    BY <1>2, <1>3, ResetProperties
<1>5. pc' = [pc EXCEPT ![t] = "unlock"] /\ ret' = [ret EXCEPT ![t] = -4]
      /\ UNCHANGED <<lock, data, target>> /\ pc[t] = "put"
    BY DEF PutRefused
<1>6. TypeOK'
    BY <1>4, <1>5 DEF IInv, TypeOK
<1>7. IndicesInOrder'
    BY <1>4, SizesAssumption DEF IndicesInOrder, Ordered, Ring
<1>8. WholePackets'
    BY <1>4 DEF IInv, WholePackets
<1>9. LockHeld' /\ Roles'
    BY <1>5 DEF IInv, TypeOK, LockHeld, Roles
<1>10. PacketInPlace' /\ PacketStillQueued'
    BY <1>1, <1>5 DEF IInv, TypeOK, PacketInPlace, PacketStillQueued
<1>. QED BY <1>6, <1>7, <1>8, <1>9, <1>10 DEF IInv

LEMMA PopLockInv ==
    ASSUME IInv, NEW t \in Consumers, PopLock(t)
    PROVE  IInv'
<1>. USE DEF PopLock, Lock
<1>1. \A u \in Threads : pc[u] = "idle"
    BY ThreadsAssumption DEF IInv, LockHeld
<1>2. TypeOK'
    BY DEF IInv, TypeOK
<1>3. IndicesInOrder' /\ WholePackets'
    BY DEF IInv, IndicesInOrder, WholePackets
<1>4. LockHeld' /\ Roles'
    BY <1>1, RolesAssumption DEF IInv, TypeOK, LockHeld, Roles
<1>5. PacketInPlace' /\ PacketStillQueued'
    BY <1>1 DEF IInv, TypeOK, PacketInPlace, PacketStillQueued
<1>. QED BY <1>2, <1>3, <1>4, <1>5 DEF IInv

LEMMA PopCopyInv ==
    ASSUME IInv, NEW t \in Consumers, PopCopy(t)
    PROVE  IInv'
<1>1. \A u \in Threads : u # t => pc[u] = "idle"
    BY MutualExclusion DEF PopCopy
<1>2. fifo \in Ring /\ Ordered(fifo)
    BY DEF IInv, TypeOK, IndicesInOrder, Ordered
<1>3. fifo.end - fifo.start >= PacketLen
    BY <1>2, AvailableData DEF PopCopy
<1>4. CopyOut(fifo, PacketLen) \in [1..PacketLen -> Stored]
    BY <1>2, <1>3, CopyOutProperties
<1>5. pc' = [pc EXCEPT ![t] = "commit_read"] /\ pc[t] = "pop"
      /\ target' = [target EXCEPT ![t] = CopyOut(fifo, PacketLen)]
      /\ UNCHANGED <<fifo, lock, data, ret>>
    BY DEF PopCopy
<1>6. TypeOK'
    BY <1>4, <1>5 DEF IInv, TypeOK, Stored
<1>7. IndicesInOrder' /\ WholePackets'
    BY <1>5 DEF IInv, IndicesInOrder, WholePackets
<1>8. LockHeld' /\ Roles'
    BY <1>5, RolesAssumption DEF IInv, TypeOK, LockHeld, Roles
<1>9. PacketInPlace' /\ PacketStillQueued'
    BY <1>1, <1>3, <1>5 DEF IInv, TypeOK, PacketInPlace, PacketStillQueued
<1>. QED BY <1>6, <1>7, <1>8, <1>9 DEF IInv

LEMMA PopCommitInv ==
    ASSUME IInv, NEW t \in Consumers, PopCommit(t)
    PROVE  IInv'
<1>1. \A u \in Threads : u # t => pc[u] = "idle"
    BY MutualExclusion DEF PopCommit
<1>2. fifo \in Ring /\ Ordered(fifo)
    BY DEF IInv, TypeOK, IndicesInOrder, Ordered
<1>3. fifo.end - fifo.start >= PacketLen
    BY DEF IInv, PacketStillQueued, PopCommit
<1>4. fifo' \in Ring /\ Ordered(fifo')
      /\ fifo'.end - fifo'.start = fifo.end - fifo.start - PacketLen
    BY <1>2, <1>3, CommitReadProperties DEF PopCommit
<1>5. pc' = [pc EXCEPT ![t] = "unlock"] /\ ret' = [ret EXCEPT ![t] = PacketLen]
      /\ UNCHANGED <<lock, data, target>> /\ pc[t] = "commit_read"
    BY DEF PopCommit
<1>6. TypeOK'
    BY <1>4, <1>5 DEF IInv, TypeOK
<1>7. IndicesInOrder'
    BY <1>4, SizesAssumption DEF IndicesInOrder, Ordered, Ring
<1>8. WholePackets'
    <2>1. PICK n \in 0..Capacity : fifo.end - fifo.start = n * PacketLen
        BY DEF IInv, WholePackets
    <2>2. n * PacketLen <= Capacity /\ n * PacketLen >= PacketLen
        BY <1>2, <1>3, <2>1, SizesAssumption DEF Ring
    <2>3. n - 1 \in 0..Capacity /\ (n - 1) * PacketLen = n * PacketLen - PacketLen
        BY <2>2, RemovePacket, SizesAssumption
    <2>4. fifo'.end - fifo'.start = (n - 1) * PacketLen
        BY <1>4, <2>1, <2>3
    <2>. QED BY <2>3, <2>4 DEF WholePackets
<1>9. LockHeld' /\ Roles'
    BY <1>5 DEF IInv, TypeOK, LockHeld, Roles
<1>10. PacketInPlace' /\ PacketStillQueued'
    BY <1>1, <1>5 DEF IInv, TypeOK, PacketInPlace, PacketStillQueued
<1>. QED BY <1>6, <1>7, <1>8, <1>9, <1>10 DEF IInv

\* A pop that finds no whole packet finds nothing at all, so it returns 0.
LEMMA PopFindsNothing ==
    ASSUME IInv, NEW t \in Consumers, PopNothing(t)
    PROVE  fifo.end - fifo.start = 0 /\ ret' = [ret EXCEPT ![t] = 0]
<1>1. fifo \in Ring
    BY DEF IInv, TypeOK
<1>2. RingBuffer_available_data(fifo) = fifo.end - fifo.start
    BY <1>1, AvailableData
<1>3. PICK n \in 0..Capacity : fifo.end - fifo.start = n * PacketLen
    BY DEF IInv, WholePackets
<1>4. n * PacketLen < PacketLen
    BY <1>2, <1>3 DEF PopNothing
<1>5. fifo.end - fifo.start = 0
    BY <1>3, <1>4, NoPartPacket, SizesAssumption
<1>. QED BY <1>2, <1>5 DEF PopNothing

LEMMA PopNothingInv ==
    ASSUME IInv, NEW t \in Consumers, PopNothing(t)
    PROVE  IInv'
<1>1. \A u \in Threads : u # t => pc[u] = "idle"
    BY MutualExclusion DEF PopNothing
<1>2. pc' = [pc EXCEPT ![t] = "unlock"] /\ UNCHANGED <<fifo, lock, data, target>>
      /\ pc[t] = "pop"
    BY DEF PopNothing
<1>3. ret' = [ret EXCEPT ![t] = 0]
    BY PopFindsNothing
<1>4. TypeOK'
    BY <1>2, <1>3 DEF IInv, TypeOK
<1>5. IndicesInOrder' /\ WholePackets'
    BY <1>2 DEF IInv, IndicesInOrder, WholePackets
<1>6. LockHeld' /\ Roles'
    BY <1>2 DEF IInv, TypeOK, LockHeld, Roles
<1>7. PacketInPlace' /\ PacketStillQueued'
    BY <1>1, <1>2 DEF IInv, TypeOK, PacketInPlace, PacketStillQueued
<1>. QED BY <1>4, <1>5, <1>6, <1>7 DEF IInv

LEMMA UnlockInv ==
    ASSUME IInv, NEW t \in Threads, Unlock(t)
    PROVE  IInv'
<1>1. \A u \in Threads : u # t => pc[u] = "idle"
    BY MutualExclusion DEF Unlock
<1>2. pc' = [pc EXCEPT ![t] = "idle"] /\ lock' = NoThread
      /\ UNCHANGED <<fifo, data, target, ret>>
    BY DEF Unlock
<1>3. TypeOK'
    BY <1>2 DEF IInv, TypeOK
<1>4. IndicesInOrder' /\ WholePackets'
    BY <1>2 DEF IInv, IndicesInOrder, WholePackets
<1>5. LockHeld' /\ Roles'
    BY <1>1, <1>2 DEF IInv, TypeOK, LockHeld, Roles
<1>6. PacketInPlace' /\ PacketStillQueued'
    BY <1>1, <1>2 DEF IInv, TypeOK, PacketInPlace, PacketStillQueued
<1>. QED BY <1>3, <1>4, <1>5, <1>6 DEF IInv

\* Every step keeps the invariant, one action at a time.
LEMMA NextInv == IInv /\ [Next]_vars => IInv'
<1>. SUFFICES ASSUME IInv, [Next]_vars PROVE IInv'
    OBVIOUS
<1>1. ASSUME NEW t \in Producers, PutStep(t) PROVE IInv'
    BY <1>1, PutLockInv, PutCopyInv, PutCommitInv, PutRefusedInv DEF PutStep
<1>2. ASSUME NEW t \in Consumers, PopStep(t) PROVE IInv'
    BY <1>2, PopLockInv, PopCopyInv, PopCommitInv, PopNothingInv DEF PopStep
<1>3. ASSUME NEW t \in Threads, Unlock(t) PROVE IInv'
    BY <1>3, UnlockInv
<1>4. CASE UNCHANGED vars
    BY <1>4 DEF vars, IInv, TypeOK, IndicesInOrder, LockHeld, Roles, WholePackets,
                PacketInPlace, PacketStillQueued
<1>. QED BY <1>1, <1>2, <1>3, <1>4 DEF Next

\* The inductive invariant holds in every reachable state, for every number of
\* tasks, capacity and packet length.
THEOREM Invariant == Spec => []IInv
BY InitInv, NextInv, PTL DEF Spec

\* The channel's variables keep their types: the struct's indices stay within
\* its buffer, and a call returns -4, 0 or the whole packet length.
THEOREM TypeCorrect == Spec => []TypeOK
<1>1. IInv => TypeOK
    BY DEF IInv
<1>. QED BY <1>1, Invariant, PTL

\* start <= end <= Capacity in every reachable state: ringbuffer.c's two checks
\* for a negative amount never fire and its two % never wrap.
THEOREM IndicesStayInOrder == Spec => []IndicesInOrder
<1>1. IInv => IndicesInOrder
    BY DEF IInv
<1>. QED BY <1>1, Invariant, PTL

-----------------------------------------------------------------------------
(* The channel implements BoundedFifo                                      *)

\* With no consumer between its memcpy and its commit, callers see the ring as
\* it is, before a step and after it.
LEMMA NoReader ==
    ASSUME IInv, \A u \in Threads : pc[u] # "commit_read"
    PROVE  Queue = Contents(fifo) /\ Returned = ret
BY DEF Queue, Returned, IInv, TypeOK

LEMMA NoReaderAfter ==
    ASSUME IInv', \A u \in Threads : pc'[u] # "commit_read"
    PROVE  Queue' = Contents(fifo') /\ Returned' = ret'
BY DEF Queue, Returned, IInv, TypeOK

\* With one, the packet it has copied is already gone and its result is fixed.
LEMMA OneReader ==
    ASSUME IInv, NEW t \in Consumers, pc[t] = "commit_read"
    PROVE  /\ Queue = SubSeq(Contents(fifo), PacketLen + 1, Len(Contents(fifo)))
           /\ Returned = [ret EXCEPT ![t] = PacketLen]
<1>1. \A u \in Threads : u # t => pc[u] = "idle"
    BY MutualExclusion
<1>. QED BY <1>1 DEF Queue, Returned, IInv, TypeOK

LEMMA OneReaderAfter ==
    ASSUME IInv', NEW t \in Consumers, pc'[t] = "commit_read"
    PROVE  /\ Queue' = SubSeq(Contents(fifo'), PacketLen + 1, Len(Contents(fifo')))
           /\ Returned' = [ret' EXCEPT ![t] = PacketLen]
<1>1. \A u \in Threads : u # t => pc'[u] = "idle"
    BY DEF IInv, LockHeld
<1>. QED BY <1>1 DEF Queue, Returned, IInv, TypeOK

\* A producer's steps, an unlock and a failed pop move no reader.
LEMMA QuietStep ==
    ASSUME IInv, IInv', NEW t \in Threads, pc[t] # "commit_read",
           NEW l \in {"put", "commit_write", "pop", "unlock", "idle"},
           pc' = [pc EXCEPT ![t] = l], \A u \in Threads : u # t => pc[u] = "idle"
    PROVE  /\ Queue = Contents(fifo) /\ Returned = ret
           /\ Queue' = Contents(fifo') /\ Returned' = ret'
<1>1. \A u \in Threads : pc[u] # "commit_read" /\ pc'[u] # "commit_read"
    BY DEF IInv, TypeOK
<1>. QED BY <1>1, NoReader, NoReaderAfter

\* Taking and releasing the mutex is invisible.
LEMMA LockRefines ==
    ASSUME IInv, IInv', NEW t \in Threads, NEW l \in {"put", "pop"}, Lock(t, l),
           UNCHANGED <<fifo, target, ret>>
    PROVE  UNCHANGED Fifo!vars
<1>1. \A u \in Threads : pc[u] = "idle"
    BY ThreadsAssumption DEF IInv, LockHeld, Lock
<1>2. Queue' = Queue /\ Returned' = Returned
    BY <1>1, QuietStep DEF Lock
<1>. QED BY <1>2 DEF Fifo!vars

LEMMA UnlockRefines ==
    ASSUME IInv, IInv', NEW t \in Threads, Unlock(t)
    PROVE  UNCHANGED Fifo!vars
<1>1. \A u \in Threads : u # t => pc[u] = "idle"
    BY MutualExclusion DEF Unlock
<1>2. Queue' = Queue /\ Returned' = Returned
    BY <1>1, QuietStep DEF Unlock
<1>. QED BY <1>2 DEF Fifo!vars, Unlock

\* A producer's memcpy is invisible: it lands behind the queued cells.
LEMMA PutCopyRefines ==
    ASSUME IInv, IInv', NEW t \in Producers, PutCopy(t)
    PROVE  UNCHANGED Fifo!vars
<1>. DEFINE rb == ResetIfDrained(fifo)
<1>1. \A u \in Threads : u # t => pc[u] = "idle"
    BY MutualExclusion DEF PutCopy
<1>2. fifo \in Ring /\ Ordered(fifo)
    BY DEF IInv, TypeOK, IndicesInOrder, Ordered
<1>3. rb \in Ring /\ Ordered(rb) /\ Contents(rb) = Contents(fifo)
    BY <1>2, ResetProperties
<1>4. data[t] \in [1..PacketLen -> Cell]
    BY PacketsAssumption DEF IInv, Roles, PutCopy
<1>. HIDE DEF rb
<1>5. rb.end + PacketLen <= Capacity
    BY <1>3, SizesAssumption DEF PutCopy, HasSpace, RingBuffer_available_space, Ring, rb
<1>6. Contents(CopyIn(rb, data[t])) = Contents(rb)
    BY <1>3, <1>4, <1>5, CopyInProperties
<1>7. Contents(fifo') = Contents(fifo)
    BY <1>3, <1>6 DEF PutCopy, rb
<1>8. Queue' = Queue /\ Returned' = Returned
    BY <1>1, <1>7, QuietStep DEF PutCopy
<1>. QED BY <1>8 DEF Fifo!vars, PutCopy

\* The commit of `end` is the put.
LEMMA PutCommitRefines ==
    ASSUME IInv, IInv', NEW t \in Producers, PutCommit(t)
    PROVE  Fifo!Put(t, data[t]) /\ data[t] \in Packets
<1>1. \A u \in Threads : u # t => pc[u] = "idle"
    BY MutualExclusion DEF PutCommit
<1>2. fifo \in Ring /\ Ordered(fifo)
    BY DEF IInv, TypeOK, IndicesInOrder, Ordered
<1>3. data[t] \in Packets /\ data[t] \in [1..PacketLen -> Cell]
    BY PacketsAssumption DEF IInv, Roles, PutCommit
<1>4. fifo.end + PacketLen <= Capacity
      /\ \A i \in 1..PacketLen : fifo.buffer[fifo.end + i - 1] = data[t][i]
    BY DEF IInv, PacketInPlace, PutCommit
<1>5. Contents(fifo') = Contents(fifo) \o data[t]
    BY <1>2, <1>3, <1>4, CommitWriteProperties DEF PutCommit
<1>6. Queue = Contents(fifo) /\ Returned = ret
      /\ Queue' = Contents(fifo') /\ Returned' = ret'
    BY <1>1, QuietStep DEF PutCommit
<1>7. Len(Queue) + PacketLen <= Capacity
    <2>1. Len(Contents(fifo)) = fifo.end - fifo.start
        BY <1>2, ContentsSeq
    <2>. QED BY <1>2, <1>4, <1>6, <2>1, SizesAssumption DEF Ring
<1>. QED BY <1>3, <1>5, <1>6, <1>7 DEF Fifo!Put, PutCommit

\* A refused put: the write's reset has just run, so a ring without room for a
\* packet is a ring that is not drained.
LEMMA PutRefusedRefines ==
    ASSUME IInv, IInv', NEW t \in Producers, PutRefused(t)
    PROVE  Fifo!PutRefused(t)
<1>. DEFINE rb == ResetIfDrained(fifo)
<1>1. \A u \in Threads : u # t => pc[u] = "idle"
    BY MutualExclusion DEF PutRefused
<1>2. fifo \in Ring /\ Ordered(fifo)
    BY DEF IInv, TypeOK, IndicesInOrder, Ordered
<1>3. Contents(fifo') = Contents(fifo)
    BY <1>2, ResetProperties DEF PutRefused
<1>4. Queue = Contents(fifo) /\ Returned = ret
      /\ Queue' = Contents(fifo') /\ Returned' = ret'
    BY <1>1, QuietStep DEF PutRefused
<1>5. fifo.end # fifo.start
    <2>1. rb \in Ring /\ (fifo.end = fifo.start => rb.end = 0)
        BY <1>2, ResetProperties
    <2>2. ~HasSpace(rb, PacketLen)
        BY DEF PutRefused
    <2>. HIDE DEF rb
    <2>. QED BY <2>1, <2>2, SizesAssumption DEF HasSpace, RingBuffer_available_space, Ring
<1>6. Queue # << >>
    <2>1. Len(Contents(fifo)) = fifo.end - fifo.start
        BY <1>2, ContentsSeq
    <2>2. Len(Contents(fifo)) # 0
        BY <1>2, <1>5, <2>1, SizesAssumption DEF Ring
    <2>. QED BY <1>4, <2>2
<1>. QED BY <1>3, <1>4, <1>6 DEF Fifo!PutRefused, PutRefused

\* The memcpy of a read is the pop.
LEMMA PopCopyRefines ==
    ASSUME IInv, IInv', NEW t \in Consumers, PopCopy(t)
    PROVE  Fifo!Pop(t)
<1>1. \A u \in Threads : u # t => pc[u] = "idle"
    BY MutualExclusion DEF PopCopy
<1>2. fifo \in Ring /\ Ordered(fifo)
    BY DEF IInv, TypeOK, IndicesInOrder, Ordered
<1>3. fifo.end - fifo.start >= PacketLen
    BY <1>2, AvailableData DEF PopCopy
<1>4. CopyOut(fifo, PacketLen) = SubSeq(Contents(fifo), 1, PacketLen)
    BY <1>2, <1>3, CopyOutProperties
<1>5. \A u \in Threads : pc[u] # "commit_read"
    BY <1>1 DEF PopCopy
<1>6. Queue = Contents(fifo) /\ Returned = ret
    BY <1>5, NoReader
<1>7. pc'[t] = "commit_read" /\ fifo' = fifo /\ ret' = ret
      /\ target' = [target EXCEPT ![t] = CopyOut(fifo, PacketLen)]
    BY DEF PopCopy, IInv, TypeOK
<1>8. /\ Queue' = SubSeq(Contents(fifo'), PacketLen + 1, Len(Contents(fifo')))
      /\ Returned' = [ret' EXCEPT ![t] = PacketLen]
    BY <1>7, OneReaderAfter
<1>9. Queue' = SubSeq(Queue, PacketLen + 1, Len(Queue))
      /\ Returned' = [Returned EXCEPT ![t] = PacketLen]
      /\ target' = [target EXCEPT ![t] = SubSeq(Queue, 1, PacketLen)]
    BY <1>4, <1>6, <1>7, <1>8
<1>10. Len(Queue) >= PacketLen
    BY <1>2, <1>3, <1>6, ContentsSeq
<1>. QED BY <1>9, <1>10 DEF Fifo!Pop

\* The commit of `start` is invisible, with or without the reset behind it.
LEMMA PopCommitRefines ==
    ASSUME IInv, IInv', NEW t \in Consumers, PopCommit(t)
    PROVE  UNCHANGED Fifo!vars
<1>1. \A u \in Threads : u # t => pc[u] = "idle"
    BY MutualExclusion DEF PopCommit
<1>2. fifo \in Ring /\ Ordered(fifo) /\ fifo.end - fifo.start >= PacketLen
    BY DEF IInv, TypeOK, IndicesInOrder, Ordered, PacketStillQueued, PopCommit
<1>3. Contents(fifo') = SubSeq(Contents(fifo), PacketLen + 1, Len(Contents(fifo)))
    BY <1>2, CommitReadProperties DEF PopCommit
<1>4. /\ Queue = SubSeq(Contents(fifo), PacketLen + 1, Len(Contents(fifo)))
      /\ Returned = [ret EXCEPT ![t] = PacketLen]
    BY OneReader DEF PopCommit
<1>5. \A u \in Threads : pc'[u] # "commit_read"
    BY <1>1 DEF PopCommit, IInv, TypeOK
<1>6. Queue' = Contents(fifo') /\ Returned' = ret'
    BY <1>5, NoReaderAfter
<1>. QED BY <1>3, <1>4, <1>6 DEF Fifo!vars, PopCommit

LEMMA PopNothingRefines ==
    ASSUME IInv, IInv', NEW t \in Consumers, PopNothing(t)
    PROVE  Fifo!PopEmpty(t)
<1>1. \A u \in Threads : u # t => pc[u] = "idle"
    BY MutualExclusion DEF PopNothing
<1>2. fifo \in Ring /\ Ordered(fifo)
    BY DEF IInv, TypeOK, IndicesInOrder, Ordered
<1>3. fifo.end - fifo.start = 0 /\ ret' = [ret EXCEPT ![t] = 0]
    BY PopFindsNothing
<1>4. Contents(fifo) = << >>
    BY <1>2, <1>3, ContentsSeq, EmptySeq
<1>5. Queue = Contents(fifo) /\ Returned = ret
      /\ Queue' = Contents(fifo') /\ Returned' = ret'
    BY <1>1, QuietStep DEF PopNothing
<1>. QED BY <1>3, <1>4, <1>5 DEF Fifo!PopEmpty, PopNothing

\* Every step of the channel is a step of BoundedFifo or changes nothing it can
\* see.
LEMMA StepRefines ==
    ASSUME IInv, IInv', [Next]_vars
    PROVE  [Fifo!Next]_(Fifo!vars)
<1>1. ASSUME NEW t \in Producers, PutStep(t) PROVE [Fifo!Next]_(Fifo!vars)
    <2>1. ASSUME NEW p \in Packets, PutLock(t, p) PROVE UNCHANGED Fifo!vars
        BY <2>1, LockRefines DEF PutLock
    <2>2. ASSUME PutCommit(t) PROVE Fifo!Next
        BY <2>2, PutCommitRefines DEF Fifo!Next
    <2>3. ASSUME PutRefused(t) PROVE Fifo!Next
        BY <2>3, PutRefusedRefines DEF Fifo!Next
    <2>. QED BY <1>1, <2>1, <2>2, <2>3, PutCopyRefines DEF PutStep
<1>2. ASSUME NEW t \in Consumers, PopStep(t) PROVE [Fifo!Next]_(Fifo!vars)
    <2>1. ASSUME PopLock(t) PROVE UNCHANGED Fifo!vars
        BY <2>1, LockRefines DEF PopLock
    <2>2. ASSUME PopCopy(t) PROVE Fifo!Next
        BY <2>2, PopCopyRefines DEF Fifo!Next
    <2>3. ASSUME PopNothing(t) PROVE Fifo!Next
        BY <2>3, PopNothingRefines DEF Fifo!Next
    <2>. QED BY <1>2, <2>1, <2>2, <2>3, PopCommitRefines DEF PopStep
<1>3. ASSUME NEW t \in Threads, Unlock(t) PROVE [Fifo!Next]_(Fifo!vars)
    BY <1>3, UnlockRefines
<1>4. CASE UNCHANGED vars
    BY <1>4 DEF vars, Queue, Returned, Fifo!vars
<1>. QED BY <1>1, <1>2, <1>3, <1>4 DEF Next

LEMMA InitRefines == Init => Fifo!Init
<1>. SUFFICES ASSUME Init PROVE Fifo!Init
    OBVIOUS
<1>1. IInv
    BY InitInv
<1>2. fifo \in Ring /\ Ordered(fifo) /\ fifo.start = 0 /\ fifo.end = 0
    BY <1>1 DEF IInv, TypeOK, IndicesInOrder, Ordered, Init, RingBuffer_create
<1>3. Contents(fifo) = << >>
    BY <1>2, ContentsSeq, EmptySeq
<1>4. Queue = Contents(fifo) /\ Returned = ret
    BY <1>1, NoReader DEF Init
<1>. QED BY <1>3, <1>4 DEF Init, Fifo!Init

\* The channel of spi_transfer.c implements BoundedFifo for every number of
\* producers and consumers, every capacity and every packet length: put and pop
\* are atomic, lose nothing they accepted and keep the order.
THEOREM ImplementsBoundedFifo == Spec => ImplementsFifo
<1>1. IInv /\ IInv' /\ [Next]_vars => [Fifo!Next]_(Fifo!vars)
    BY StepRefines
<1>. QED BY <1>1, InitRefines, Invariant, PTL DEF Spec, ImplementsFifo, Fifo!Spec

-----------------------------------------------------------------------------
(* The rings of SpiTransfer, a packet to a cell                            *)

LEMMA RingType ==
    ASSUME NEW n \in Nat, NEW rb \in RingOf(n)
    PROVE  /\ rb \in [length : {n + 1}, start : 0..n, end : 0..n,
                      buffer : [0..n -> {Packet, NoCell}]]
           /\ rb.start <= rb.end
           /\ \A i \in rb.start .. rb.end - 1 : rb.buffer[i] = Packet
           /\ RingBuffer_available_data(rb) = rb.end - rb.start
<1>1. /\ rb \in [length : {n + 1}, start : 0..n, end : 0..n,
                 buffer : [0..n -> {Packet, NoCell}]]
      /\ rb.start <= rb.end
      /\ \A i \in rb.start .. rb.end - 1 : rb.buffer[i] = Packet
    BY DEF RingOf
<1>2. rb.end \in Nat /\ rb.length \in Nat /\ rb.end < rb.length
    BY <1>1
<1>. QED BY <1>1, <1>2, SmallModulo DEF RingBuffer_available_data

\* A new ring.
LEMMA DrainedRing ==
    ASSUME NEW n \in Nat, NEW b \in [0..n -> {Packet, NoCell}]
    PROVE  [length |-> n + 1, start |-> 0, end |-> 0, buffer |-> b] \in RingOf(n)
<1>1. 0 \in 0..n /\ \A i \in 0 .. 0 - 1 : FALSE
    OBVIOUS
<1>. QED BY <1>1 DEF RingOf

\* A ring flushed keeps its cells and queues none.
LEMMA FlushedRing ==
    ASSUME NEW n \in Nat, NEW rb \in RingOf(n)
    PROVE  RingbBuffer_flush(rb) \in RingOf(n)
<1>1. rb \in [length : {n + 1}, start : 0..n, end : 0..n, buffer : [0..n -> {Packet, NoCell}]]
    BY RingType
<1>2. 0 \in 0..n
    OBVIOUS
<1>3. /\ RingbBuffer_flush(rb) \in [length : {n + 1}, start : 0..n, end : 0..n,
                                    buffer : [0..n -> {Packet, NoCell}]]
      /\ RingbBuffer_flush(rb).start = 0 /\ RingbBuffer_flush(rb).end = 0
    BY <1>1, <1>2 DEF RingbBuffer_flush
<1>. QED BY <1>3 DEF RingOf

\* A packet written goes behind the others, or not at all.
LEMMA WrittenRing ==
    ASSUME NEW n \in Nat, NEW rb \in RingOf(n)
    PROVE  Write(rb) \in RingOf(n)
<1>. DEFINE room == ResetIfDrained(rb)
            b == CopyIn(room, <<Packet>>).buffer
<1>1. room \in RingOf(n)
    BY FlushedRing DEF ResetIfDrained
<1>. HIDE DEF room
<1>2. /\ room \in [length : {n + 1}, start : 0..n, end : 0..n,
                   buffer : [0..n -> {Packet, NoCell}]]
      /\ room.start <= room.end
      /\ \A i \in room.start .. room.end - 1 : room.buffer[i] = Packet
    BY <1>1, RingType
<1>3. CASE HasSpace(room, 1)
    <2>1. room.end + 1 \in 0..n /\ room.end + 1 \in Nat /\ room.end + 1 < room.length
        BY <1>2, <1>3 DEF HasSpace, RingBuffer_available_space
    <2>2. b = [i \in 0..n |-> IF i \in room.end .. room.end THEN Packet ELSE room.buffer[i]]
        <3>1. /\ Len(<<Packet>>) = 1 /\ room.end + 1 - 1 = room.end
              /\ \A i \in room.end .. room.end : <<Packet>>[i - room.end + 1] = Packet
            BY <1>2
        <3>. QED BY <1>2, <3>1 DEF CopyIn
    <2>. HIDE DEF b
    <2>3. b \in [0..n -> {Packet, NoCell}]
        BY <1>2, <2>2
    <2>4. \A i \in room.start .. room.end + 1 - 1 : b[i] = Packet
        BY <1>2, <2>1, <2>2
    <2>5. (room.end + 1) % room.length = room.end + 1
        BY <1>2, <2>1, SmallModulo
    <2>6. Write(rb) = [length |-> n + 1, start |-> room.start, end |-> room.end + 1, buffer |-> b]
        BY <1>2, <1>3, <2>5 DEF Write, RingBuffer_commit_write, CopyIn, room, b
    <2>. QED BY <1>2, <2>1, <2>3, <2>4, <2>6 DEF RingOf
<1>4. CASE ~HasSpace(room, 1)
    BY <1>1, <1>4 DEF Write, room
<1>. QED BY <1>3, <1>4

\* A packet read was queued, and the ring is flushed after the last one.
LEMMA ReadRing ==
    ASSUME NEW n \in Nat, NEW rb \in RingOf(n), ~Empty(rb)
    PROVE  Read(rb) \in RingOf(n) /\ rb.buffer[rb.start] = Packet
<1>1. /\ rb \in [length : {n + 1}, start : 0..n, end : 0..n,
                 buffer : [0..n -> {Packet, NoCell}]]
      /\ rb.start < rb.end
      /\ \A i \in rb.start .. rb.end - 1 : rb.buffer[i] = Packet
    <2>1. RingBuffer_available_data(rb) = rb.end - rb.start /\ rb.start <= rb.end
        BY RingType
    <2>. QED BY <2>1, RingType DEF Empty
<1>2. rb.start + 1 \in Nat /\ rb.start + 1 < rb.length
    BY <1>1
<1>3. (rb.start + 1) % rb.length = rb.start + 1
    BY <1>1, <1>2, SmallModulo
<1>4. CASE rb.end = rb.start + 1
    <2>1. Read(rb) = RingbBuffer_flush(rb)
        BY <1>3, <1>4 DEF Read, RingBuffer_commit_read
    <2>2. rb.buffer[rb.start] = Packet
        BY <1>1
    <2>. QED BY <2>1, <2>2, FlushedRing
<1>5. CASE rb.end # rb.start + 1
    <2>1. Read(rb) = [length |-> n + 1, start |-> rb.start + 1, end |-> rb.end,
                      buffer |-> rb.buffer]
        BY <1>1, <1>3, <1>5 DEF Read, RingBuffer_commit_read
    <2>2. rb.start + 1 \in 0..n /\ rb.start + 1 <= rb.end
          /\ \A i \in rb.start + 1 .. rb.end - 1 : rb.buffer[i] = Packet
        BY <1>1
    <2>. QED BY <1>1, <2>1, <2>2 DEF RingOf
<1>. QED BY <1>1, <1>4, <1>5

-----------------------------------------------------------------------------
(* The SPI task and the channels                                           *)

\* spi_task leaves its first packets behind before the loop begins.
TransferInv ==
    /\ TransferTypeOK
    /\ phase = "boot" => booted < BootDummies

LEMMA Capacities ==
    ASSUME NEW c \in Channels
    PROVE  TxCapacity[c] \in Nat /\ RxCapacity[c] \in Nat
BY CapacityAssumption

\* There is a channel to drain, and the turn always names one.
LEMMA TurnNamesChannel ==
    ASSUME turn \in 1..Len(DrainOrder)
    PROVE  /\ Len(DrainOrder) \in Nat \ {0}
           /\ Draining \in Channels
           /\ (turn % Len(DrainOrder)) + 1 \in 1..Len(DrainOrder)
<1>1. Len(DrainOrder) \in Nat /\ DrainOrder \in Seq(Channels)
    BY ChannelsAssumption, LenProperties
<1>2. Len(DrainOrder) \in Nat \ {0}
    BY <1>1
<1>3. Draining \in Channels
    BY <1>1, ElementOfSeq DEF Draining
<1>4. (turn % Len(DrainOrder)) \in 0 .. Len(DrainOrder) - 1
    BY <1>1, <1>2
<1>. QED BY <1>1, <1>2, <1>3, <1>4

LEMMA TransferInitInv == TransferInit => TransferInv
<1>. SUFFICES ASSUME TransferInit PROVE TransferInv
    OBVIOUS
<1>1. ASSUME NEW n \in Nat PROVE RingBuffer_create(n) \in RingOf(n)
    BY DrainedRing DEF RingBuffer_create
<1>2. 1 \in 1..Len(DrainOrder)
    <2>1. PICK i \in 1..Len(DrainOrder) : DrainOrder[i] = DataChannel
        BY ChannelsAssumption
    <2>2. Len(DrainOrder) \in Nat
        BY ChannelsAssumption, LenProperties
    <2>. QED BY <2>1, <2>2
<1>3. /\ DOMAIN tx = Channels /\ \A c \in Channels : tx[c] \in RingOf(TxCapacity[c])
      /\ DOMAIN rx = Channels /\ \A c \in Channels : rx[c] \in RingOf(RxCapacity[c])
    BY <1>1, Capacities DEF TransferInit
<1>. QED BY <1>2, <1>3 DEF TransferInit, TransferInv, TransferTypeOK, BootDummies

LEMMA TxWritten ==
    ASSUME TransferTypeOK, NEW c \in Channels, tx' = [tx EXCEPT ![c] = Write(@)]
    PROVE  DOMAIN tx' = Channels /\ \A d \in Channels : tx'[d] \in RingOf(TxCapacity[d])
BY WrittenRing, Capacities DEF TransferTypeOK

LEMMA TxRead ==
    ASSUME TransferTypeOK, NEW c \in Channels, ~Empty(tx[c]), tx' = [tx EXCEPT ![c] = Read(@)]
    PROVE  DOMAIN tx' = Channels /\ \A d \in Channels : tx'[d] \in RingOf(TxCapacity[d])
BY ReadRing, Capacities DEF TransferTypeOK

LEMMA RxWritten ==
    ASSUME TransferTypeOK, NEW c \in Channels, rx' = [rx EXCEPT ![c] = Write(@)]
    PROVE  DOMAIN rx' = Channels /\ \A d \in Channels : rx'[d] \in RingOf(RxCapacity[d])
BY WrittenRing, Capacities DEF TransferTypeOK

LEMMA RxRead ==
    ASSUME TransferTypeOK, NEW c \in Channels, ~Empty(rx[c]), rx' = [rx EXCEPT ![c] = Read(@)]
    PROVE  DOMAIN rx' = Channels /\ \A d \in Channels : rx'[d] \in RingOf(RxCapacity[d])
BY ReadRing, Capacities DEF TransferTypeOK

LEMMA TransferNextInv == TransferInv /\ [TransferNext]_transferVars => TransferInv'
<1>. SUFFICES ASSUME TransferInv, [TransferNext]_transferVars PROVE TransferInv'
    OBVIOUS
<1>. USE DEF TransferInv
<1>1. ASSUME NEW c \in Channels, Send(c) PROVE TransferInv'
    BY <1>1, TxWritten DEF Send, TransferTypeOK
<1>2. ASSUME NEW c \in Channels, Receive(c) PROVE TransferInv'
    BY <1>2, RxRead DEF Receive, TransferTypeOK
<1>3. CASE SendBootDummy
    <2>1. CmdChannel \in Channels
        BY ChannelsAssumption
    <2>2. DOMAIN tx' = Channels /\ \A d \in Channels : tx'[d] \in RingOf(TxCapacity[d])
        BY <1>3, <2>1, TxWritten DEF SendBootDummy
    <2>. QED BY <1>3, <2>2 DEF SendBootDummy, TransferTypeOK, BootDummies
<1>4. CASE TopOfLoop
    BY <1>4 DEF TopOfLoop, TransferTypeOK
<1>5. CASE TakePacket
    <2>1. Draining \in Channels
        BY TurnNamesChannel DEF TransferTypeOK
    <2>2. DOMAIN tx' = Channels /\ \A d \in Channels : tx'[d] \in RingOf(TxCapacity[d])
        BY <1>5, <2>1, TxRead DEF TakePacket
    <2>. QED BY <1>5, <2>2 DEF TakePacket, TransferTypeOK
<1>6. CASE ChannelDrained
    <2>1. turn' \in 1..Len(DrainOrder) /\ phase' \in {"dummy", "top", "drain"}
        BY <1>6, TurnNamesChannel DEF ChannelDrained, NextTurn, TransferTypeOK
    <2>. QED BY <1>6, <2>1 DEF ChannelDrained, TransferTypeOK
<1>7. CASE Exchange
    <2>1. turn' \in 1..Len(DrainOrder) /\ phase' \in {"top", "drain"}
        BY <1>7, TurnNamesChannel DEF Exchange, NextTurn, TransferTypeOK
    <2>2. DOMAIN rx' = Channels /\ \A d \in Channels : rx'[d] \in RingOf(RxCapacity[d])
        BY <1>7, RxWritten DEF Exchange, TransferTypeOK
    <2>. QED BY <1>7, <2>1, <2>2 DEF Exchange, TransferTypeOK
<1>8. CASE UNCHANGED transferVars
    BY <1>8 DEF transferVars, TransferTypeOK
<1>. QED BY <1>1, <1>2, <1>3, <1>4, <1>5, <1>6, <1>7, <1>8 DEF TransferNext, SpiTask

\* The indices of every channel's rings stay in order and between them there are only
\* packets, whichever tasks send and receive and whatever the exchanges bring; the SPI
\* task's turn always names a channel.
THEOREM RingsStaySound == TransferSpec => []TransferTypeOK
<1>1. TransferInv => TransferTypeOK
    BY DEF TransferInv
<1>. QED BY <1>1, TransferInitInv, TransferNextInv, PTL DEF TransferSpec
==============================================================================
