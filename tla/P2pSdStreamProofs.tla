------------------------ MODULE P2pSdStreamProofs --------------------------
(***************************************************************************)
(* What P2pSdStream promises for files, batches, acknowledgements and      *)
(* rings of every size: a packet taken for acknowledged is with the phone, *)
(* and a stream that is over is whole, unless an acknowledgement of an     *)
(* earlier stream was taken for one of this.                               *)
(***************************************************************************)
EXTENDS P2pSdStream, SequenceTheorems, TLAPS

\* Between two streams nothing is acknowledged, and one that begins has a file.
Between ==
    /\ task \in {"waiting", "loading", "exited"} => n = 0 /\ acked = {} /\ smallPid = 0
    /\ start \/ task = "loading" => selected # 0

\* An acknowledgement of this stream names only what the phone has.
AckIsTrue ==
    rx # <<>> /\ ~LastAck.old =>
        /\ LastAck.small <= n
        /\ \A p \in Nat : p < LastAck.small => p \in got
        /\ LastAck.bits \subseteq got

\* Nothing before the smallest packet is missing.
SmallIsFirst == trusted => smallPid <= n /\ \A p \in Nat : p < smallPid => p \in acked

IInv == TypeOK /\ Between /\ AckIsTrue /\ SmallIsFirst /\ AckedHasArrived

-----------------------------------------------------------------------------
(* The tx ring                                                             *)

Packets == Pids \cup {Other}
IsRing(ring) == ring \in Seq(Packets) /\ Len(ring) <= RingSize

LEMMA Appended ==
    ASSUME NEW ring, IsRing(ring), Len(ring) < RingSize, NEW e \in Packets
    PROVE  IsRing(Append(ring, e))
  <1>1. Append(ring, e) \in Seq(Packets) /\ Len(Append(ring, e)) = Len(ring) + 1
    BY AppendProperties DEF IsRing
  <1>2. Len(ring) \in Nat /\ RingSize \in Nat
    BY LenProperties, StreamAssumption DEF IsRing
  <1> QED  BY <1>1, <1>2 DEF IsRing

LEMMA Queued ==
    ASSUME NEW ring, IsRing(ring) PROVE IsRing(Queue(ring, Other))
  BY Appended DEF Queue, Packets

LEMMA Popped ==
    ASSUME IsRing(tx), tx # <<>>
    PROVE  Head(tx) \in Packets /\ IsRing(Tail(tx))
  <1>1. Len(tx) \in Nat \ {0}
    BY LenProperties, EmptySeq DEF IsRing
  <1>2. Tail(tx) \in Seq(Packets) /\ Len(Tail(tx)) = Len(tx) - 1 /\ Head(tx) \in Packets
    BY <1>1, HeadTailProperties DEF IsRing
  <1>3. RingSize \in Nat
    BY StreamAssumption
  <1> QED  BY <1>1, <1>2, <1>3 DEF IsRing

-----------------------------------------------------------------------------
(* The invariant holds at first                                            *)

LEMMA InitIInv == Init => IInv
  <1> SUFFICES ASSUME Init PROVE IInv
    OBVIOUS
  <1> USE StreamAssumption DEF Init
  <1>1. tx \in Seq(Packets) /\ Len(tx) <= RingSize /\ rx \in Seq(Acks) /\ Len(rx) <= 1
    BY EmptySeq
  <1>2. sent \in [Pids -> {"never", "recently", "due"}] /\ load \in 0 .. Batch - 1
    BY DEF Pids
  <1>3. TypeOK
    BY <1>1, <1>2 DEF TypeOK, Packets
  <1>4. Between /\ AckIsTrue /\ SmallIsFirst /\ AckedHasArrived
    BY DEF Between, AckIsTrue, SmallIsFirst, AckedHasArrived
  <1> QED  BY <1>3, <1>4 DEF IInv

-----------------------------------------------------------------------------
(* Every step keeps it                                                     *)

\* A step that leaves the acknowledgements alone, within a stream.
LEMMA AcksKept ==
    ASSUME TypeOK, AckIsTrue, SmallIsFirst, AckedHasArrived,
           n' = n, smallPid' = smallPid, acked' = acked, rx' = rx, trusted' = trusted,
           got \subseteq got'
    PROVE  AckIsTrue' /\ SmallIsFirst' /\ AckedHasArrived'
  BY DEF AckIsTrue, SmallIsFirst, AckedHasArrived, LastAck

LEMMA CommandsIInv == ASSUME IInv, Commands PROVE IInv'
  <1> USE StreamAssumption DEF IInv, cmdVars, sendVars, ackVars, vars
  <1>1. CASE SelectFile
    <2>1. TypeOK'
      BY <1>1 DEF SelectFile, TypeOK, Pids
    <2>2. Between'
      BY <1>1 DEF SelectFile, Between, TypeOK
    <2> QED  BY <1>1, <2>1, <2>2, AcksKept DEF SelectFile
  <1>2. CASE StartTransfer
    <2>1. TypeOK'
      <3>1. start' \in BOOLEAN
        BY <1>2, Zenon DEF StartTransfer
      <3> QED  BY <1>2, <3>1 DEF StartTransfer, TypeOK, Pids
    <2>2. Between'
      BY <1>2 DEF StartTransfer, Between, TypeOK
    <2> QED  BY <1>2, <2>1, <2>2, AcksKept DEF StartTransfer
  <1>3. CASE StopTransfer
    <2>1. TypeOK'
      BY <1>3 DEF StopTransfer, TypeOK, Pids
    <2>2. Between'
      BY <1>3 DEF StopTransfer, Between, TypeOK
    <2> QED  BY <1>3, <2>1, <2>2, AcksKept DEF StopTransfer
  <1> QED  BY <1>1, <1>2, <1>3 DEF Commands

LEMMA BeginIInv == ASSUME IInv, ClearAcks \/ LoadFile \/ LoadFails PROVE IInv'
  <1> USE StreamAssumption DEF IInv, cmdVars, sendVars, ackVars, vars
  <1>1. CASE ClearAcks
    <2>1. TypeOK'
      BY <1>1, EmptySeq DEF ClearAcks, TypeOK, Pids
    <2>2. Between' /\ AckIsTrue' /\ SmallIsFirst' /\ AckedHasArrived'
      BY <1>1 DEF ClearAcks, Between, AckIsTrue, SmallIsFirst, AckedHasArrived
    <2> QED  BY <2>1, <2>2
  <1>2. CASE LoadFile
    <2>1. n = 0 /\ acked = {} /\ smallPid = 0 /\ selected # 0
      BY <1>2 DEF LoadFile, Between
    <2>2. n' \in Sizes /\ n' \in Nat /\ n \in Nat
      BY <1>2, <2>1 DEF LoadFile, TypeOK
    <2>3. Pids \subseteq Pids'
      BY <2>1, <2>2 DEF Pids
    <2>4. sent' \in [Pids' -> {"never", "recently", "due"}]
      BY <1>2 DEF LoadFile, Pids
    <2>5. IsRing(tx)'
      <3>1. Packets \subseteq Packets'
        BY <2>3 DEF Packets
      <3>2. tx \in Seq(Packets')
        BY <3>1 DEF TypeOK, Packets
      <3> QED  BY <1>2, <3>2 DEF LoadFile, IsRing, TypeOK
    <2>6. TypeOK'
      BY <1>2, <2>1, <2>2, <2>3, <2>4, <2>5 DEF LoadFile, TypeOK, IsRing, Packets
    <2>7. Between' /\ SmallIsFirst' /\ AckedHasArrived'
      BY <1>2, <2>1, <2>2 DEF LoadFile, Between, SmallIsFirst, AckedHasArrived
    <2>8. AckIsTrue'
      <3>1. CASE rx = <<>>
        BY <1>2, <3>1 DEF LoadFile, AckIsTrue
      <3>2. CASE rx # <<>>
        <4>1. LastAck \in Acks
          BY <3>2, HeadTailProperties DEF TypeOK, LastAck
        <4> QED  BY <1>2, <2>1, <2>2, <4>1 DEF LoadFile, AckIsTrue, LastAck, Acks
      <3> QED  BY <3>1, <3>2
    <2> QED  BY <2>6, <2>7, <2>8
  <1>3. CASE LoadFails
    <2>1. TypeOK'
      BY <1>3 DEF LoadFails, WaitOrExit, TypeOK, Pids
    <2>2. Between'
      BY <1>3 DEF LoadFails, WaitOrExit, Between
    <2> QED  BY <1>3, <2>1, <2>2, AcksKept DEF LoadFails
  <1> QED  BY <1>1, <1>2, <1>3

LEMMA EndIInv == ASSUME IInv, CheckStart \/ SendDone \/ End PROVE IInv'
  <1> USE StreamAssumption DEF IInv, cmdVars, sendVars, ackVars, vars
  <1>1. CASE CheckStart
    <2>1. TypeOK'
      BY <1>1 DEF CheckStart, TypeOK, Pids
    <2>2. Between'
      BY <1>1 DEF CheckStart, Between
    <2> QED  BY <1>1, <2>1, <2>2, AcksKept DEF CheckStart
  <1>2. CASE SendDone
    <2>1. IsRing(Queue(tx, Other))
      BY Queued DEF TypeOK, IsRing, Packets
    <2>2. TypeOK'
      BY <1>2, <2>1 DEF SendDone, TypeOK, Pids, IsRing, Packets
    <2>3. Between'
      BY <1>2 DEF SendDone, Between
    <2> QED  BY <1>2, <2>2, <2>3, AcksKept DEF SendDone
  <1>3. CASE End
    <2> DEFINE ring == Queue(tx, Other)
    <2>1. IsRing(ring)
      BY Queued DEF TypeOK, IsRing, Packets
    <2>2. ring \in Seq(Packets) /\ Len(ring) \in Nat /\ DOMAIN ring = 1 .. Len(ring)
      BY <2>1, LenProperties DEF IsRing
    <2>3. tx' = [i \in 1 .. Len(ring) |-> Other]
      BY <1>3, <2>2 DEF End
    <2> HIDE DEF ring
    <2>4. tx' \in Seq(Packets') /\ Len(tx') = Len(ring)
      BY <2>2, <2>3 DEF Packets
    <2>5. sent' \in [Pids' -> {"never", "recently", "due"}]
      BY <1>3 DEF End, Pids
    <2>6. TypeOK'
      <3>1. rx' \in Seq(Acks) /\ Len(rx') <= 1
        BY <1>3, EmptySeq DEF End
      <3>2. Len(tx') <= RingSize
        BY <2>1, <2>4 DEF IsRing
      <3>3. /\ selected' \in Sizes \cup {0} /\ valid' \in BOOLEAN /\ start' \in BOOLEAN
            /\ valid' => selected' # 0
            /\ task' \in {"waiting", "exited"}
            /\ n' = 0 /\ pidSend' = 0 /\ smallPid' = 0 /\ load' = 0 /\ acked' = {}
            /\ ackClock' = FALSE /\ got' = {} /\ late' = TRUE /\ trusted' = TRUE
        BY <1>3 DEF End, WaitOrExit, TypeOK
      <3>4. load' \in 0 .. Batch - 1 /\ pidSend' \in Nat /\ smallPid' \in Nat
        BY <3>3
      <3> QED  BY <2>4, <2>5, <3>1, <3>2, <3>3, <3>4 DEF TypeOK, Packets
    <2>7. Between' /\ AckIsTrue' /\ SmallIsFirst' /\ AckedHasArrived'
      BY <1>3 DEF End, WaitOrExit, Between, AckIsTrue, SmallIsFirst, AckedHasArrived
    <2> QED  BY <2>6, <2>7
  <1> QED  BY <1>1, <1>2, <1>3

-----------------------------------------------------------------------------
(* Sending                                                                 *)

\* What every step of the sending loop leaves alone.
SendFrame ==
    /\ UNCHANGED <<cmdVars, n, ackVars, got, late>>
    /\ task \in {"sending", "dummy"} /\ task' \in {"sending", "dummy", "acks"}

\* With that, a step need only keep the types of what it changes.
LEMMA SendFrameIInv ==
    ASSUME IInv, SendFrame, pidSend' \in Nat, load' \in 0 .. Batch - 1,
           sent' \in [Pids -> {"never", "recently", "due"}], IsRing(tx')
    PROVE  IInv'
  <1> USE DEF IInv, SendFrame, cmdVars, ackVars
  <1>1. TypeOK'
    BY DEF TypeOK, IsRing, Packets, Pids
  <1>2. Between'
    BY DEF Between
  <1> QED  BY <1>1, <1>2, AcksKept

LEMMA Advanced ==
    ASSUME TypeOK, Looking, NEW count \in 0 .. Batch, Advance(count)
    PROVE  /\ pidSend' \in Nat /\ load' \in 0 .. Batch - 1
           /\ task \in {"sending", "dummy"} /\ task' \in {"sending", "dummy", "acks"}
  BY StreamAssumption DEF Looking, Advance, TypeOK

LEMMA SendingIInv == ASSUME IInv, PassOver \/ SendFirst \/ SendAgain PROVE IInv'
  <1> USE StreamAssumption DEF IInv, sendVars
  <1>1. Looking /\ TypeOK
    BY DEF PassOver, SendFirst, SendAgain
  <1>2. IsRing(tx) /\ pidSend \in Pids /\ pidSend \in Packets
    BY <1>1 DEF TypeOK, IsRing, Packets, Pids, Looking
  <1>3. Batch \in Nat \ {0} /\ load \in 0 .. Batch /\ load + 1 \in 0 .. Batch
    BY <1>1 DEF TypeOK
  <1>4. ASSUME Room PROVE IsRing(Append(tx, pidSend))
    BY <1>2, <1>4, Appended DEF Room
  <1>5. [sent EXCEPT ![pidSend] = "recently"] \in [Pids -> {"never", "recently", "due"}]
    BY <1>1, <1>2 DEF TypeOK
  <1>6. CASE PassOver
    <2>1. SendFrame
      BY <1>1, <1>3, <1>6, Advanced DEF PassOver, SendFrame
    <2> QED  BY <1>1, <1>2, <1>3, <1>6, <2>1, Advanced, SendFrameIInv DEF PassOver, TypeOK
  <1>7. CASE SendFirst
    <2>1. SendFrame
      BY <1>1, <1>3, <1>7, Advanced DEF SendFirst, SendFrame
    <2> QED  BY <1>1, <1>3, <1>4, <1>5, <1>7, <2>1, Advanced, SendFrameIInv DEF SendFirst
  <1>8. CASE SendAgain
    <2>1. CASE pidSend = n - 1
      <3>1. SendFrame
        BY <1>8, <2>1 DEF SendAgain, SendFrame, Looking
      <3> QED  BY <1>1, <1>4, <1>8, <2>1, <3>1, SendFrameIInv DEF SendAgain, TypeOK
    <2>2. CASE pidSend # n - 1
      <3>1. SendFrame
        BY <1>1, <1>3, <1>8, <2>2, Advanced DEF SendAgain, SendFrame
      <3> QED  BY <1>1, <1>3, <1>4, <1>5, <1>8, <2>2, <3>1, Advanced, SendFrameIInv DEF SendAgain
    <2> QED  BY <2>1, <2>2
  <1> QED  BY <1>6, <1>7, <1>8

LEMMA BehindIInv == ASSUME IInv, SendDummy \/ PastEnd PROVE IInv'
  <1> USE StreamAssumption DEF IInv
  <1>1. TypeOK /\ IsRing(tx) /\ IsRing(Queue(tx, Other))
    BY Queued DEF TypeOK, IsRing, Packets
  <1>2. CASE SendDummy
    <2>1. SendFrame
      BY <1>2 DEF SendDummy, SendFrame
    <2> QED  BY <1>1, <1>2, <2>1, SendFrameIInv DEF SendDummy, TypeOK
  <1>3. CASE PastEnd
    <2>1. SendFrame
      BY <1>3 DEF PastEnd, SendFrame
    <2> QED  BY <1>1, <1>3, <2>1, SendFrameIInv DEF PastEnd, TypeOK
  <1> QED  BY <1>2, <1>3

-----------------------------------------------------------------------------
(* Acknowledgements                                                        *)

LEMMA NoProgressType ==
    ASSUME start \in BOOLEAN, NoProgress
    PROVE  start' \in BOOLEAN /\ (start' => start)
  BY DEF NoProgress

LEMMA FromSmallestType ==
    ASSUME NEW p \in Nat, smallPid' \in Nat, FromSmallest(p)
    PROVE  pidSend' \in Nat
  BY DEF FromSmallest

LEMMA NoAckIInv == ASSUME IInv, NoAck PROVE IInv'
  <1> USE DEF IInv
  <1>1. start' \in BOOLEAN /\ (start' => start)
    BY NoProgressType DEF NoAck, TypeOK
  <1>2. pidSend' \in Nat
    BY FromSmallestType DEF NoAck, TypeOK
  <1>3. TypeOK'
    BY <1>1, <1>2 DEF NoAck, TypeOK, Pids
  <1>4. Between'
    BY <1>1 DEF NoAck, Between
  <1> QED  BY <1>3, <1>4, AcksKept DEF NoAck

LEMMA TakeAcksIInv == ASSUME IInv, TakeAcks PROVE IInv'
  <1> USE StreamAssumption DEF IInv
  <1> DEFINE a == LastAck
  <1>1. a \in Acks /\ a.small \in Nat /\ a.bits \in SUBSET Nat /\ a.old \in BOOLEAN
    <2>1. a \in Acks
      BY EmptySeq, HeadTailProperties DEF TakeAcks, TypeOK, LastAck
    <2> QED  BY <2>1 DEF Acks
  <1>2. n \in Nat /\ smallPid \in Nat /\ Window \in Nat /\ acked \subseteq Pids
    BY DEF TypeOK
  <1> HIDE DEF a
  <1>3. PICK p \in a.small .. a.small + Window : Smallest(a, p) /\ smallPid' = p
    BY DEF TakeAcks, a
  <1>4. p \in Nat
    BY <1>1, <1>2
  <1>5. acked' = acked \cup AckedBy(a)
    BY DEF TakeAcks, a
  <1>6. AckedBy(a) \subseteq Pids
    BY <1>1, <1>2 DEF AckedBy, Bits, Pids
  <1>7. start' \in BOOLEAN /\ (start' => start) /\ pidSend' \in Nat /\ ackClock' \in BOOLEAN
    <2>1. CASE a.small = n \/ smallPid' = 0
      BY <1>2, <1>3, <1>4, <2>1, NoProgressType, FromSmallestType DEF TakeAcks, a, TypeOK
    <2>2. CASE ~(a.small = n \/ smallPid' = 0)
      <3>1. /\ start' = (start /\ smallPid' < n)
            /\ ackClock' = TRUE
            /\ FromSmallest(IF smallPid' < n THEN smallPid' ELSE pidSend)
        BY <2>2 DEF TakeAcks, a
      <3>2. (IF smallPid' < n THEN smallPid' ELSE pidSend) \in Nat
        BY <1>3, <1>4 DEF TypeOK
      <3>3. pidSend' \in Nat
        BY <1>3, <1>4, <3>1, <3>2, FromSmallestType
      <3>4. start' \in BOOLEAN /\ (start' => start)
        BY <3>1, Zenon
      <3> QED  BY <3>1, <3>3, <3>4
    <2> QED  BY <2>1, <2>2
  <1>8. trusted' \in BOOLEAN /\ (trusted' => trusted /\ ~a.old)
    BY Zenon DEF TakeAcks, a
  <1>9. TypeOK'
    <2>1. rx' \in Seq(Acks) /\ Len(rx') <= 1
      BY EmptySeq DEF TakeAcks
    <2>2. acked' \subseteq Pids
      BY <1>2, <1>5, <1>6
    <2> QED  BY <1>3, <1>4, <1>7, <1>8, <2>1, <2>2 DEF TakeAcks, TypeOK, Pids
  <1>10. Between' /\ AckIsTrue'
    BY <1>7 DEF TakeAcks, Between, AckIsTrue
  <1>11. ASSUME trusted'
         PROVE  /\ a.small <= n /\ AckedBy(a) \subseteq got
    <2>1. rx # <<>> /\ ~a.old
      BY <1>8, <1>11 DEF TakeAcks
    <2>2. /\ a.small <= n
          /\ \A q \in Nat : q < a.small => q \in got
          /\ a.bits \subseteq got
      BY <2>1 DEF AckIsTrue, a
    <2>3. ASSUME NEW q \in AckedBy(a) PROVE q \in got
      BY <1>1, <2>2, <2>3 DEF AckedBy
    <2> QED  BY <2>2, <2>3
  <1>12. AckedHasArrived'
    BY <1>5, <1>8, <1>11 DEF AckedHasArrived, TakeAcks
  <1>13. SmallIsFirst'
    <2> SUFFICES ASSUME trusted' PROVE p <= n /\ \A q \in Nat : q < p => q \in acked'
      BY <1>3 DEF SmallIsFirst, TakeAcks
    <2>1. a.small <= n
      BY <1>11
    <2>2. ASSUME NEW q \in Nat, q < a.small PROVE q \in acked'
      <3>1. q \in AckedBy(a)
        BY <1>1, <2>1, <2>2 DEF AckedBy
      <3> QED  BY <1>5, <3>1
    <2>3. CASE a.small = n \/ Naks(a) = {}
      BY <1>3, <2>1, <2>2, <2>3 DEF Smallest
    <2>4. CASE a.small # n /\ Naks(a) # {}
      <3>1. p \in Naks(a) /\ \A q \in Naks(a) : p <= q
        BY <1>3, <2>4 DEF Smallest
      <3>2. p < n
        BY <3>1 DEF Naks, Bits
      <3>3. ASSUME NEW q \in Nat, q < p, ~(q < a.small) PROVE q \in acked'
        <4>1. q \in Bits(a)
          BY <1>1, <1>2, <1>3, <3>2, <3>3 DEF Bits
        <4>2. q \notin Naks(a)
          BY <1>4, <3>1, <3>3
        <4>3. q \in AckedBy(a)
          BY <2>4, <4>1, <4>2 DEF AckedBy, Naks
        <4> QED  BY <1>5, <4>3
      <3> QED  BY <1>2, <1>4, <2>2, <3>2, <3>3
    <2> QED  BY <2>3, <2>4
  <1> QED  BY <1>9, <1>10, <1>12, <1>13

-----------------------------------------------------------------------------
(* Time, the bus and the phone                                             *)

LEMMA DueIInv == ASSUME IInv, NEW p \in Pids, Due(p) PROVE IInv'
  <1> USE DEF IInv, cmdVars, ackVars
  <1>1. sent' \in [Pids -> {"never", "recently", "due"}]
    BY DEF Due, TypeOK
  <1>2. TypeOK' /\ Between'
    BY <1>1 DEF Due, TypeOK, Between, Pids
  <1> QED  BY <1>2, AcksKept DEF Due

LEMMA ExchangeIInv == ASSUME IInv, Exchange PROVE IInv'
  <1> USE DEF IInv, cmdVars, ackVars
  <1>1. Head(tx) \in Packets /\ IsRing(Tail(tx))
    BY Popped DEF Exchange, TypeOK, IsRing, Packets
  <1>2. got \subseteq got' /\ got' \subseteq Pids
    BY <1>1 DEF Exchange, TypeOK, Packets
  <1>3. TypeOK' /\ Between'
    BY <1>1, <1>2 DEF Exchange, TypeOK, Between, IsRing, Packets, Pids
  <1> QED  BY <1>2, <1>3, AcksKept DEF Exchange

LEMMA AckIInv == ASSUME IInv, SendAck \/ LateAck PROVE IInv'
  <1> USE StreamAssumption DEF IInv, cmdVars, sendVars
  <1>1. ASSUME NEW a \in Acks, rx' = <<a>>
        PROVE  rx' \in Seq(Acks) /\ Len(rx') <= 1 /\ LastAck' = a
    BY <1>1 DEF LastAck
  <1>2. CASE SendAck
    <2>1. PICK k \in 0 .. n :
             /\ 0 .. k - 1 \subseteq got
             /\ rx' = <<Ack(k, {p \in got : p >= k /\ p < k + Window}, FALSE)>>
      BY <1>2 DEF SendAck
    <2> DEFINE a == Ack(k, {p \in got : p >= k /\ p < k + Window}, FALSE)
    <2>2. k \in Nat /\ k <= n /\ n \in Nat /\ got \subseteq Nat
      BY DEF TypeOK, Pids
    <2>3. a \in Acks /\ a.small = k /\ a.bits \subseteq got
      BY <2>2 DEF Ack, Acks
    <2>4. rx' = <<a>>
      BY <2>1
    <2> HIDE DEF a
    <2>5. TypeOK' /\ Between'
      <3>1. rx' \in Seq(Acks) /\ Len(rx') <= 1
        BY <1>1, <2>3, <2>4
      <3>2. TypeOK'
        BY <1>2, <3>1 DEF SendAck, TypeOK, Pids
      <3>3. Between'
        BY <1>2 DEF SendAck, Between
      <3> QED  BY <3>2, <3>3
    <2>6. AckIsTrue'
      <3>1. LastAck' = a /\ n' = n /\ got' = got
        BY <1>1, <1>2, <2>3, <2>4 DEF SendAck
      <3>2. \A p \in Nat : p < k => p \in got
        BY <2>1, <2>2
      <3> QED  BY <2>2, <2>3, <3>1, <3>2 DEF AckIsTrue
    <2>7. SmallIsFirst' /\ AckedHasArrived'
      BY <1>2 DEF SendAck, SmallIsFirst, AckedHasArrived
    <2> QED  BY <2>5, <2>6, <2>7
  <1>3. CASE LateAck
    <2>0. PICK m \in Sizes : \E k \in 1 .. m : rx' = <<Ack(k, {}, TRUE)>>
      BY <1>3 DEF LateAck
    <2>1. PICK k \in 1 .. m : rx' = <<Ack(k, {}, TRUE)>>
      BY <2>0
    <2>2. Ack(k, {}, TRUE) \in Acks /\ Ack(k, {}, TRUE).old
      BY <2>1 DEF Ack, Acks
    <2>3. rx' \in Seq(Acks) /\ Len(rx') <= 1 /\ LastAck'.old
      BY <1>1, <2>1, <2>2
    <2>5. TypeOK'
      BY <1>3, <2>3 DEF LateAck, TypeOK, Pids, ackVars
    <2>6. Between' /\ AckIsTrue'
      BY <1>3, <2>3 DEF LateAck, Between, AckIsTrue
    <2>4. SmallIsFirst' /\ AckedHasArrived'
      BY <1>3 DEF LateAck, SmallIsFirst, AckedHasArrived
    <2> QED  BY <2>4, <2>5, <2>6
  <1> QED  BY <1>2, <1>3

LEMMA StutterIInv == ASSUME IInv, UNCHANGED vars PROVE IInv'
  <1> USE DEF IInv, vars, cmdVars, sendVars, ackVars
  <1>1. TypeOK' /\ Between'
    BY DEF TypeOK, Between, Pids
  <1> QED  BY <1>1, AcksKept

LEMMA NextIInv == IInv /\ [Next]_vars => IInv'
  <1> SUFFICES ASSUME IInv, [Next]_vars PROVE IInv'
    OBVIOUS
  <1>1. CASE Task
    BY <1>1, BeginIInv, EndIInv, SendingIInv, BehindIInv, NoAckIInv, TakeAcksIInv DEF Task
  <1>2. CASE Next /\ ~Task
    BY <1>2, CommandsIInv, DueIInv, ExchangeIInv, AckIInv DEF Next
  <1> QED  BY <1>1, <1>2, StutterIInv

-----------------------------------------------------------------------------
(* Theorems                                                                *)

\* The invariant of the stream: the task's view of what the phone has never runs
\* ahead of the phone.
THEOREM Invariant == Spec => []IInv
  <1> QED  BY InitIInv, NextIInv, PTL DEF Spec

\* The variables of p2p_sd_streaming_main_new keep their types and bounds, for files,
\* batches and rings of every size.
THEOREM TypeCorrect == Spec => []TypeOK
  <1>1. IInv => TypeOK
    BY DEF IInv
  <1> QED  BY <1>1, Invariant, PTL

\* What p2p_process_ack_many_times marks as acknowledged is with the phone, whatever
\* was lost, repeated or refused, as long as no ack of an earlier stream was taken.
THEOREM AcknowledgedArrived == Spec => []AckedHasArrived
  <1>1. IInv => AckedHasArrived
    BY DEF IInv
  <1> QED  BY <1>1, Invariant, PTL

\* And a stream that stops because its last packet is acknowledged has left no hole.
THEOREM WholeWhenDone == Spec => []DoneIsWhole
  <1>1. IInv => DoneIsWhole
    <2> SUFFICES ASSUME IInv, trusted, n # 0, smallPid >= n PROVE got = Pids
      BY DEF DoneIsWhole
    <2>1. n \in Nat /\ smallPid \in Nat /\ got \subseteq Pids /\ acked \subseteq got
      BY StreamAssumption DEF IInv, TypeOK, AckedHasArrived
    <2>2. \A p \in Nat : p < smallPid => p \in acked
      BY DEF IInv, SmallIsFirst
    <2>3. \A p \in Pids : p \in Nat /\ p < smallPid
      BY <2>1 DEF Pids
    <2> QED  BY <2>1, <2>2, <2>3
  <1> QED  BY <1>1, Invariant, PTL

-----------------------------------------------------------------------------
(* A stream is a delivery                                                  *)

\* The mapping, as states.
Items == IF trusted THEN Pids ELSE {}
Arrived == IF trusted THEN got ELSE {}
Confirmed == IF trusted THEN acked ELSE {}
Done == trusted /\ task \in {"done", "ending"} /\ smallPid >= n

\* A step that the abstract transfer does not see.
LEMMA StreamUnchanged ==
    ASSUME UNCHANGED <<trusted, n, got, acked>>, Done' <=> Done
    PROVE  UNCHANGED <<Items, Arrived, Confirmed, Done>>
  BY DEF Items, Arrived, Confirmed, Pids

\* Commands, and the beginning of a stream.
LEMMA BeginDelivers ==
    ASSUME IInv, Commands \/ ClearAcks \/ LoadFile \/ LoadFails
    PROVE  Stream!Next \/ UNCHANGED <<Items, Arrived, Confirmed, Done>>
  <1> USE DEF ackVars, sendVars, cmdVars
  <1>1. CASE Commands
    BY <1>1, StreamUnchanged DEF Commands, SelectFile, StartTransfer, StopTransfer, Done
  <1>2. CASE ClearAcks \/ LoadFails
    <2>1. UNCHANGED <<trusted, n, got, acked>>
      BY <1>2 DEF ClearAcks, LoadFails
    <2>2. ~Done /\ ~Done'
      BY <1>2 DEF ClearAcks, LoadFails, WaitOrExit, Done
    <2> QED  BY <2>1, <2>2, StreamUnchanged
  <1>3. CASE LoadFile
    <2>1. UNCHANGED <<trusted, got, acked>> /\ ~Done /\ ~Done'
      BY <1>3 DEF LoadFile, Done
    <2>2. Items = {} /\ Items' \subseteq Nat
      <3>1. n = 0 /\ n' \in Nat
        <4>1. n = 0 /\ n' = selected /\ selected \in Sizes \cup {0}
          BY <1>3 DEF LoadFile, IInv, TypeOK, Between
        <4> QED  BY <4>1, StreamAssumption
      <3>2. Pids = {}
        BY <3>1 DEF Pids
      <3>3. Pids' \subseteq Nat
        <4> SUFFICES ASSUME NEW p \in 0 .. n' - 1 PROVE p \in Nat
          BY Zenon DEF Pids
        <4> QED  BY <3>1
      <3> QED  BY <3>2, <3>3 DEF Items
    <2>3. Stream!Begin
      BY <2>1, <2>2 DEF Stream!Begin, Items, Done
    <2> QED  BY <2>3 DEF Stream!Next
  <1> QED  BY <1>1, <1>2, <1>3

\* CheckStart completes the stream, End leaves it behind.
LEMMA EndDelivers ==
    ASSUME IInv, CheckStart \/ SendDone \/ End
    PROVE  Stream!Next \/ UNCHANGED <<Items, Arrived, Confirmed, Done>>
  <1> USE DEF ackVars, sendVars, cmdVars
  <1>1. CASE CheckStart
    <2>1. UNCHANGED <<trusted, n, got, acked, smallPid>> /\ ~Done
      BY <1>1 DEF CheckStart, Done
    <2>2. CASE ~Done'
      BY <2>1, <2>2, StreamUnchanged
    <2>3. CASE Done'
      <3>1. trusted /\ smallPid >= n
        BY <2>1, <2>3 DEF Done
      <3>2. acked \subseteq Pids /\ n \in Nat /\ smallPid \in Nat
        BY StreamAssumption DEF IInv, TypeOK
      <3>3. \A p \in Nat : p < smallPid => p \in acked
        BY <3>1 DEF IInv, SmallIsFirst
      <3>4. Pids \subseteq acked
        BY <3>1, <3>2, <3>3 DEF Pids
      <3>5. Confirmed = Items
        BY <3>2, <3>4 DEF Confirmed, Items
      <3>6. Stream!Complete
        BY <2>1, <2>3, <3>5 DEF Stream!Complete, Confirmed, Items, Done, Pids
      <3> QED  BY <3>6 DEF Stream!Next
    <2> QED  BY <2>2, <2>3
  <1>2. CASE SendDone
    BY <1>2, StreamUnchanged DEF SendDone, Done
  <1>3. CASE End
    <2>1. n' = 0 /\ got' = {} /\ acked' = {} /\ ~Done'
      BY <1>3 DEF End, WaitOrExit, Done
    <2>2. Stream!Abandon
      BY <2>1 DEF Stream!Abandon, Pids, Done
    <2> QED  BY <2>2 DEF Stream!Next
  <1> QED  BY <1>1, <1>2, <1>3

\* Sending changes nothing that the transfer consists of.
LEMMA SendingDelivers ==
    ASSUME PassOver \/ SendFirst \/ SendAgain \/ SendDummy \/ PastEnd \/ NoAck
    PROVE  UNCHANGED <<Items, Arrived, Confirmed, Done>>
  <1> USE DEF ackVars, sendVars, cmdVars, PassOver, SendFirst, SendAgain, SendDummy, PastEnd,
              NoAck
  <1>1. UNCHANGED <<trusted, n, got, acked>>
    OBVIOUS
  <1>2. ~Done /\ ~Done'
    BY DEF Done, Looking, Advance
  <1> QED  BY <1>1, <1>2, StreamUnchanged

\* What an acknowledgement confirms has arrived; one of an earlier stream ends the
\* transfer as such.
LEMMA AcksDeliver ==
    ASSUME IInv, IInv', TakeAcks
    PROVE  Stream!Next \/ UNCHANGED <<Items, Arrived, Confirmed, Done>>
  <1>1. UNCHANGED <<n, got>> /\ ~Done /\ ~Done' /\ acked \subseteq acked'
    BY DEF TakeAcks, Done
  <1>2. CASE trusted'
    <2>1. trusted
      BY <1>2 DEF TakeAcks
    <2>2. acked' \subseteq got
      BY <1>1, <1>2 DEF IInv, AckedHasArrived
    <2>3. Stream!Confirm
      BY <1>1, <1>2, <2>1, <2>2 DEF Stream!Confirm, Pids, Done
    <2> QED  BY <2>3 DEF Stream!Next
  <1>3. CASE ~trusted'
    <2>1. Stream!Abandon
      BY <1>3 DEF Stream!Abandon
    <2> QED  BY <2>1 DEF Stream!Next
  <1> QED  BY <1>2, <1>3

\* Time, the bus and the phone.
LEMMA OutsideDelivers ==
    ASSUME IInv, IInv', Exchange \/ SendAck \/ LateAck \/ \E p \in Pids : Due(p)
    PROVE  Stream!Next \/ UNCHANGED <<Items, Arrived, Confirmed, Done>>
  <1> USE DEF ackVars, sendVars, cmdVars
  <1>1. CASE Exchange
    <2>1. UNCHANGED <<trusted, n, acked, task, smallPid>> /\ got \subseteq got'
      BY <1>1 DEF Exchange
    <2>2. got' \subseteq Pids
      BY <2>1 DEF IInv, TypeOK, Pids
    <2>3. Stream!Arrive
      BY <2>1, <2>2 DEF Stream!Arrive, Pids
    <2> QED  BY <2>3 DEF Stream!Next
  <1>2. CASE SendAck \/ LateAck \/ \E p \in Pids : Due(p)
    <2>1. UNCHANGED <<trusted, n, acked, got, task, smallPid>>
      BY <1>2 DEF SendAck, LateAck, Due
    <2> QED  BY <2>1, StreamUnchanged DEF Done
  <1> QED  BY <1>1, <1>2

\* The streaming task, the bus and the phone implement Delivery: a packet is confirmed
\* only when it has come, no confirmation is lost, and a stream ends as done only whole.
THEOREM ImplementsTransfer == Spec => ImplementsDelivery
  <1>1. Init => Stream!Init
    BY DEF Init, Stream!Init, Pids
  <1>2. IInv /\ IInv' /\ [Next]_vars => [Stream!Next]_<<Items, Arrived, Confirmed, Done>>
    <2> SUFFICES ASSUME IInv, IInv', [Next]_vars
                 PROVE  [Stream!Next]_<<Items, Arrived, Confirmed, Done>>
      OBVIOUS
    <2>1. CASE Task
      BY <2>1, BeginDelivers, EndDelivers, SendingDelivers, AcksDeliver DEF Task
    <2>2. CASE Commands \/ Exchange \/ SendAck \/ LateAck \/ \E p \in Pids : Due(p)
      BY <2>2, BeginDelivers, OutsideDelivers
    <2>3. CASE UNCHANGED vars
      BY <2>3, StreamUnchanged DEF vars, ackVars, Done
    <2> QED  BY <2>1, <2>2, <2>3 DEF Next
  <1>3. Spec => []IInv
    BY Invariant
  <1>4. [Stream!Next]_<<Items, Arrived, Confirmed, Done>> <=> [Stream!Next]_(Stream!vars)
    BY DEF Stream!vars, Items, Arrived, Confirmed, Done
  <1> QED
    BY <1>1, <1>2, <1>3, <1>4, PTL DEF Spec, ImplementsDelivery, Stream!Spec
=============================================================================
