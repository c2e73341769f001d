---------------------------- MODULE UploadProofs ----------------------------
(***************************************************************************)
(* What UploadSend promises for requests, blocks, packets and rings of     *)
(* every length, when no position that an earlier connection left behind   *)
(* lies within one block: what counts as sent has arrived, in place, and a *)
(* request that is ended is whole.                                         *)
(*                                                                         *)
(* What UploadRecv promises for answers, packets, rings and patience of    *)
(* every length: a packet continues the answer, and when the end is seen   *)
(* all of it has been taken.                                               *)
(***************************************************************************)
EXTENDS UploadSession, SequenceTheorems, TLAPS

\* The positions that the test in upload_send_api keeps out.
OldBeyond == \A a \in OldAcks : a > ChunkSize

InCall == app \in {"send", "poll", "round", "return"}
Open == app = "idle" \/ InCall

\* How far the packets made so far may reach.
Reach == IF caller = "all_in_one" /\ Open THEN position + len ELSE Total

\* Caller and callee agree on where the block is, and the window is inside it.
CallInv ==
    /\ position <= acked
    /\ Open => position = sent /\ sent + len <= Total
    /\ app = "idle" => acked = position /\ len = 0
    /\ app \in {"send", "poll", "round"} => acked < position + len
    /\ app = "send" => k < NumSend /\ acked <= next /\ next < position + len

PacketsFit == \A i \in DOMAIN toCC : toCC[i].from = toCC[i].pos

PacketsInv ==
    /\ PacketsFit
    /\ \A i \in DOMAIN toCC : toCC[i].pos + toCC[i].length <= Reach
    /\ wanted <= Reach

\* Positions of an earlier connection come before all others, and while there are any
\* nothing has been acknowledged: the test lets none of them pass.
OldFirst ==
    \A i \in DOMAIN fromCC :
        \/ fromCC[i] <= wanted
        \/ position = 0 /\ acked = 0 /\ \A j \in 1..i : fromCC[j] > ChunkSize

AcksInv == AckedHasArrived /\ OldFirst /\ EndedIsWhole

IInv == TypeOK /\ CallInv /\ PacketsInv /\ AcksInv

-----------------------------------------------------------------------------
(* Queues                                                                  *)

LEMMA Taken ==
    ASSUME NEW S, NEW s \in Seq(S), s # <<>>
    PROVE  /\ 1 \in DOMAIN s /\ Head(s) = s[1] /\ Head(s) \in S
           /\ Tail(s) \in Seq(S)
           /\ Len(Tail(s)) <= Len(s)
           /\ \A i \in DOMAIN Tail(s) :
                 i \in Nat \ {0} /\ i + 1 \in DOMAIN s /\ Tail(s)[i] = s[i + 1]
  <1>1. Len(s) \in Nat \ {0} /\ DOMAIN s = 1..Len(s)
    BY LenProperties, EmptySeq
  <1>2. /\ Tail(s) \in Seq(S) /\ Len(Tail(s)) = Len(s) - 1
        /\ \A i \in 1..Len(Tail(s)) : Tail(s)[i] = s[i + 1]
    BY HeadTailProperties
  <1>3. DOMAIN Tail(s) = 1..(Len(s) - 1)
    BY <1>2, LenProperties
  <1>4. Head(s) = s[1] /\ s[1] \in S
    BY <1>1, HeadTailProperties, ElementOfSeq
  <1> QED  BY <1>1, <1>2, <1>3, <1>4

LEMMA Added ==
    ASSUME NEW S, NEW s \in Seq(S), NEW e \in S
    PROVE  /\ Append(s, e) \in Seq(S)
           /\ Len(Append(s, e)) = Len(s) + 1 /\ Len(s) \in Nat
           /\ \A i \in DOMAIN Append(s, e) :
                 \/ i \in DOMAIN s /\ Append(s, e)[i] = s[i]
                 \/ i = Len(s) + 1 /\ Append(s, e)[i] = e
           /\ \A i \in DOMAIN s : i \in Nat \ {0} /\ Append(s, e)[i] = s[i]
  <1>1. Len(s) \in Nat /\ DOMAIN s = 1..Len(s)
    BY LenProperties
  <1>2. /\ Append(s, e) \in Seq(S)
        /\ Len(Append(s, e)) = Len(s) + 1
        /\ \A i \in 1..Len(s) : Append(s, e)[i] = s[i]
        /\ Append(s, e)[Len(s) + 1] = e
    BY AppendProperties
  <1>3. DOMAIN Append(s, e) = 1..(Len(s) + 1)
    BY <1>2, LenProperties
  <1> QED  BY <1>1, <1>2, <1>3

-----------------------------------------------------------------------------
(* The invariant holds at first                                            *)

LEMMA InitIInv == OldBeyond /\ Init => IInv
  <1> SUFFICES ASSUME OldBeyond, Init PROVE IInv
    OBVIOUS
  <1> USE SizeAssumption, RingAssumption, OldAcksAssumption DEF Init
  <1>1. fromCC \in Seq(OldAcks) /\ fromCC \in Seq(Nat)
    <2>1. CASE fromCC = <<>>
      BY <2>1
    <2>2. ASSUME NEW a \in OldAcks, fromCC = <<a>>
          PROVE  fromCC \in Seq(OldAcks) /\ fromCC \in Seq(Nat)
      <3>1. a \in Nat
        OBVIOUS
      <3> QED  BY <2>2, <3>1
    <2>3. ASSUME NEW a \in OldAcks, NEW b \in OldAcks, fromCC = <<a, b>>
          PROVE  fromCC \in Seq(OldAcks) /\ fromCC \in Seq(Nat)
      <3>1. a \in Nat /\ b \in Nat
        OBVIOUS
      <3> QED  BY <2>3, <3>1
    <2> QED  BY <2>1, <2>2, <2>3
  <1>3. TypeOK
    BY <1>1, EmptySeq DEF TypeOK, Callers
  <1>4. CallInv
    BY DEF CallInv, Open, InCall
  <1>5. PacketsInv
    BY EmptySeq DEF PacketsInv, PacketsFit, Reach, Open
  <1>6. OldFirst
    <2> SUFFICES ASSUME NEW i \in DOMAIN fromCC, NEW j \in 1..i
                 PROVE  fromCC[j] > ChunkSize
      BY DEF OldFirst
    <2>1. DOMAIN fromCC = 1..Len(fromCC) /\ Len(fromCC) \in Nat
      BY <1>1, LenProperties
    <2>2. j \in 1..Len(fromCC)
      BY <2>1
    <2>3. fromCC[j] \in OldAcks
      BY <1>1, <2>2, ElementOfSeq
    <2> QED  BY <2>3 DEF OldBeyond
  <1>7. AckedHasArrived /\ EndedIsWhole
    BY DEF AckedHasArrived, EndedIsWhole
  <1> QED  BY <1>3, <1>4, <1>5, <1>6, <1>7 DEF IInv, AcksInv

-----------------------------------------------------------------------------
(* Every step keeps it                                                     *)

\* What a step needs to keep OldFirst when it neither takes nor adds a position.
LEMMA OldFirstKept ==
    ASSUME OldFirst, fromCC' = fromCC, wanted' = wanted,
           position = 0 /\ acked = 0 => position' = 0 /\ acked' = 0
    PROVE  OldFirst'
  BY DEF OldFirst

\* What it needs to keep PacketsInv when it adds no packet.
LEMMA PacketsKept ==
    ASSUME TypeOK, PacketsInv, toCC' = toCC, wanted' = wanted,
           Reach \in Int, Reach' \in Int, Reach <= Reach'
    PROVE  PacketsInv'
  <1>1. wanted' <= Reach'
    BY DEF PacketsInv, TypeOK
  <1>2. ASSUME NEW i \in DOMAIN toCC' PROVE toCC'[i].pos + toCC'[i].length <= Reach'
    <2>1. toCC[i] \in Packet
      BY <1>2, ElementOfSeq, LenProperties DEF TypeOK
    <2> QED  BY <1>2, <2>1 DEF PacketsInv, Packet
  <1> QED  BY <1>1, <1>2 DEF PacketsInv, PacketsFit

LEMMA ReachType == TypeOK => Reach \in Nat
  BY SizeAssumption DEF TypeOK, Reach

LEMMA ReachTypeNext == TypeOK' => Reach' \in Nat
  <1> SUFFICES ASSUME TypeOK' PROVE Reach' \in Nat
    OBVIOUS
  <1>1. position' \in Nat /\ len' \in 0..ChunkSize
    BY DEF TypeOK
  <1>2. ChunkSize \in Nat /\ Total \in Nat
    BY SizeAssumption
  <1>3. Reach' = position' + len' \/ Reach' = Total
    BY DEF Reach
  <1> QED  BY <1>1, <1>2, <1>3

LEMMA ReachWithin == TypeOK /\ CallInv => Reach <= Total
  BY SizeAssumption DEF TypeOK, Reach, CallInv, Open, InCall

LEMMA ReachWithinNext == TypeOK' /\ CallInv' => Reach' <= Total
  <1> SUFFICES ASSUME TypeOK', CallInv' PROVE Reach' <= Total
    OBVIOUS
  <1>1. Reach' = IF (caller = "all_in_one" /\ Open)' THEN position' + len' ELSE Total
    BY DEF Reach
  <1>2. Open' => position' + len' <= Total
    BY DEF CallInv
  <1>3. Total \in Nat
    BY SizeAssumption
  <1> QED  BY <1>1, <1>2, <1>3

LEMMA CallKeeps ==
    ASSUME IInv, NEW n \in 1..ChunkSize, Call(n)
    PROVE  IInv'
  <1> USE SizeAssumption, RingAssumption DEF IInv, Call, Smaller
  <1>1. TypeOK'
    BY DEF TypeOK
  <1>2. CallInv'
    BY DEF CallInv, TypeOK, Open, InCall
  <1>3. Reach <= Reach'
    BY DEF Reach, Open, InCall, TypeOK, CallInv
  <1>4. PacketsInv'
    BY <1>1, <1>3, ReachType, ReachTypeNext, PacketsKept
  <1>5. acked' = acked
    BY DEF CallInv
  <1>6. OldFirst'
    BY <1>5, OldFirstKept DEF AcksInv
  <1>7. AckedHasArrived' /\ EndedIsWhole'
    BY <1>5 DEF AcksInv, AckedHasArrived, EndedIsWhole
  <1> QED  BY <1>1, <1>2, <1>4, <1>6, <1>7 DEF AcksInv

LEMMA ReturnKeeps ==
    ASSUME IInv, Return
    PROVE  IInv'
  <1> USE SizeAssumption, RingAssumption DEF IInv, Return
  <1>1. acked <= wanted /\ wanted <= Reach /\ position <= acked /\ position = sent
    BY DEF AcksInv, AckedHasArrived, PacketsInv, CallInv, Open, InCall
  <1>2. acked <= Total
    BY <1>1, ReachType, ReachWithin DEF TypeOK
  <1>3. caller = "all_in_one" => wanted <= position + len
    BY <1>1 DEF Reach, Open, InCall
  <1>4. app' = "idle" => sent' = acked
    <2>1. CASE caller = "event_add"
      BY <1>1, <2>1 DEF Returned, TypeOK
    <2>2. CASE caller = "all_in_one" /\ ~Short
      BY <1>1, <1>3, <2>2 DEF Returned, Short, TypeOK
    <2> QED  BY <2>1, <2>2 DEF TypeOK, Callers
  <1>5. sent' \in Nat
    BY <1>1 DEF TypeOK, Returned
  <1>6. TypeOK'
    BY <1>5 DEF TypeOK
  <1>7. CallInv'
    BY <1>2, <1>4 DEF CallInv, TypeOK, Open, InCall
  <1>8. Reach <= Reach'
    <2>1. CASE app' = "idle" /\ caller = "all_in_one"
      <3>1. sent' = sent + len
        BY <2>1
      <3>2. Reach' = acked
        BY <2>1 DEF Reach, Open, TypeOK
      <3>3. Reach = position + len
        BY <2>1 DEF Reach, Open, InCall
      <3> QED  BY <1>1, <1>4, <2>1, <3>1, <3>2, <3>3 DEF TypeOK
    <2>2. CASE app' # "idle" \/ caller = "event_add"
      BY <2>2, ReachWithin DEF Reach, Open, InCall
    <2> QED  BY <2>1, <2>2 DEF TypeOK, Callers
  <1>9. PacketsInv'
    BY <1>6, <1>8, ReachType, ReachTypeNext, PacketsKept
  <1>10. OldFirst'
    BY OldFirstKept DEF AcksInv
  <1>11. AckedHasArrived' /\ EndedIsWhole'
    BY DEF AcksInv, AckedHasArrived, EndedIsWhole
  <1> QED  BY <1>6, <1>7, <1>9, <1>10, <1>11 DEF AcksInv

\* A packet added at the end of the tx ring.
LEMMA PacketAdded ==
    ASSUME TypeOK, PacketsInv, NEW p \in Packet, toCC' = Append(toCC, p),
           p.from = p.pos, p.pos + p.length <= Reach', wanted' = wanted,
           Reach \in Int, Reach' \in Int, Reach <= Reach'
    PROVE  PacketsInv'
  <1>1. wanted' <= Reach'
    BY DEF PacketsInv, TypeOK
  <1>2. ASSUME NEW i \in DOMAIN toCC'
        PROVE  /\ toCC'[i].from = toCC'[i].pos
               /\ toCC'[i].pos + toCC'[i].length <= Reach'
    <2>1. CASE i \in DOMAIN toCC /\ toCC'[i] = toCC[i]
      <3>1. toCC[i] \in Packet
        BY <2>1, ElementOfSeq, LenProperties DEF TypeOK
      <3> QED  BY <2>1, <3>1 DEF PacketsInv, PacketsFit, Packet
    <2>2. CASE toCC'[i] = p
      BY <2>2
    <2> QED  BY <1>2, <2>1, <2>2, Added DEF TypeOK
  <1> QED  BY <1>1, <1>2 DEF PacketsInv, PacketsFit

LEMMA EndRequestKeeps ==
    ASSUME IInv, EndRequest
    PROVE  IInv'
  <1> USE SizeAssumption, RingAssumption DEF IInv, EndRequest
  <1>1. sent = Total /\ position = Total /\ acked = Total /\ len = 0
    BY DEF CallInv, TypeOK, Open, InCall
  <1>2. wanted = Total
    BY <1>1, ReachType, ReachWithin DEF AcksInv, AckedHasArrived, PacketsInv, TypeOK
  <1>3. End \in Packet /\ End.from = End.pos /\ End.pos + End.length <= Total
    BY <1>1 DEF End, Packet
  <1>4. TypeOK'
    <2>1. toCC' \in Seq(Packet) /\ Len(toCC') <= RingSize
      <3>1. toCC \in Seq(Packet) /\ Len(toCC) <= RingSize /\ Len(toCC) \in Nat
        BY LenProperties DEF TypeOK
      <3>2. /\ Append(toCC, End) \in Seq(Packet)
            /\ Len(Append(toCC, End)) = Len(toCC) + 1
        BY <1>3, <3>1, Added
      <3> QED  BY <3>1, <3>2 DEF Put
    <2> QED  BY <2>1 DEF TypeOK, callerVars
  <1>5. CallInv'
    BY <1>1 DEF CallInv, Open, InCall
  <1>6. Reach' = Total /\ Reach <= Total
    BY ReachWithin DEF Reach, Open, InCall
  <1>7. PacketsInv'
    <2>1. CASE toCC' = toCC
      BY <1>4, <1>6, <2>1, ReachType, ReachTypeNext, PacketsKept
    <2>2. CASE toCC' = Append(toCC, End)
      BY <1>3, <1>4, <1>6, <2>2, ReachType, ReachTypeNext, PacketAdded
    <2> QED  BY <2>1, <2>2 DEF Put
  <1>8. OldFirst'
    BY <1>1, OldFirstKept DEF AcksInv
  <1>9. AckedHasArrived' /\ EndedIsWhole'
    BY <1>2 DEF AcksInv, AckedHasArrived, EndedIsWhole
  <1> QED  BY <1>4, <1>5, <1>7, <1>8, <1>9 DEF AcksInv

LEMMA SendKeeps ==
    ASSUME IInv, SendPacket \/ PacketRefused
    PROVE  IInv'
  <1> USE SizeAssumption, RingAssumption DEF IInv
  <1>1. app = "send" /\ Advance
        /\ UNCHANGED <<callerVars, position, acked, fromCC, wanted>>
    BY DEF SendPacket, PacketRefused
  <1>2. /\ position = sent /\ sent + len <= Total
        /\ acked <= next /\ next < position + len /\ k < NumSend /\ position <= acked
    BY <1>1 DEF CallInv, Open, InCall
  <1>3. /\ NextPacket \in Packet
        /\ NextPacket.from = NextPacket.pos
        /\ NextPacket.pos + NextPacket.length <= position + len
    <2> DEFINE size == Smaller(position + len - next, RawMaxLen)
    <2>1. next \in Nat /\ position \in Nat /\ sent \in Nat /\ len \in Nat /\ RawMaxLen \in Nat
      BY DEF TypeOK
    <2>2. size \in Nat /\ next + size <= position + len
      BY <1>2, <2>1 DEF Smaller
    <2>3. sent + (next - position) = next
      BY <1>2, <2>1
    <2> HIDE DEF size
    <2>4. NextPacket = [end |-> FALSE, pos |-> next, from |-> next, length |-> size]
      BY <2>3 DEF NextPacket, Data, size
    <2> QED  BY <2>1, <2>2, <2>4 DEF Packet
  <1>4. /\ k' \in 0..NumSend /\ next' \in Nat /\ next < next'
        /\ app' \in {"send", "poll"}
        /\ app' = "send" => k' < NumSend /\ next' < position + len
    BY <1>1, <1>2 DEF Advance, TypeOK
  <1>5. toCC' \in Seq(Packet) /\ Len(toCC') <= RingSize
    <2>1. toCC \in Seq(Packet) /\ Len(toCC) <= RingSize /\ Len(toCC) \in Nat
      BY LenProperties DEF TypeOK
    <2>2. /\ Append(toCC, NextPacket) \in Seq(Packet)
          /\ Len(Append(toCC, NextPacket)) = Len(toCC) + 1
      BY <1>3, <2>1, Added
    <2>3. \/ toCC' = toCC
          \/ toCC' = Append(toCC, NextPacket) /\ Len(toCC) < RingSize
      BY DEF SendPacket, PacketRefused
    <2> QED  BY <2>1, <2>2, <2>3
  <1>6. TypeOK'
    BY <1>1, <1>4, <1>5 DEF TypeOK, callerVars
  <1>7. CallInv'
    BY <1>1, <1>2, <1>4 DEF CallInv, callerVars, Open, InCall, TypeOK
  <1>8. Reach' = Reach
    BY <1>1, <1>4 DEF Reach, Open, InCall, callerVars
  <1>9. position + len <= Reach
    <2>1. position + len <= Total
      BY <1>2
    <2>2. position + len \in Nat
      BY DEF TypeOK
    <2>3. Reach = position + len \/ Reach = Total
      BY DEF Reach
    <2> QED  BY <2>1, <2>2, <2>3
  <1>10. PacketsInv'
    <2>1. CASE toCC' = toCC
      BY <1>1, <1>8, <2>1, ReachType, ReachTypeNext, PacketsKept
    <2>2. CASE toCC' = Append(toCC, NextPacket)
      <3>1. NextPacket.pos + NextPacket.length <= Reach'
        BY <1>3, <1>8, <1>9, ReachType DEF Packet, TypeOK
      <3> QED  BY <1>1, <1>3, <1>8, <2>2, <3>1, ReachType, ReachTypeNext, PacketAdded
    <2> QED  BY <2>1, <2>2 DEF SendPacket, PacketRefused
  <1>11. OldFirst'
    BY <1>1, OldFirstKept DEF AcksInv
  <1>12. AckedHasArrived' /\ EndedIsWhole'
    BY <1>1, <1>4 DEF AcksInv, AckedHasArrived, EndedIsWhole
  <1> QED  BY <1>6, <1>7, <1>10, <1>11, <1>12 DEF AcksInv

LEMMA ReadAckKeeps ==
    ASSUME IInv, ReadAck
    PROVE  IInv'
  <1> USE SizeAssumption, RingAssumption DEF IInv, ReadAck
  <1>1. /\ 1 \in DOMAIN fromCC /\ Ack = fromCC[1] /\ Ack \in Nat
        /\ fromCC' \in Seq(Nat) /\ Len(fromCC') <= RingSize
        /\ \A i \in DOMAIN fromCC' :
              i \in Nat \ {0} /\ i + 1 \in DOMAIN fromCC /\ fromCC'[i] = fromCC[i + 1]
    <2>1. fromCC \in Seq(Nat) /\ fromCC # <<>> /\ fromCC' = Tail(fromCC)
      BY DEF TypeOK
    <2>2. Len(fromCC) \in Nat /\ Len(fromCC) <= RingSize
      BY <2>1, LenProperties DEF TypeOK
    <2>3. Tail(fromCC) \in Seq(Nat) /\ Len(Tail(fromCC)) <= Len(fromCC)
      BY <2>1, Taken
    <2>4. Len(Tail(fromCC)) \in Nat
      BY <2>3, LenProperties
    <2>5. Len(fromCC') <= RingSize
      BY <2>1, <2>2, <2>3, <2>4
    <2> QED  BY <2>1, <2>5, Taken DEF Ack
  <1>2. acked' \in Nat /\ acked <= acked' /\ (acked' = acked \/ (acked' = Ack /\ ~Ignored))
    <2>1. acked \in Nat
      BY DEF TypeOK
    <2>2. acked' = acked \/ (acked' = Ack /\ ~Ignored /\ Ack > acked)
      OBVIOUS
    <2> QED  BY <1>1, <2>1, <2>2
  <1>3. ~Ignored => Ack <= wanted
    <2> SUFFICES ASSUME ~Ignored PROVE Ack <= wanted
      OBVIOUS
    <2>1. \/ Ack <= wanted
          \/ position = 0 /\ acked = 0 /\ \A j \in 1..1 : fromCC[j] > ChunkSize
      BY <1>1 DEF AcksInv, OldFirst
    <2> QED  BY <1>1, <2>1 DEF Ignored
  <1>4. app = "poll" /\ app' \in {"poll", "round", "return"}
    BY DEF AfterAck
  <1>5. TypeOK'
    BY <1>1, <1>2, <1>4 DEF TypeOK, callerVars
  <1>6. app' # "return" => acked' < position + len
    <2>1. acked < position + len
      BY <1>4 DEF CallInv
    <2> QED  BY <1>2, <2>1 DEF AfterAck, TypeOK
  <1>7. CallInv'
    BY <1>2, <1>4, <1>6 DEF CallInv, Open, InCall, callerVars, TypeOK
  <1>8. Reach' = Reach
    BY <1>4 DEF Reach, Open, InCall, callerVars
  <1>9. PacketsInv'
    BY <1>8, ReachType, ReachTypeNext, PacketsKept
  <1>10. OldFirst'
    <2> SUFFICES ASSUME NEW i \in DOMAIN fromCC', ~(fromCC'[i] <= wanted)
                 PROVE  position = 0 /\ acked' = 0 /\ \A j \in 1..i : fromCC'[j] > ChunkSize
      BY DEF OldFirst
    <2>1. /\ i \in Nat \ {0} /\ i + 1 \in DOMAIN fromCC /\ fromCC'[i] = fromCC[i + 1]
      BY <1>1
    <2>2. position = 0 /\ acked = 0 /\ \A j \in 1..(i + 1) : fromCC[j] > ChunkSize
      BY <2>1 DEF AcksInv, OldFirst
    <2>3. Ignored
      BY <1>1, <2>1, <2>2 DEF Ignored
    <2>4. ASSUME NEW j \in 1..i PROVE fromCC'[j] > ChunkSize
      <3>1. j \in DOMAIN fromCC'
        <4>1. DOMAIN fromCC' = 1..Len(fromCC') /\ Len(fromCC') \in Nat
          BY <1>1, LenProperties
        <4> QED  BY <2>1, <4>1
      <3>2. fromCC'[j] = fromCC[j + 1]
        BY <1>1, <3>1
      <3> QED  BY <2>1, <2>2, <3>2
    <2> QED  BY <2>2, <2>3, <2>4
  <1>11. AckedHasArrived' /\ EndedIsWhole'
    BY <1>2, <1>3, <1>4 DEF AcksInv, AckedHasArrived, EndedIsWhole
  <1> QED  BY <1>5, <1>7, <1>9, <1>10, <1>11 DEF AcksInv

LEMMA RoundKeeps ==
    ASSUME IInv, PollTimeout \/ NextRound \/ GiveUp
    PROVE  IInv'
  <1> USE SizeAssumption, RingAssumption DEF IInv, PollTimeout, NextRound, GiveUp
  <1>1. TypeOK'
    <2>1. CASE PollTimeout
      BY <2>1 DEF TypeOK, callerVars
    <2>2. CASE NextRound
      BY <2>2 DEF TypeOK, callerVars
    <2>3. CASE GiveUp
      BY <2>3 DEF TypeOK, callerVars
    <2> QED  BY <2>1, <2>2, <2>3
  <1>2. CallInv'
    <2>1. position' = position /\ acked' = acked /\ sent' = sent /\ len' = len
      BY DEF callerVars
    <2>2. CASE PollTimeout
      BY <2>1, <2>2 DEF CallInv, Open, InCall
    <2>3. CASE NextRound
      <3>1. acked < position + len /\ acked \in Nat /\ NumSend \in Nat \ {0}
        BY <2>3 DEF CallInv, TypeOK
      <3>2. app' = "send" /\ k' < NumSend /\ acked' <= next' /\ next' < position' + len'
        BY <2>1, <2>3, <3>1
      <3> QED  BY <2>1, <2>3, <3>2 DEF CallInv, Open, InCall
    <2>4. CASE GiveUp
      BY <2>1, <2>4 DEF CallInv, Open, InCall
    <2> QED  BY <2>2, <2>3, <2>4
  <1>3. Reach' = Reach
    BY DEF Reach, Open, InCall, callerVars
  <1>4. PacketsInv'
    BY <1>3, ReachType, ReachTypeNext, PacketsKept
  <1>5. OldFirst'
    BY OldFirstKept DEF AcksInv
  <1>6. AckedHasArrived' /\ EndedIsWhole'
    BY DEF AcksInv, AckedHasArrived, EndedIsWhole
  <1> QED  BY <1>1, <1>2, <1>4, <1>5, <1>6 DEF AcksInv

LEMMA BusKeeps ==
    ASSUME IInv, CCReceive \/ LosePacket
    PROVE  IInv'
  <1> USE SizeAssumption, RingAssumption DEF IInv
  <1>1. /\ 1 \in DOMAIN toCC /\ Head(toCC) = toCC[1] /\ Head(toCC) \in Packet
        /\ toCC' \in Seq(Packet) /\ Len(toCC') <= Len(toCC)
        /\ \A i \in DOMAIN toCC' : i + 1 \in DOMAIN toCC /\ toCC'[i] = toCC[i + 1]
    <2>1. toCC # <<>> /\ toCC' = Tail(toCC)
      BY DEF CCReceive, LosePacket
    <2>2. toCC \in Seq(Packet)
      BY DEF TypeOK
    <2> QED  BY <2>1, <2>2, Taken
  <1>2. UNCHANGED <<callerVars, apiVars>>
    BY DEF CCReceive, LosePacket
  <1>3. wanted' \in Nat /\ wanted <= wanted' /\ wanted' <= Reach
    <2>1. toCC[1].pos + toCC[1].length <= Reach /\ wanted <= Reach
      BY <1>1 DEF PacketsInv
    <2>2. toCC[1].length \in Nat /\ toCC[1].pos \in Nat /\ wanted \in Nat
      BY <1>1 DEF Packet, TypeOK
    <2>3. \/ wanted' = wanted
          \/ toCC[1].pos = wanted /\ wanted' = wanted + toCC[1].length
      BY <1>1 DEF CCReceive, LosePacket
    <2> QED  BY <2>1, <2>2, <2>3, ReachType
  <1>4. /\ fromCC' \in Seq(Nat) /\ Len(fromCC') <= RingSize
        /\ \/ fromCC' = fromCC
           \/ fromCC' = Append(fromCC, wanted')
    <2>1. fromCC \in Seq(Nat) /\ Len(fromCC) <= RingSize
      BY DEF TypeOK
    <2>2. /\ Append(fromCC, wanted') \in Seq(Nat)
          /\ Len(Append(fromCC, wanted')) = Len(fromCC) + 1 /\ Len(fromCC) \in Nat
      BY <1>3, <2>1, Added
    <2>3. \/ fromCC' = fromCC
          \/ Len(fromCC) < RingSize /\ fromCC' = Append(fromCC, wanted')
      BY DEF CCReceive, LosePacket
    <2>4. CASE fromCC' = fromCC
      BY <2>1, <2>4
    <2>5. CASE Len(fromCC) < RingSize /\ fromCC' = Append(fromCC, wanted')
      <3>1. Len(Append(fromCC, wanted')) <= RingSize
        BY <2>2, <2>5
      <3> QED  BY <2>2, <2>5, <3>1, Zenon
    <2> QED  BY <2>3, <2>4, <2>5
  <1>5. TypeOK'
    <2>1. Len(toCC) \in Nat /\ Len(toCC') \in Nat
      BY <1>1, LenProperties DEF TypeOK
    <2> QED  BY <1>1, <1>2, <1>3, <1>4, <2>1 DEF TypeOK, callerVars, apiVars
  <1>6. CallInv'
    BY <1>2 DEF CallInv, Open, InCall, callerVars, apiVars
  <1>7. Reach' = Reach
    BY <1>2 DEF Reach, Open, InCall, callerVars, apiVars
  <1>8. PacketsInv'
    BY <1>1, <1>3, <1>7 DEF PacketsInv, PacketsFit
  <1>9. OldFirst'
    <2> SUFFICES ASSUME NEW i \in DOMAIN fromCC', ~(fromCC'[i] <= wanted')
                 PROVE  position' = 0 /\ acked' = 0 /\ \A j \in 1..i : fromCC'[j] > ChunkSize
      BY DEF OldFirst
    <2>0. ASSUME fromCC' = Append(fromCC, wanted')
          PROVE  i \in DOMAIN fromCC /\ \A m \in DOMAIN fromCC : fromCC'[m] = fromCC[m]
      <3>1. fromCC \in Seq(Nat)
        BY DEF TypeOK
      <3>2. /\ \A m \in DOMAIN Append(fromCC, wanted') :
                  \/ m \in DOMAIN fromCC /\ Append(fromCC, wanted')[m] = fromCC[m]
                  \/ m = Len(fromCC) + 1 /\ Append(fromCC, wanted')[m] = wanted'
            /\ \A m \in DOMAIN fromCC : Append(fromCC, wanted')[m] = fromCC[m]
        BY <1>3, <3>1, Added, SMTT(30)
      <3>3. fromCC'[i] # wanted'
        BY <1>3
      <3> QED  BY <2>0, <3>2, <3>3
    <2>1. i \in DOMAIN fromCC /\ fromCC'[i] = fromCC[i]
      BY <1>4, <2>0
    <2>2. DOMAIN fromCC = 1..Len(fromCC) /\ Len(fromCC) \in Nat /\ fromCC[i] \in Nat
      BY <2>1, LenProperties, ElementOfSeq DEF TypeOK
    <2>3. position = 0 /\ acked = 0 /\ \A j \in 1..i : fromCC[j] > ChunkSize
      <3>1. wanted \in Nat /\ wanted' \in Nat
        BY <1>2, <1>5 DEF TypeOK
      <3>2. ~(fromCC[i] <= wanted)
        BY <1>3, <2>0, <2>1, <2>2, <3>1
      <3> QED  BY <2>1, <3>2 DEF AcksInv, OldFirst
    <2>4. ASSUME NEW j \in 1..i PROVE fromCC'[j] = fromCC[j]
      <3>1. j \in DOMAIN fromCC
        BY <2>1, <2>2
      <3> QED  BY <1>4, <2>0, <3>1
    <2> QED  BY <1>2, <2>3, <2>4 DEF apiVars
  <1>10. AckedHasArrived'
    BY <1>2, <1>3 DEF AcksInv, AckedHasArrived, apiVars, TypeOK
  <1>11. EndedIsWhole'
    <2>1. app = "finished" => Reach = Total
      BY DEF Reach, Open, InCall
    <2> QED  BY <1>2, <1>3, <2>1 DEF AcksInv, EndedIsWhole, apiVars, TypeOK
  <1> QED  BY <1>5, <1>6, <1>8, <1>9, <1>10, <1>11 DEF AcksInv

LEMMA NextIInv == IInv /\ [Next]_vars => IInv'
  <1> SUFFICES ASSUME IInv, [Next]_vars PROVE IInv'
    OBVIOUS
  <1>1. CASE App
    BY <1>1, CallKeeps, EndRequestKeeps, ReturnKeeps, SendKeeps, ReadAckKeeps, RoundKeeps
       DEF App
  <1>2. CASE GiveUp
    BY <1>2, RoundKeeps
  <1>3. CASE CCReceive \/ LosePacket
    BY <1>3, BusKeeps
  <1>4. CASE UNCHANGED vars
    BY <1>4 DEF vars, callerVars, apiVars, IInv, TypeOK, CallInv, PacketsInv, AcksInv,
                Open, InCall, Reach, PacketsFit, AckedHasArrived, OldFirst, EndedIsWhole
  <1> QED  BY <1>1, <1>2, <1>3, <1>4 DEF Next

-----------------------------------------------------------------------------
(* A request is a delivery                                                 *)

\* The mapping, as states.
Bytes == 0 .. Total - 1
ArrivedBytes == 0 .. wanted - 1
CountedBytes == 0 .. acked - 1
RequestView == <<Bytes, ArrivedBytes, CountedBytes, Ended>>

\* A prefix of the request grows with its length.
LEMMA PrefixGrows ==
    ASSUME NEW a \in Nat, NEW b \in Nat, a <= b
    PROVE  0 .. a - 1 \subseteq 0 .. b - 1
  OBVIOUS

\* A step that the abstract transfer does not see.
LEMMA RequestUnchanged ==
    ASSUME UNCHANGED <<wanted, acked>>, ~Ended, ~Ended'
    PROVE  UNCHANGED RequestView
  <1>1. Ended' = Ended
    BY DEF Ended
  <1> QED  BY <1>1 DEF RequestView, Bytes, ArrivedBytes, CountedBytes

\* A call begins counting where the last one ended, and a request ends with all counted.
LEMMA CallerDelivers ==
    ASSUME IInv, EndRequest \/ Return \/ \E m \in 1..ChunkSize : Call(m)
    PROVE  Request!Next \/ UNCHANGED RequestView
  <1> USE DEF callerVars
  <1>1. CASE \E m \in 1..ChunkSize : Call(m)
    <2>1. acked' = position /\ app = "idle" /\ app' = "send" /\ wanted' = wanted
      BY <1>1 DEF Call
    <2>2. acked = position
      BY <2>1 DEF IInv, CallInv
    <2>3. ~Ended /\ ~Ended'
      BY <2>1 DEF Ended
    <2> QED  BY <2>1, <2>2, <2>3, RequestUnchanged
  <1>2. CASE Return
    <2>1. UNCHANGED <<wanted, acked>> /\ app = "return" /\ app' \in {"idle", "given_up"}
      BY <1>2 DEF Return
    <2>2. ~Ended /\ ~Ended'
      BY <2>1 DEF Ended
    <2> QED  BY <2>1, <2>2, RequestUnchanged
  <1>3. CASE EndRequest
    <2>1. app = "idle" /\ sent >= Total /\ app' = "finished" /\ UNCHANGED <<wanted, acked>>
      BY <1>3 DEF EndRequest
    <2>2. acked = Total
      <3>1. acked = sent /\ sent + len <= Total /\ len \in Nat /\ sent \in Nat
        BY <2>1, SizeAssumption DEF IInv, TypeOK, CallInv, Open
      <3> QED  BY <2>1, <3>1, SizeAssumption
    <2>3. Request!Complete
      BY <2>1, <2>2 DEF Request!Complete, Ended
    <2> QED  BY <2>3 DEF Request!Next
  <1> QED  BY <1>1, <1>2, <1>3

\* A position that is read confirms what comes before it.
LEMMA WindowDelivers ==
    ASSUME IInv, IInv',
           SendPacket \/ PacketRefused \/ ReadAck \/ PollTimeout \/ NextRound \/ GiveUp
    PROVE  Request!Next \/ UNCHANGED RequestView
  <1> USE DEF callerVars
  <1>1. CASE SendPacket \/ PacketRefused \/ PollTimeout \/ NextRound \/ GiveUp
    <2>1. /\ UNCHANGED <<wanted, acked>> /\ app \in {"send", "poll", "round"}
          /\ app' \in {"send", "poll", "round", "return"}
      BY <1>1 DEF SendPacket, PacketRefused, PollTimeout, NextRound, GiveUp, Advance
    <2>2. ~Ended /\ ~Ended'
      BY <2>1 DEF Ended
    <2> QED  BY <2>1, <2>2, RequestUnchanged
  <1>2. CASE ReadAck
    <2>1. UNCHANGED wanted /\ ~Ended /\ ~Ended' /\ Ended' = Ended
      BY <1>2 DEF ReadAck, AfterAck, Ended
    <2>2. acked \in Nat /\ acked' \in Nat /\ wanted \in Nat /\ acked' <= wanted
      BY <2>1 DEF IInv, TypeOK, AcksInv, AckedHasArrived
    <2>3. acked <= acked'
      BY <1>2, <2>2 DEF ReadAck
    <2>4. CountedBytes \subseteq CountedBytes' /\ CountedBytes' \subseteq ArrivedBytes
      BY <2>2, <2>3, PrefixGrows DEF CountedBytes, ArrivedBytes
    <2>5. Request!Confirm
      BY <2>1, <2>4 DEF Request!Confirm, CountedBytes, ArrivedBytes
    <2> QED  BY <2>5 DEF Request!Next
  <1> QED  BY <1>1, <1>2

\* What the CC3200 takes has arrived; nothing beyond the request does.
LEMMA BusDelivers ==
    ASSUME IInv, IInv', CCReceive \/ LosePacket
    PROVE  Request!Next \/ UNCHANGED RequestView
  <1> USE DEF callerVars, apiVars
  <1>0. Ended' = Ended
    <2>1. UNCHANGED app /\ app # "closed"
      BY DEF IInv, TypeOK, CCReceive, LosePacket
    <2> QED  BY <2>1 DEF Ended
  <1>1. CASE LosePacket
    BY <1>0, <1>1 DEF LosePacket, RequestView, Bytes, ArrivedBytes, CountedBytes
  <1>2. CASE CCReceive
    <2>1. UNCHANGED <<acked, app>> /\ toCC # <<>>
      BY <1>2 DEF CCReceive
    <2>2. wanted \in Nat /\ wanted' \in Nat /\ wanted <= wanted'
      <3>1. Head(toCC) \in Packet /\ wanted \in Nat
        BY <2>1, Taken DEF IInv, TypeOK
      <3>2. Head(toCC).length \in Nat
        BY <3>1 DEF Packet
      <3>3. wanted' = wanted + Head(toCC).length \/ wanted' = wanted
        BY <1>2 DEF CCReceive
      <3> QED  BY <3>1, <3>2, <3>3
    <2>3. wanted' <= Total
      <3>1. wanted' <= Reach' /\ Reach' <= Total /\ Reach' \in Nat
        BY ReachWithinNext, ReachTypeNext DEF IInv, PacketsInv
      <3> QED  BY <2>2, <3>1, SizeAssumption
    <2>4. ArrivedBytes \subseteq ArrivedBytes' /\ ArrivedBytes' \subseteq Bytes
      BY <2>2, <2>3, SizeAssumption, PrefixGrows DEF ArrivedBytes, Bytes
    <2>5. Request!Arrive
      BY <1>0, <2>1, <2>4 DEF Request!Arrive, ArrivedBytes, Bytes
    <2> QED  BY <2>5 DEF Request!Next
  <1> QED  BY <1>1, <1>2

-----------------------------------------------------------------------------
(* Receiving the answer                                                    *)

\* How far into the answer the caller is, with what the call returns.
Reached ==
    IF app = "closed" THEN AnswerLen
    ELSE IF app = "recv_return" /\ ret > 0 THEN got + ret
    ELSE got

\* Caller and callee agree on where the answer goes on, until its end is seen; a call
\* starts with nothing to return; the first packet is all that upload_all_in_one takes.
PlaceInv ==
    /\ Reached <= AnswerLen
    /\ app # "closed" =>
           \/ position = Reached
           \/ app = "recv_return" /\ ret = 0 /\ position = 0 /\ got = AnswerLen
    /\ app # "closed" /\ caller = "all_in_one" => got = 0 /\ tries < Tries
    /\ app = "recv" => ret = 0 /\ retry > 0

\* No position is told that the caller has not come to.
AskedUpTo(ring, n) == \A i \in DOMAIN ring : ring[i].pos <= n

\* A packet has data and ends inside the answer; the end is told to a caller that has all.
TrueOf(a, n) ==
    /\ a.kind = "data" => a.length > 0 /\ a.pos + a.length <= AnswerLen
    /\ a.kind = "end" => n = AnswerLen

AllTrue(ring, n) == \A i \in DOMAIN ring : TrueOf(ring[i], n)

RecvInv ==
    /\ RecvTypeOK
    /\ PlaceInv
    /\ AskedUpTo(toCC, Reached)
    /\ AllTrue(fromCC, Reached)

LEMMA PutAdds ==
    ASSUME NEW S, NEW ring \in Seq(S), Len(ring) <= RingSize, NEW e \in S
    PROVE  /\ Put(ring, e) \in Seq(S) /\ Len(Put(ring, e)) <= RingSize
           /\ \A i \in DOMAIN Put(ring, e) :
                 \/ Put(ring, e)[i] = e
                 \/ i \in DOMAIN ring /\ Put(ring, e)[i] = ring[i]
  <1>1. CASE Len(ring) < RingSize
    <2>1. Put(ring, e) = Append(ring, e)
      BY <1>1 DEF Put
    <2> QED  BY <1>1, <2>1, Added, RingAssumption
  <1>2. CASE ~(Len(ring) < RingSize)
    BY <1>2 DEF Put
  <1> QED  BY <1>1, <1>2

\* A position is told that the caller has come to.
LEMMA PositionTold ==
    ASSUME RecvInv, NEW n \in 0..AnswerLen, NEW e \in {Position(n), Close},
           NEW top \in Nat, Reached <= top, n <= top,
           toCC' = Put(toCC, e)
    PROVE  toCC' \in Seq(Asked) /\ Len(toCC') <= RingSize /\ AskedUpTo(toCC', top)
  <1>1. e \in Asked /\ e.pos <= top
    <2>1. CASE e = Position(n)
      <3>1. e = [kind |-> "position", pos |-> n]
        BY <2>1 DEF Position
      <3> QED  BY <3>1 DEF Asked
    <2>2. CASE e = Close
      <3>1. e = [kind |-> "close", pos |-> 0] /\ 0 \in 0..AnswerLen
        BY <2>2, RecvAssumption DEF Close
      <3> QED  BY <3>1 DEF Asked
    <2> QED  BY <2>1, <2>2
  <1>2. toCC \in Seq(Asked) /\ Len(toCC) <= RingSize
    BY DEF RecvInv, RecvTypeOK, Asked
  <1>3. ASSUME NEW i \in DOMAIN toCC PROVE toCC[i].pos <= top
    <2>1. toCC[i] \in Asked
      BY <1>2, <1>3, LenProperties, ElementOfSeq
    <2>2. toCC[i].pos <= Reached /\ Reached \in Int
      BY <1>3, RecvAssumption DEF RecvInv, AskedUpTo, Reached, RecvTypeOK
    <2> QED  BY <2>1, <2>2 DEF Asked
  <1>4. /\ Put(toCC, e) \in Seq(Asked) /\ Len(Put(toCC, e)) <= RingSize
        /\ \A i \in DOMAIN Put(toCC, e) :
              \/ Put(toCC, e)[i] = e
              \/ i \in DOMAIN toCC /\ Put(toCC, e)[i] = toCC[i]
    BY <1>1, <1>2, PutAdds
  <1> QED  BY <1>1, <1>3, <1>4 DEF AskedUpTo

\* The ring keeps what is in it as the caller comes further.
LEMMA AskedKept ==
    ASSUME RecvInv, toCC' = toCC, NEW top \in Nat, Reached <= top
    PROVE  AskedUpTo(toCC', top)
  <1> SUFFICES ASSUME NEW i \in DOMAIN toCC PROVE toCC[i].pos <= top
    BY DEF AskedUpTo
  <1>1. toCC[i] \in Asked
    BY LenProperties, ElementOfSeq DEF RecvInv, RecvTypeOK, Asked
  <1>2. toCC[i].pos <= Reached /\ Reached \in Int
    BY RecvAssumption DEF RecvInv, AskedUpTo, Reached, RecvTypeOK
  <1> QED  BY <1>1, <1>2 DEF Asked

LEMMA ReachedType == RecvTypeOK => Reached \in Nat
  BY RecvAssumption DEF RecvTypeOK, Reached

LEMMA ReachedTypeNext == RecvTypeOK' => Reached' \in Nat
  <1> SUFFICES ASSUME RecvTypeOK' PROVE Reached' \in Nat
    OBVIOUS
  <1>1. AnswerLen \in Nat /\ got' \in Nat /\ ret' \in Int
    BY RecvAssumption DEF RecvTypeOK
  <1>2. \/ Reached' = AnswerLen
        \/ ret' > 0 /\ Reached' = got' + ret'
        \/ Reached' = got'
    BY DEF Reached
  <1> QED  BY <1>1, <1>2

\* What is next in the rx ring is true, and the rest of the ring stays so.
LEMMA AnswerTaken ==
    ASSUME RecvInv, fromCC # <<>>
    PROVE  /\ Head(fromCC) \in Packets /\ TrueOf(Head(fromCC), Reached)
           /\ Tail(fromCC) \in Seq(Packets) /\ Len(Tail(fromCC)) <= RingSize
           /\ AllTrue(Tail(fromCC), Reached)
  <1>1. fromCC \in Seq(Packets) /\ Len(fromCC) <= RingSize /\ Len(fromCC) \in Nat
    BY LenProperties DEF RecvInv, RecvTypeOK
  <1>2. /\ 1 \in DOMAIN fromCC /\ Head(fromCC) = fromCC[1] /\ Head(fromCC) \in Packets
        /\ Tail(fromCC) \in Seq(Packets) /\ Len(Tail(fromCC)) <= Len(fromCC)
        /\ \A i \in DOMAIN Tail(fromCC) :
              i + 1 \in DOMAIN fromCC /\ Tail(fromCC)[i] = fromCC[i + 1]
    BY <1>1, Taken
  <1>3. Len(Tail(fromCC)) \in Nat
    BY <1>2, LenProperties
  <1> QED  BY <1>1, <1>2, <1>3, RingAssumption DEF RecvInv, AllTrue

LEMMA RecvCallKeeps ==
    ASSUME RecvInv, RecvCall
    PROVE  RecvInv'
  <1> USE RecvAssumption DEF RecvInv, RecvCall, fetchVars
  <1>1. Reached = got /\ Reached' = got /\ position = got /\ got \in 0..AnswerLen
    BY DEF Reached, PlaceInv, RecvTypeOK
  <1>2. toCC' \in Seq(Asked) /\ Len(toCC') <= RingSize /\ AskedUpTo(toCC', Reached')
    <2>1. CASE toCC' = toCC
      BY <1>1, <2>1, AskedKept DEF RecvTypeOK, Asked
    <2>2. CASE toCC' = Put(toCC, Position(position))
      BY <1>1, <2>2, PositionTold
    <2> QED  BY <2>1, <2>2
  <1>3. RecvTypeOK'
    <2>1. Retries \in 0..Retries /\ 0 \in -1..RawMaxLen
      OBVIOUS
    <2> QED  BY <1>2, <2>1 DEF RecvTypeOK, Asked
  <1>4. PlaceInv'
    BY <1>1 DEF PlaceInv
  <1>5. AllTrue(fromCC', Reached')
    BY <1>1
  <1> QED  BY <1>2, <1>3, <1>4, <1>5

LEMMA TakeDataKeeps ==
    ASSUME RecvInv, TakeData
    PROVE  RecvInv' /\ Head(fromCC).pos = got
  <1> DEFINE a == Head(fromCC)
  <1> USE RecvAssumption DEF RecvInv, TakeData, Receiving, InPlace, fetchVars
  <1>1. /\ a \in Packets /\ TrueOf(a, Reached)
        /\ Tail(fromCC) \in Seq(Packets) /\ Len(Tail(fromCC)) <= RingSize
        /\ AllTrue(Tail(fromCC), Reached)
    BY AnswerTaken
  <1>2. Reached = got /\ position = got /\ a.pos = got
    BY DEF Reached, PlaceInv
  <1>3. /\ a.length \in 1..RawMaxLen /\ got + a.length <= AnswerLen /\ got \in 0..AnswerLen
    <2>1. a.kind = "data" /\ got \in 0..AnswerLen
      BY DEF RecvTypeOK
    <2>2. a.length > 0 /\ got + a.length <= AnswerLen
      BY <1>1, <1>2, <2>1 DEF TrueOf
    <2>3. a.length \in 0..RawMaxLen
      BY <1>1 DEF Packets
    <2> QED  BY <2>1, <2>2, <2>3
  <1>4. position' = got + a.length /\ ret' = a.length /\ app' = "recv_return" /\ got' = got
    BY <1>2
  <1>5. Reached' = got + a.length
    BY <1>3, <1>4 DEF Reached
  <1>6. toCC' \in Seq(Asked) /\ Len(toCC') <= RingSize /\ AskedUpTo(toCC', Reached')
    <2> DEFINE n == got + a.length
    <2>1. toCC' = Put(toCC, Position(n)) /\ n \in 0..AnswerLen /\ n \in Nat /\ Reached <= n
      BY <1>2, <1>3, <1>4
    <2> HIDE DEF n
    <2>2. toCC' \in Seq(Asked) /\ Len(toCC') <= RingSize /\ AskedUpTo(toCC', n)
      BY <2>1, PositionTold
    <2> QED  BY <1>5, <2>2 DEF n
  <1>7. AllTrue(fromCC', Reached')
    <2> SUFFICES ASSUME NEW i \in DOMAIN fromCC'
                 PROVE  TrueOf(fromCC'[i], Reached')
      BY DEF AllTrue
    <2>1. TrueOf(fromCC'[i], Reached) /\ Reached # AnswerLen
      BY <1>1, <1>2, <1>3 DEF AllTrue
    <2> QED  BY <2>1 DEF TrueOf
  <1>8. RecvTypeOK'
    <2>1. a.length \in -1..RawMaxLen /\ got + a.length \in 0..AnswerLen
      BY <1>3
    <2> HIDE DEF a
    <2> QED  BY <1>1, <1>4, <1>6, <2>1 DEF RecvTypeOK, Asked
  <1>9. PlaceInv'
    BY <1>3, <1>4, <1>5 DEF PlaceInv
  <1> QED  BY <1>2, <1>6, <1>7, <1>8, <1>9

LEMMA PassOverKeeps ==
    ASSUME RecvInv, PassOver
    PROVE  RecvInv'
  <1> USE RecvAssumption DEF RecvInv, PassOver, Receiving, fetchVars
  <1>1. /\ Tail(fromCC) \in Seq(Packets) /\ Len(Tail(fromCC)) <= RingSize
        /\ AllTrue(Tail(fromCC), Reached)
    BY AnswerTaken
  <1>2. Reached = got /\ position = got /\ got \in 0..AnswerLen /\ ret = 0
        /\ retry \in 1..Retries
    BY DEF Reached, PlaceInv, RecvTypeOK
  <1>3. /\ retry' \in 0..Retries
        /\ \/ retry' = 0 /\ ret' = -1 /\ app' = "recv_return" /\ toCC' = toCC
           \/ /\ retry' > 0 /\ ret' = 0 /\ app' = "recv"
              /\ toCC' = Put(toCC, Position(position))
    BY <1>2
  <1>4. Reached' = got
    BY <1>3 DEF Reached
  <1>5. toCC' \in Seq(Asked) /\ Len(toCC') <= RingSize /\ AskedUpTo(toCC', Reached')
    <2>1. CASE toCC' = toCC
      BY <1>2, <1>4, <2>1, AskedKept DEF RecvTypeOK, Asked
    <2>2. CASE toCC' = Put(toCC, Position(position))
      BY <1>2, <1>4, <2>2, PositionTold
    <2> QED  BY <1>3, <2>1, <2>2
  <1>6. RecvTypeOK'
    <2>1. fromCC' \in Seq(Packets) /\ Len(fromCC') <= RingSize
      BY <1>1
    <2>2. ret' \in Int /\ app' \in {"recv_return", "recv"}
      BY <1>3
    <2> QED  BY <1>3, <1>5, <2>1, <2>2 DEF RecvTypeOK, Asked
  <1>7. PlaceInv'
    BY <1>2, <1>3, <1>4 DEF PlaceInv
  <1> QED  BY <1>1, <1>2, <1>4, <1>5, <1>6, <1>7

LEMMA SeeEndKeeps ==
    ASSUME RecvInv, SeeEnd
    PROVE  RecvInv' /\ got = AnswerLen
  <1> USE RecvAssumption DEF RecvInv, SeeEnd, Receiving, fetchVars
  <1>1. /\ TrueOf(Head(fromCC), Reached)
        /\ Tail(fromCC) \in Seq(Packets) /\ Len(Tail(fromCC)) <= RingSize
        /\ AllTrue(Tail(fromCC), Reached)
    BY AnswerTaken
  <1>2. Reached = got /\ got = AnswerLen /\ caller # "all_in_one"
    BY <1>1 DEF Reached, PlaceInv, TrueOf
  <1>3. Reached' = got
    BY DEF Reached
  <1>4. AskedUpTo(toCC', Reached')
    BY <1>2, <1>3
  <1>5. RecvTypeOK'
    BY <1>1 DEF RecvTypeOK
  <1>6. PlaceInv'
    BY <1>2, <1>3 DEF PlaceInv
  <1> QED  BY <1>1, <1>2, <1>3, <1>4, <1>5, <1>6

LEMMA WaitKeeps ==
    ASSUME RecvInv, WaitOn \/ TimesOut
    PROVE  RecvInv'
  <1> USE RecvAssumption DEF RecvInv, Wait, Receiving, fetchVars
  <1>1. Wait /\ app' \in {"recv", "recv_return"}
    BY DEF WaitOn, TimesOut
  <1>2. /\ fromCC' \in Seq(Packets) /\ Len(fromCC') <= RingSize
        /\ AllTrue(fromCC', Reached)
    BY <1>1, AnswerTaken DEF RecvTypeOK
  <1>3. Reached = got /\ Reached' = got /\ position = got /\ got \in 0..AnswerLen
    BY <1>1 DEF Reached, PlaceInv, RecvTypeOK
  <1>4. toCC' \in Seq(Asked) /\ Len(toCC') <= RingSize /\ AskedUpTo(toCC', Reached')
    BY <1>1, <1>3, PositionTold
  <1>5. RecvTypeOK'
    BY <1>1, <1>2, <1>4 DEF RecvTypeOK, Asked
  <1>6. PlaceInv'
    BY <1>1, <1>3 DEF PlaceInv
  <1> QED  BY <1>2, <1>3, <1>4, <1>5, <1>6

\* The callers: the socket is closed, or nothing in the rings changes.
LEMMA RecvReturnKeeps ==
    ASSUME RecvInv, RecvReturn
    PROVE  RecvInv'
  <1> USE RecvAssumption, RingAssumption DEF RecvInv, RecvReturn
  <1>1. /\ got' \in 0..AnswerLen /\ tries' \in 0..Tries
        /\ \/ \E r \in {"answer", "failed"} : CloseSocket(r)
           \/ /\ TryAgain /\ got' = Reached /\ position = Reached
              /\ caller = "all_in_one" => got' = 0 /\ tries' < Tries
    <2>1. CASE caller = "all_in_one"
      <3>1. got = 0 /\ tries < Tries /\ position = Reached
        BY <2>1 DEF PlaceInv
      <3>2. ret > 0 => Reached = ret
        BY <3>1 DEF Reached, RecvTypeOK
      <3>3. ~(ret > 0) => Reached = got
        BY DEF Reached
      <3> QED  BY <2>1, <3>1, <3>2, <3>3 DEF UseFirstPacket, PlaceInv, RecvTypeOK
    <2>2. CASE caller = "event_add"
      <3>1. ret > 0 => Reached = got + ret /\ position = Reached
        BY DEF Reached, PlaceInv
      <3>2. ~(ret > 0) => Reached = got
        BY DEF Reached
      <3>3. ~(ret > 0) /\ got = 0 => position = Reached
        BY DEF PlaceInv
      <3>4. /\ got \in 0..AnswerLen /\ tries \in 0..Tries /\ ret \in -1..RawMaxLen
            /\ Reached <= AnswerLen
        BY DEF PlaceInv, RecvTypeOK
      <3>5. CASE ret > 0
        BY <2>2, <3>1, <3>4, <3>5 DEF AppendPacket
      <3>6. CASE ~(ret > 0)
        BY <2>2, <3>2, <3>3, <3>4, <3>6 DEF AppendPacket
      <3> QED  BY <3>5, <3>6
    <2> QED  BY <2>1, <2>2 DEF RecvTypeOK, Callers
  <1>2. CASE TryAgain /\ got' = Reached /\ position = Reached
             /\ (caller = "all_in_one" => got' = 0 /\ tries' < Tries)
    <2>1. Reached' = Reached
      BY <1>2 DEF TryAgain, Reached
    <2>2. RecvTypeOK'
      BY <1>1, <1>2 DEF TryAgain, RecvTypeOK
    <2>3. PlaceInv'
      BY <1>2, <2>1 DEF TryAgain, PlaceInv
    <2> QED  BY <1>2, <2>1, <2>2, <2>3 DEF TryAgain
  <1>3. ASSUME NEW r \in {"answer", "failed"}, CloseSocket(r)
        PROVE  RecvInv'
    <2>1. Reached' = AnswerLen /\ app' = "closed" /\ result' = r /\ position' = 0
          /\ fromCC' = <<>> /\ toCC' = Put(toCC, Close)
      BY <1>3 DEF CloseSocket, Reached
    <2>2. Reached <= AnswerLen /\ AnswerLen \in Nat /\ 0 \in 0..AnswerLen
      BY DEF PlaceInv
    <2>3. toCC' \in Seq(Asked) /\ Len(toCC') <= RingSize /\ AskedUpTo(toCC', Reached')
      BY <2>1, <2>2, PositionTold
    <2>4. fromCC' \in Seq(Packets) /\ Len(fromCC') <= RingSize /\ AllTrue(fromCC', Reached')
      BY <2>1, EmptySeq DEF AllTrue
    <2>5. RecvTypeOK'
      BY <1>1, <2>1, <2>2, <2>3, <2>4 DEF RecvTypeOK, Asked
    <2>6. PlaceInv'
      BY <2>1, <2>2 DEF PlaceInv
    <2> QED  BY <2>3, <2>4, <2>5, <2>6
  <1> QED  BY <1>1, <1>2, <1>3

\* The CC3200 answers what it is asked, truly, or not at all.
LEMMA CCKeeps ==
    ASSUME RecvInv, CCAnswer \/ CCSilent
    PROVE  RecvInv'
  <1> DEFINE c == Head(toCC)
  <1> USE RecvAssumption DEF RecvInv
  <1>1. /\ toCC # <<>> /\ toCC' = Tail(toCC)
        /\ UNCHANGED <<fetchVars, recvVars>>
    BY DEF CCAnswer, CCSilent
  <1>2. /\ 1 \in DOMAIN toCC /\ c = toCC[1] /\ c \in Asked
        /\ toCC' \in Seq(Asked) /\ Len(toCC') <= Len(toCC)
        /\ \A i \in DOMAIN toCC' : i + 1 \in DOMAIN toCC /\ toCC'[i] = toCC[i + 1]
    <2>1. toCC \in Seq(Asked)
      BY DEF RecvTypeOK, Asked
    <2> HIDE DEF RecvInv
    <2> QED  BY <1>1, <2>1, Taken
  <1>3. Len(toCC) \in Nat /\ Len(toCC') \in Nat /\ Len(toCC) <= RingSize
    BY <1>2, LenProperties DEF RecvTypeOK, Asked
  <1>4. Reached' = Reached /\ Reached \in Nat /\ Reached <= AnswerLen
    BY <1>1, ReachedType DEF Reached, fetchVars, recvVars, PlaceInv
  <1>5. AskedUpTo(toCC', Reached')
    BY <1>2, <1>4 DEF AskedUpTo
  <1>6. /\ fromCC' \in Seq(Packets) /\ Len(fromCC') <= RingSize
        /\ AllTrue(fromCC', Reached')
    <2>1. CASE fromCC' = fromCC
      BY <1>4, <2>1 DEF RecvTypeOK
    <2>2. ASSUME NEW e \in Answers(c), fromCC' = Put(fromCC, e)
          PROVE  /\ fromCC' \in Seq(Packets) /\ Len(fromCC') <= RingSize
                 /\ AllTrue(fromCC', Reached')
      <3>1. c.pos \in 0..AnswerLen /\ c.pos <= Reached
        BY <1>2 DEF Asked, AskedUpTo
      <3>2. e \in Packets /\ TrueOf(e, Reached)
        <4>0. CASE c.kind = "request"
          <5>1. e = [kind |-> "other", pos |-> 0, length |-> 0]
            BY <2>2, <4>0 DEF Answers, Other
          <5> QED  BY <5>1 DEF Packets, TrueOf
        <4>1. CASE c.kind # "request" /\ c.pos >= AnswerLen
          <5>1. e = [kind |-> "end", pos |-> AnswerLen, length |-> 0]
            BY <2>2, <4>1 DEF Answers, AnswerEnd
          <5> QED  BY <1>4, <3>1, <4>1, <5>1 DEF Packets, TrueOf
        <4>2. CASE c.kind # "request" /\ ~(c.pos >= AnswerLen)
          <5>1. PICK n \in 1..RawMaxLen :
                   /\ c.pos + n <= AnswerLen
                   /\ e = [kind |-> "data", pos |-> c.pos, length |-> n]
            BY <2>2, <3>1, <4>2 DEF Answers, AnswerData
          <5> QED  BY <3>1, <5>1 DEF Packets, TrueOf
        <4> QED  BY <4>0, <4>1, <4>2
      <3>3. /\ Put(fromCC, e) \in Seq(Packets) /\ Len(Put(fromCC, e)) <= RingSize
            /\ \A i \in DOMAIN Put(fromCC, e) :
                  \/ Put(fromCC, e)[i] = e
                  \/ i \in DOMAIN fromCC /\ Put(fromCC, e)[i] = fromCC[i]
        BY <3>2, PutAdds DEF RecvTypeOK
      <3> QED  BY <1>4, <2>2, <3>2, <3>3 DEF AllTrue
    <2> QED  BY <2>1, <2>2 DEF CCAnswer, CCSilent
  <1>7. RecvTypeOK'
    BY <1>1, <1>2, <1>3, <1>6, RingAssumption DEF RecvTypeOK, Asked, fetchVars, recvVars
  <1>8. PlaceInv'
    BY <1>1, <1>4 DEF PlaceInv, fetchVars, recvVars
  <1> QED  BY <1>5, <1>6, <1>7, <1>8

LEMMA RecvNextInv == RecvInv /\ [RecvNext]_answerVars => RecvInv'
  <1> SUFFICES ASSUME RecvInv, [RecvNext]_answerVars PROVE RecvInv'
    OBVIOUS
  <1>1. CASE RecvNext
    BY <1>1, RecvCallKeeps, TakeDataKeeps, PassOverKeeps, SeeEndKeeps, WaitKeeps,
       RecvReturnKeeps, CCKeeps DEF RecvNext, Take
  <1>2. CASE UNCHANGED answerVars
    BY <1>2 DEF answerVars, fetchVars, recvVars, RecvInv, RecvTypeOK, PlaceInv, Reached,
                AskedUpTo, AllTrue
  <1> QED  BY <1>1, <1>2

-----------------------------------------------------------------------------
(* The whole session                                                       *)

\* What upload_recv_api has not touched yet.
Untouched ==
    /\ tries = 0 /\ got = 0 /\ result = "none"
    /\ first \in BOOLEAN /\ retry = 0 /\ ret = 0

\* upload_send_api leaves g_iPosition at 0 for the answer.
PositionReset == app = "finished" => position = 0

\* While the request is sent its invariant holds, and afterwards that of the answer; what
\* has been counted has arrived, and a request that is ended is whole, all the time.
SessionInv ==
    /\ Sending => IInv /\ Untouched /\ PositionReset
    /\ ~Sending => RecvInv
    /\ AckedHasArrived
    /\ Ended => wanted = Total

\* Only upload_send_api with length 0 ends the request, and it resets g_iPosition.
LEMMA SendResets ==
    ASSUME PositionReset, Next
    PROVE  PositionReset'
  <1> USE DEF PositionReset
  <1>1. CASE EndRequest
    BY <1>1 DEF EndRequest
  <1>2. CASE CCReceive \/ LosePacket
    BY <1>2 DEF CCReceive, LosePacket, apiVars
  <1>3. CASE (App /\ ~EndRequest) \/ GiveUp
    <2>1. app' # "finished"
      BY <1>3 DEF App, Call, Return, SendPacket, PacketRefused, Advance, ReadAck, AfterAck,
         PollTimeout, NextRound, GiveUp
    <2> QED  BY <2>1
  <1> QED  BY <1>1, <1>2, <1>3 DEF Next

\* A step of the one half stays in it until the other takes over.
LEMMA HalvesApart ==
    /\ IInv => Sending
    /\ RecvInv => ~Sending
    /\ IInv' => Sending'
    /\ RecvInv' => ~Sending'
  BY DEF IInv, TypeOK, RecvInv, RecvTypeOK, Sending

\* What is left in the rings when upload_recv_api is first called.
LEMMA RingHandedOver ==
    ASSUME NEW T, NEW ring, NEW e \in T,
           Len(ring) \in Nat, DOMAIN ring = 1..Len(ring)
    PROVE  /\ RingOf(e, ring) \in Seq(T) /\ Len(RingOf(e, ring)) = Len(ring)
           /\ \A i \in DOMAIN RingOf(e, ring) : RingOf(e, ring)[i] = e
  <1>1. RingOf(e, ring) = [i \in 1..Len(ring) |-> e]
    BY DEF RingOf
  <1> QED  BY <1>1

\* The answer begins, or the socket is closed at once.
LEMMA HandOverKeeps ==
    ASSUME IInv, Untouched, PositionReset, BeginAnswer \/ CloseUnsent
    PROVE  RecvInv'
  <1> USE RecvAssumption, RingAssumption
  <1>1. UNCHANGED <<caller, tries, got, result, first, retry, ret>>
    BY DEF BeginAnswer, CloseUnsent, recvOnly
  <1>2. /\ toCC \in Seq(Packet) /\ Len(toCC) <= RingSize
        /\ fromCC \in Seq(Nat) /\ Len(fromCC) <= RingSize
        /\ caller \in Callers
    BY DEF IInv, TypeOK
  <1>3. Leftover \in Asked /\ Close \in Asked /\ Leftover.pos = 0 /\ Close.pos = 0
    BY DEF Leftover, Close, Asked
  <1>4. Other \in Packets /\ Other.kind = "other"
    BY DEF Other, Packets
  <1>5. /\ RingOf(Leftover, toCC) \in Seq(Asked) /\ Len(RingOf(Leftover, toCC)) <= RingSize
        /\ \A i \in DOMAIN RingOf(Leftover, toCC) : RingOf(Leftover, toCC)[i] = Leftover
    <2>1. /\ Leftover \in Asked
          /\ Len(toCC) \in Nat /\ DOMAIN toCC = 1..Len(toCC)
      BY <1>2, <1>3, LenProperties
    <2>2. /\ RingOf(Leftover, toCC) \in Seq(Asked) /\ Len(RingOf(Leftover, toCC)) = Len(toCC)
          /\ \A i \in DOMAIN RingOf(Leftover, toCC) : RingOf(Leftover, toCC)[i] = Leftover
      BY <2>1, RingHandedOver
    <2> QED  BY <1>2, <2>2
  <1>6. CASE BeginAnswer
    <2>1. /\ app' = "caller" /\ position' = 0
          /\ toCC' = RingOf(Leftover, toCC) /\ fromCC' = RingOf(Other, fromCC)
      BY <1>6 DEF BeginAnswer, PositionReset
    <2>2. /\ fromCC' \in Seq(Packets) /\ Len(fromCC') <= RingSize
          /\ \A i \in DOMAIN fromCC' : fromCC'[i] = Other
      <3>1. /\ RingOf(Other, fromCC) \in Seq(Packets) /\ Len(RingOf(Other, fromCC)) = Len(fromCC)
            /\ \A i \in DOMAIN RingOf(Other, fromCC) : RingOf(Other, fromCC)[i] = Other
        <4>1. Len(fromCC) \in Nat /\ DOMAIN fromCC = 1..Len(fromCC)
          BY <1>2, LenProperties
        <4> QED  BY <1>4, <4>1, RingHandedOver
      <3> QED  BY <1>2, <2>1, <3>1
    <2>3. Reached' = 0
      BY <1>1, <2>1 DEF Reached, Untouched
    <2>4. RecvTypeOK'
      BY <1>1, <1>2, <1>5, <2>1, <2>2 DEF RecvTypeOK, Untouched
    <2>5. PlaceInv'
      BY <1>1, <2>1, <2>3 DEF PlaceInv, Untouched
    <2>6. AskedUpTo(toCC', Reached')
      BY <1>3, <1>5, <2>1, <2>3 DEF AskedUpTo
    <2>7. AllTrue(fromCC', Reached')
      BY <1>4, <2>2 DEF AllTrue, TrueOf
    <2> QED  BY <2>4, <2>5, <2>6, <2>7 DEF RecvInv
  <1>7. CASE CloseUnsent
    <2>1. /\ app' = "closed" /\ position' = 0 /\ fromCC' = <<>>
          /\ toCC' = Put(RingOf(Leftover, toCC), Close)
      BY <1>7 DEF CloseUnsent
    <2>2. Reached' = AnswerLen
      BY <2>1 DEF Reached
    <2>3. /\ toCC' \in Seq(Asked) /\ Len(toCC') <= RingSize
          /\ \A i \in DOMAIN toCC' : toCC'[i].pos = 0
      <3>1. /\ toCC' \in Seq(Asked) /\ Len(toCC') <= RingSize
            /\ \A i \in DOMAIN toCC' :
                  \/ toCC'[i] = Close
                  \/ /\ i \in DOMAIN RingOf(Leftover, toCC)
                     /\ toCC'[i] = RingOf(Leftover, toCC)[i]
        BY <1>3, <1>5, <2>1, PutAdds
      <3> QED  BY <1>3, <1>5, <3>1
    <2>4. RecvTypeOK'
      BY <1>1, <1>2, <2>1, <2>3, EmptySeq DEF RecvTypeOK, Untouched
    <2>5. PlaceInv'
      BY <2>1, <2>2 DEF PlaceInv
    <2>6. AskedUpTo(toCC', Reached')
      BY <2>2, <2>3 DEF AskedUpTo
    <2>7. AllTrue(fromCC', Reached')
      BY <2>1, EmptySeq DEF AllTrue
    <2> QED  BY <2>4, <2>5, <2>6, <2>7 DEF RecvInv
  <1> QED  BY <1>6, <1>7

\* Only upload_send_api with length 0 ends a request, and with all of it counted; after
\* that nothing of it moves.
LEMMA EndedStays ==
    ASSUME RecvInv, RecvNext \/ UNCHANGED answerVars
    PROVE  Ended' = Ended
  <1>1. CASE app = "closed"
    <2>1. UNCHANGED <<app, result>>
      BY <1>1 DEF RecvNext, Take, RecvCall, TakeData, PassOver, SeeEnd, WaitOn, TimesOut, Wait,
         RecvReturn, Receiving, CCAnswer, CCSilent, answerVars, recvVars, fetchVars
    <2> QED  BY <2>1 DEF Ended
  <1>2. CASE app # "closed"
    <2>1. app \in {"caller", "recv", "recv_return"}
      BY <1>2 DEF RecvInv, RecvTypeOK
    <2>2. CASE RecvReturn
      <3>1. \/ app' = "caller"
            \/ app' = "closed" /\ result' \in {"answer", "failed"}
        BY <2>2 DEF RecvReturn, UseFirstPacket, AppendPacket, CloseSocket, TryAgain
      <3> QED  BY <2>1, <3>1 DEF Ended
    <2>3. CASE ~RecvReturn
      <3>1. app' \in {"caller", "recv", "recv_return"}
        BY <2>1, <2>3 DEF RecvNext, Take, RecvCall, TakeData, PassOver, SeeEnd, WaitOn,
           TimesOut, Wait, Receiving, CCAnswer, CCSilent, answerVars, recvVars, fetchVars
      <3> QED  BY <2>1, <3>1 DEF Ended
    <2> QED  BY <2>2, <2>3
  <1> QED  BY <1>1, <1>2

LEMMA SessionInitInv == OldBeyond /\ SessionInit => SessionInv
  <1> SUFFICES ASSUME OldBeyond, SessionInit PROVE SessionInv
    OBVIOUS
  <1>1. IInv
    BY InitIInv DEF SessionInit
  <1>2. app = "idle"
    BY DEF SessionInit, Init
  <1> QED
    BY <1>1, <1>2 DEF SessionInit, SessionInv, Untouched, PositionReset, IInv, AcksInv, Sending, Ended

LEMMA SessionNextInv == SessionInv /\ [SessionNext]_sessionVars => SessionInv'
  <1> SUFFICES ASSUME SessionInv, [SessionNext]_sessionVars PROVE SessionInv'
    OBVIOUS
  <1>1. CASE SendStep(Next)
    <2>1. IInv /\ Untouched /\ IInv'
      BY <1>1, NextIInv DEF SendStep, SessionInv
    <2>2. Untouched' /\ PositionReset'
      <3>1. Untouched'
        BY <1>1, <2>1 DEF SendStep, recvOnly, Untouched
      <3>2. PositionReset'
        BY <1>1, SendResets DEF SendStep, SessionInv
      <3> QED  BY <3>1, <3>2
    <2>3. Ended' => app' = "finished"
      BY <2>1 DEF Ended, IInv, TypeOK
    <2> QED
      BY <2>1, <2>2, <2>3, HalvesApart DEF SessionInv, IInv, AcksInv, EndedIsWhole
  <1>2. CASE BeginAnswer \/ CloseUnsent
    <2>1. IInv /\ Untouched /\ PositionReset
      BY <1>2 DEF BeginAnswer, CloseUnsent, Sending, SessionInv
    <2>2. RecvInv'
      BY <1>2, <2>1, HandOverKeeps
    <2>3. UNCHANGED <<wanted, acked, result>>
      BY <1>2 DEF BeginAnswer, CloseUnsent, sendOnly, recvOnly
    <2>4. Ended' => app = "finished"
      BY <1>2, <2>1, <2>3 DEF BeginAnswer, CloseUnsent, Ended, Untouched
    <2>5. AckedHasArrived /\ (app = "finished" => wanted = Total)
      BY <2>1 DEF IInv, AcksInv, EndedIsWhole
    <2> QED
      BY <2>2, <2>3, <2>4, <2>5, HalvesApart DEF SessionInv, AckedHasArrived
  <1>3. CASE RecvStep(RecvNext) \/ (UNCHANGED sessionVars /\ ~Sending)
    <2>1. RecvInv /\ UNCHANGED <<wanted, acked>> /\ (RecvNext \/ UNCHANGED answerVars)
      BY <1>3 DEF RecvStep, SessionInv, sendOnly, sessionVars, recvOnly, answerVars, recvVars,
         fetchVars
    <2>2. RecvInv'
      BY <2>1, RecvNextInv
    <2>3. Ended' = Ended
      BY <2>1, EndedStays
    <2> QED
      BY <2>1, <2>2, <2>3, HalvesApart DEF SessionInv, AckedHasArrived
  <1>4. CASE UNCHANGED sessionVars /\ Sending
    <2>1. IInv /\ Untouched /\ UNCHANGED vars /\ UNCHANGED <<app, result, wanted>>
      BY <1>4 DEF SessionInv, sessionVars, sendOnly, recvOnly, vars, callerVars, apiVars
    <2>2. IInv'
      BY <2>1, NextIInv
    <2>3. Untouched' /\ PositionReset'
      BY <1>4, <2>1 DEF sessionVars, recvOnly, Untouched, SessionInv, PositionReset
    <2>4. Ended' => app' = "finished"
      BY <2>2 DEF Ended, IInv, TypeOK
    <2> QED
      BY <2>2, <2>3, <2>4, HalvesApart DEF SessionInv, IInv, AcksInv, EndedIsWhole
  <1> QED  BY <1>1, <1>2, <1>3, <1>4 DEF SessionNext

LEMMA SessionInvariant == ASSUME OldBeyond PROVE SessionSpec => []SessionInv
  <1>1. SessionInit => SessionInv
    BY SessionInitInv
  <1> QED  BY <1>1, SessionNextInv, PTL DEF SessionSpec

-----------------------------------------------------------------------------
(* What the invariant gives                                                *)

\* Positions, packets, counts and tasks stay in range, of the request and of the answer,
\* and the rings never hold more than they can.
THEOREM TypeCorrect == ASSUME OldBeyond PROVE SessionSpec => []SessionTypeOK
  <1>1. SessionInv => SessionTypeOK
    BY DEF SessionInv, SessionTypeOK, IInv, RecvInv
  <1> QED  BY <1>1, SessionInvariant, PTL

\* What upload_send_api counts as sent has arrived, however many packets and answers the
\* bus loses, the rings refuse and the windows repeat.
THEOREM CountedIsDelivered == ASSUME OldBeyond PROVE SessionSpec => []AckedHasArrived
  <1>1. SessionInv => AckedHasArrived
    BY DEF SessionInv
  <1> QED  BY <1>1, SessionInvariant, PTL

\* Every packet carries the bytes of its position, whichever calls come back short.
THEOREM PositionsFit == ASSUME OldBeyond PROVE SessionSpec => []BytesInPlace
  <1>1. SessionInv => BytesInPlace
    BY DEF SessionInv, IInv, PacketsInv, PacketsFit, BytesInPlace
  <1> QED  BY <1>1, SessionInvariant, PTL

\* A request is ended, and its answer asked for, only when all of it has arrived.
THEOREM NothingEndedEarly == ASSUME OldBeyond PROVE SessionSpec => [](Ended => wanted = Total)
  <1>1. SessionInv => (Ended => wanted = Total)
    BY DEF SessionInv
  <1> QED  BY <1>1, SessionInvariant, PTL

\* upload_send_api, its callers, the bus and the CC3200 implement Delivery: no byte is
\* counted before it has arrived nor counted back, and the request ends whole.
THEOREM SendingDelivers == ASSUME OldBeyond PROVE SessionSpec => ImplementsDelivery
  <1>1. SessionInit => Request!Init
    <2> SUFFICES ASSUME SessionInit PROVE Request!Init
      OBVIOUS
    <2>1. wanted = 0 /\ acked = 0 /\ Total \in Nat /\ app = "idle"
      BY SizeAssumption DEF SessionInit, Init
    <2>2. Ended = FALSE
      BY <2>1 DEF Ended
    <2>3. \A b \in 0 .. Total - 1 : b \in Nat
      BY <2>1
    <2> QED  BY <2>1, <2>2, <2>3 DEF Request!Init
  <1>2. SessionInv /\ SessionInv' /\ [SessionNext]_sessionVars
          => [Request!Next]_RequestView
    <2> SUFFICES ASSUME SessionInv, SessionInv', [SessionNext]_sessionVars
                 PROVE  [Request!Next]_RequestView
      OBVIOUS
    <2>1. CASE SendStep(Next)
      <3>1. IInv /\ IInv' /\ Next
        BY <2>1, NextIInv DEF SendStep, SessionInv
      <3>2. CASE App \/ GiveUp
        BY <3>1, <3>2, CallerDelivers, WindowDelivers DEF App
      <3>3. CASE CCReceive \/ LosePacket
        BY <3>1, <3>3, BusDelivers
      <3> QED  BY <3>1, <3>2, <3>3 DEF Next
    <2>2. CASE BeginAnswer \/ CloseUnsent
      <3>1. UNCHANGED <<wanted, acked, result>> /\ result = "none"
        BY <2>2 DEF BeginAnswer, CloseUnsent, sendOnly, recvOnly, Sending, SessionInv, Untouched
      <3>2. Ended' = Ended
        BY <2>2, <3>1 DEF BeginAnswer, CloseUnsent, Ended
      <3> QED  BY <3>1, <3>2 DEF RequestView, Bytes, ArrivedBytes, CountedBytes
    <2>3. CASE RecvStep(RecvNext)
      <3>1. UNCHANGED <<wanted, acked>> /\ RecvInv /\ RecvNext
        BY <2>3 DEF RecvStep, sendOnly, SessionInv
      <3>2. Ended' = Ended
        BY <3>1, EndedStays
      <3> QED  BY <3>1, <3>2 DEF RequestView, Bytes, ArrivedBytes, CountedBytes
    <2>4. CASE UNCHANGED sessionVars
      <3>1. Ended' = Ended /\ UNCHANGED <<wanted, acked>>
        BY <2>4 DEF sessionVars, sendOnly, recvOnly, Ended
      <3> QED  BY <3>1 DEF RequestView, Bytes, ArrivedBytes, CountedBytes
    <2> QED  BY <2>1, <2>2, <2>3, <2>4 DEF SessionNext
  <1>3. SessionSpec => []SessionInv
    BY SessionInvariant
  <1>4. [Request!Next]_RequestView <=> [Request!Next]_(Request!vars)
    BY DEF Request!vars, RequestView, Bytes, ArrivedBytes, CountedBytes
  <1> QED
    BY <1>1, <1>2, <1>3, <1>4, PTL DEF SessionSpec, ImplementsDelivery, Request!Spec

\* A step that takes a packet or the end of the answer is one of its half.
LEMMA TakenWhileReceiving ==
    ASSUME SessionInv, TakeData \/ SeeEnd
    PROVE  RecvInv
  BY DEF SessionInv, Sending, TakeData, SeeEnd, Receiving

\* A packet of the answer goes behind what the caller has of it, whatever was lost,
\* repeated or timed out before, and whatever was left of the request.
THEOREM PacketsContinueAnswer == ASSUME OldBeyond PROVE SessionSpec => AnswerInPlace
  <1>1. SessionInv /\ [SessionNext]_sessionVars
            => [TakeData => Head(fromCC).pos = got]_answerVars
    BY TakeDataKeeps, TakenWhileReceiving
  <1> QED  BY <1>1, SessionInvariant, PTL DEF SessionSpec, AnswerInPlace

\* When the end of the answer is seen, the caller has all of it.
THEOREM EndSeenWithAll == ASSUME OldBeyond PROVE SessionSpec => AnswerIsWhole
  <1>1. SessionInv /\ [SessionNext]_sessionVars => [SeeEnd => got = AnswerLen]_answerVars
    BY SeeEndKeeps, TakenWhileReceiving
  <1> QED  BY <1>1, SessionInvariant, PTL DEF SessionSpec, AnswerIsWhole

=============================================================================
