-------------------------- MODULE FlvPPBuffProofs ---------------------------
(***************************************************************************)
(* What FlvPPBuff promises for all producers, buffer sizes and files:      *)
(* no half is overrun, a clip opens with a key frame, holds its packets in *)
(* order and misses none without a reason; and what the muxer promises for *)
(* all frames of the encoder.                                              *)
(***************************************************************************)
EXTENDS FlvPPBuff, SequenceTheorems, WellFoundedInduction, TLAPS

-----------------------------------------------------------------------------
(* No half is overrun                                                      *)

\* The producer between lock and unlock is the holder of the lock, and it has a packet.
HolderPushes ==
    \A p \in Producers : at[p] # "idle" => engine = p /\ packet[p] \in Packet

\* PrepareSize has made room, and nobody else takes it.
RoomMade ==
    \A p \in Producers :
        at[p] = "append" => half[wPos].curSize + Size(packet[p]) <= HalfRoom

\* What the search has found is not empty.
KeyFound == rec = "size" /\ seekKey => out # <<>>

BufferInv == TypeOK /\ HolderPushes /\ RoomMade /\ NothingOverrun /\ KeyFound

LEMMA SizeType ==
    ASSUME NEW p \in Packet
    PROVE  /\ Size(p) \in Nat
           /\ Size(p) <= HalfRoom \/ HalfRoom < 1
           /\ HalfRoom \in Nat /\ HalfRoom >= 1
  BY SizeAssumption DEF Size, Packet

LEMMA SuffixType ==
    ASSUME NEW S, NEW s \in Seq(S), NEW i \in DOMAIN s
    PROVE  SubSeq(s, i, Len(s)) \in Seq(S) /\ SubSeq(s, i, Len(s)) # <<>>
  <1>1. Len(s) \in Nat /\ DOMAIN s = 1..Len(s)
    BY LenProperties
  <1>2. i \in 1..(Len(s) + 1) /\ Len(s) \in (i - 1)..Len(s)
    BY <1>1
  <1>3. /\ SubSeq(s, i, Len(s)) \in Seq(S)
        /\ Len(SubSeq(s, i, Len(s))) = Len(s) - i + 1
    BY <1>1, <1>2, SubSeqProperties
  <1>4. Len(SubSeq(s, i, Len(s))) # 0
    BY <1>1, <1>3
  <1> QED  BY <1>3, <1>4, EmptySeq

LEMMA NumbersType ==
    ASSUME NEW s \in Seq(Packet)
    PROVE  Numbers(s) \subseteq Nat
  <1>1. DOMAIN s = 1..Len(s)
    BY LenProperties
  <1> SUFFICES ASSUME NEW i \in 1..Len(s) PROVE s[i].no \in Nat
    BY <1>1 DEF Numbers
  <1>2. s[i] \in Packet
    BY ElementOfSeq
  <1> QED  BY <1>2 DEF Packet

LEMMA BufferInit == Init => BufferInv
  <1> SUFFICES ASSUME Init PROVE BufferInv
    OBVIOUS
  <1>1. EmptyHalf \in [tags : Seq(Packet), curSize : Nat]
    BY DEF EmptyHalf
  <1>2. TypeOK
    <2>1. <<>> \in Seq(Packet) /\ <<>> \in Seq(Packet \cup {AvcHeader})
      BY EmptySeq
    <2> QED  BY <1>1, <2>1 DEF Init, TypeOK, Halves
  <1>3. HolderPushes /\ RoomMade
    BY DEF Init, HolderPushes, RoomMade
  <1>4. NothingOverrun
    BY SizeAssumption DEF Init, NothingOverrun, Halves, EmptyHalf
  <1>5. KeyFound
    BY DEF Init, KeyFound
  <1> QED  BY <1>2, <1>3, <1>4, <1>5 DEF BufferInv

LEMMA MuxKeeps ==
    ASSUME BufferInv, NEW p \in Producers, NEW key \in BOOLEAN, NEW tsReset \in BOOLEAN,
           Mux(p, key, tsReset)
    PROVE  BufferInv'
  <1> USE DEF BufferInv, Mux, recorderVars
  <1>1. [no |-> pushed + 1, key |-> key] \in Packet
    BY DEF TypeOK, Packet
  <1>2. TypeOK'
    BY <1>1 DEF TypeOK
  <1>3. \A q \in Producers : at[q] = "idle"
    BY ProducersAssumption DEF HolderPushes
  <1>4. HolderPushes'
    BY <1>1, <1>3 DEF HolderPushes, TypeOK
  <1>5. RoomMade'
    BY <1>3 DEF RoomMade, TypeOK
  <1>6. NothingOverrun' /\ KeyFound'
    BY DEF NothingOverrun, KeyFound
  <1> QED  BY <1>2, <1>4, <1>5, <1>6

LEMMA ResetAllKeeps ==
    ASSUME BufferInv, NEW p \in Producers, ResetAll(p)
    PROVE  BufferInv'
  <1> USE DEF BufferInv, ResetAll, recorderVars
  <1>1. EmptyHalf \in [tags : Seq(Packet), curSize : Nat]
    BY DEF EmptyHalf
  <1>2. /\ \A h \in Halves : Numbers(half[h].tags) \subseteq Nat
        /\ Numbers(temp) \subseteq Nat
    BY NumbersType DEF TypeOK
  <1>3. dropped' \subseteq Nat
    <2>1. dropped \subseteq Nat
      BY DEF TypeOK
    <2>2. UNION {Numbers(half[h].tags) : h \in Halves} \subseteq Nat
      <3> SUFFICES ASSUME NEW S \in {Numbers(half[h].tags) : h \in Halves}
                   PROVE  S \subseteq Nat
        OBVIOUS
      <3> QED  BY <1>2
    <2> QED  BY <1>2, <2>1, <2>2
  <1>4. TypeOK'
    BY <1>1, <1>3 DEF TypeOK
  <1>5. HolderPushes'
    BY DEF HolderPushes, TypeOK
  <1>6. RoomMade'
    BY ProducersAssumption DEF RoomMade, HolderPushes, TypeOK
  <1>7. NothingOverrun'
    BY SizeAssumption DEF NothingOverrun, EmptyHalf
  <1>8. KeyFound'
    BY DEF KeyFound
  <1> QED  BY <1>4, <1>5, <1>6, <1>7, <1>8

LEMMA PrepareKeeps ==
    ASSUME BufferInv, NEW p \in Producers, NEW longEnough \in BOOLEAN,
           PrepareSize(p, longEnough)
    PROVE  BufferInv'
  <1> USE DEF BufferInv, PrepareSize, recorderVars
  <1>1. EmptyHalf \in [tags : Seq(Packet), curSize : Nat] /\ EmptyHalf.curSize = 0
    BY DEF EmptyHalf
  <1>3. Other(wPos) \in Halves
    BY DEF Other, Halves, TypeOK
  <1>2. Numbers(half[Other(wPos)].tags) \subseteq Nat
    BY <1>3, NumbersType DEF TypeOK
  <1>4. dropped' \subseteq Nat
    <2>1. dropped \subseteq Nat
      BY DEF TypeOK
    <2> QED  BY <1>2, <2>1
  <1>5. TypeOK'
    BY <1>1, <1>3, <1>4 DEF TypeOK
  <1>6. HolderPushes'
    BY DEF HolderPushes, TypeOK
  <1>7. packet[p] \in Packet /\ engine = p
    BY DEF HolderPushes
  <1>8. RoomMade'
    <2> SUFFICES half'[wPos'].curSize + Size(packet[p]) <= HalfRoom
      BY <1>7 DEF RoomMade, HolderPushes, TypeOK
    <2> USE SizeType, <1>7
    <2>1. CASE NoRoomFor(packet[p]) \/ longEnough
      BY <2>1, <1>1, <1>3, SizeAssumption, SMTT(30) DEF TypeOK, Size
    <2>2. CASE ~(NoRoomFor(packet[p]) \/ longEnough)
      BY <2>2 DEF TypeOK, NoRoomFor
    <2> QED  BY <2>1, <2>2
  <1>9. NothingOverrun'
    <2>1. HalfRoom \in Nat
      BY SizeAssumption
    <2>2. \A h \in Halves : half'[h] = half[h] \/ half'[h] = EmptyHalf
      BY <1>3 DEF TypeOK
    <2> QED  BY <1>1, <2>1, <2>2 DEF NothingOverrun
  <1>10. KeyFound'
    BY DEF KeyFound
  <1> QED  BY <1>5, <1>6, <1>8, <1>9, <1>10

LEMMA PushDataKeeps ==
    ASSUME BufferInv, NEW p \in Producers, PushData(p)
    PROVE  BufferInv'
  <1> USE DEF BufferInv, PushData, recorderVars
  <1>1. packet[p] \in Packet /\ engine = p
    BY DEF HolderPushes
  <1>2. half[wPos].tags \in Seq(Packet) /\ half[wPos].curSize \in Nat
    BY DEF TypeOK
  <1>3. Append(half[wPos].tags, packet[p]) \in Seq(Packet)
    BY <1>1, <1>2, AppendProperties
  <1>4. half[wPos].curSize + Size(packet[p]) \in Nat
    BY <1>1, <1>2, SizeType
  <1>5. TypeOK'
    BY <1>3, <1>4 DEF TypeOK
  <1>6. HolderPushes'
    BY <1>1 DEF HolderPushes, TypeOK
  <1>7. RoomMade'
    BY <1>1 DEF RoomMade, HolderPushes, TypeOK
  <1>8. NothingOverrun'
    BY DEF NothingOverrun, RoomMade, TypeOK
  <1>9. KeyFound'
    BY DEF KeyFound
  <1> QED  BY <1>5, <1>6, <1>7, <1>8, <1>9

\* The recorder writes neither the halves nor the producers' variables.
LEMMA RecorderKeepsRoom ==
    ASSUME BufferInv, UNCHANGED <<producerVars, half, wPos>>
    PROVE  (HolderPushes /\ RoomMade /\ NothingOverrun)'
  BY DEF BufferInv, HolderPushes, RoomMade, NothingOverrun, producerVars

LEMMA StartRecordingKeeps ==
    ASSUME BufferInv, StartRecording
    PROVE  BufferInv'
  <1> USE DEF BufferInv, StartRecording, producerVars
  <1> <<>> \in Seq(Packet \cup {AvcHeader})
    BY EmptySeq
  <1>1. TypeOK'
    BY DEF TypeOK
  <1>2. KeyFound'
    BY DEF KeyFound
  <1> QED  BY <1>1, <1>2, RecorderKeepsRoom

LEMMA WriteHeaderKeeps ==
    ASSUME BufferInv, WriteHeader
    PROVE  BufferInv'
  <1> USE DEF BufferInv, WriteHeader, producerVars
  <1>1. header + 1 \in Nat
    BY DEF TypeOK
  <1>2. clip' \in Seq(Packet \cup {AvcHeader})
    <2>1. clip' \in [1..(header + 1) -> Packet \cup {AvcHeader}]
      OBVIOUS
    <2> QED  BY <1>1, <2>1, SeqDef
  <1>3. TypeOK'
    BY <1>1, <1>2 DEF TypeOK
  <1>4. KeyFound'
    BY DEF KeyFound
  <1> QED  BY <1>3, <1>4, RecorderKeepsRoom

LEMMA SearchKeeps ==
    ASSUME BufferInv, SearchIFrame
    PROVE  BufferInv'
  <1> USE DEF BufferInv, SearchIFrame, producerVars
  <1>1. temp \in Seq(Packet) /\ dropped \subseteq Nat
    BY DEF TypeOK
  <1>2. CASE \A i \in DOMAIN temp : ~temp[i].key
    <2>1. UNCHANGED out /\ rec' = "check" /\ dropped' \subseteq Nat
      BY <1>1, <1>2, NumbersType
    <2>2. TypeOK'
      BY <2>1 DEF TypeOK
    <2>3. KeyFound'
      BY <2>1 DEF KeyFound
    <2> QED  BY <2>2, <2>3, RecorderKeepsRoom
  <1>3. ASSUME NEW i \in DOMAIN temp,
               rec' = "size",
               out' = SubSeq(temp, i, Len(temp)),
               dropped' = dropped \cup Numbers(SubSeq(temp, 1, i - 1))
        PROVE  BufferInv'
    <2>1. out' \in Seq(Packet)
      BY <1>1, <1>3, SuffixType
    <2>2. SubSeq(temp, 1, i - 1) \in Seq(Packet)
      BY <1>1, LenProperties, SubSeqProperties
    <2>3. dropped' \subseteq Nat
      BY <1>1, <1>3, <2>2, NumbersType
    <2>4. TypeOK'
      BY <1>3, <2>1, <2>3 DEF TypeOK
    <2>5. KeyFound'
      BY <1>1, <1>3, SuffixType DEF KeyFound
    <2> QED  BY <2>4, <2>5, RecorderKeepsRoom
  <1> QED  BY <1>2, <1>3

LEMMA WriteClipKeeps ==
    ASSUME BufferInv, NEW someDuration \in BOOLEAN, WriteClip(someDuration)
    PROVE  BufferInv'
  <1> USE DEF BufferInv, WriteClip, producerVars
  <1>1. clip \o out \in Seq(Packet \cup {AvcHeader})
    <2>1. out \in Seq(Packet \cup {AvcHeader})
      BY SeqMonotonic DEF TypeOK
    <2> QED  BY <2>1, ConcatProperties DEF TypeOK
  <1>2. (seekKey /\ ~someDuration) \in BOOLEAN
    OBVIOUS
  <1>3. <<>> \in Seq(Packet)
    BY EmptySeq
  <1>4. TypeOK'
    BY <1>1, <1>2, <1>3 DEF TypeOK
  <1>5. KeyFound'
    BY DEF KeyFound
  <1> QED  BY <1>4, <1>5, RecorderKeepsRoom

LEMMA OthersKeep ==
    ASSUME BufferInv,
           CopyHalf \/ TakeSize \/ NextRound \/ EnoughRecorded \/ CloseClip \/ TimeRunsOver
    PROVE  BufferInv'
  <1>1. UNCHANGED <<producerVars, half, wPos>>
    BY DEF CopyHalf, TakeSize, NextRound, EnoughRecorded, CloseClip, TimeRunsOver
  <1>2. <<>> \in Seq(Packet)
    BY EmptySeq
  <1>3. TypeOK'
    <2> USE <1>2 DEF BufferInv, TypeOK, KeyFound, producerVars
    <2>1. CASE CopyHalf
      <3>1. half[rPos].tags \in Seq(Packet)
        OBVIOUS
      <3>2. temp' \in Seq(Packet) /\ rFlag' \in BOOLEAN
        BY <2>1, <3>1 DEF CopyHalf
      <3>3. rec' \in {"search", "size"}
        BY <2>1 DEF CopyHalf
      <3> QED  BY <2>1, <3>2, <3>3 DEF CopyHalf
    <2>2. CASE TakeSize
      BY <2>2 DEF TakeSize
    <2>3. CASE NextRound \/ EnoughRecorded \/ CloseClip
      BY <2>3 DEF NextRound, EnoughRecorded, CloseClip
    <2>4. CASE TimeRunsOver
      BY <2>4 DEF TimeRunsOver
    <2> QED  BY <2>1, <2>2, <2>3, <2>4
  <1>4. KeyFound'
    BY DEF BufferInv, KeyFound, TypeOK, CopyHalf, TakeSize, NextRound, EnoughRecorded,
           CloseClip, TimeRunsOver
  <1> QED  BY <1>1, <1>3, <1>4, RecorderKeepsRoom DEF BufferInv

LEMMA BufferNext == BufferInv /\ [Next]_vars => BufferInv'
  <1> SUFFICES ASSUME BufferInv, [Next]_vars PROVE BufferInv'
    OBVIOUS
  <1>1. ASSUME NEW p \in Producers, Produce(p) PROVE BufferInv'
    BY <1>1, MuxKeeps, ResetAllKeeps, PrepareKeeps, PushDataKeeps DEF Produce
  <1>2. CASE StartRecording
    BY <1>2, StartRecordingKeeps
  <1>3. CASE Record
    BY <1>3, WriteHeaderKeeps, SearchKeeps, WriteClipKeeps, OthersKeep DEF Record, Flush
  <1>4. CASE TimeRunsOver
    BY <1>4, OthersKeep
  <1>5. CASE UNCHANGED vars
    BY <1>5 DEF BufferInv, TypeOK, HolderPushes, RoomMade, NothingOverrun, KeyFound,
                vars, producerVars, recorderVars
  <1> QED  BY <1>1, <1>2, <1>3, <1>4, <1>5 DEF Next

\* At every moment each variable is in its range, the lock has the holder that pushes,
\* and a push that has made room still has it.
THEOREM Invariant == Spec => []BufferInv
  BY BufferInit, BufferNext, PTL DEF Spec

\* Type correctness, for all producers and sizes.
THEOREM TypeCorrect == Spec => []TypeOK
  <1>1. BufferInv => TypeOK
    BY DEF BufferInv
  <1> QED  BY <1>1, Invariant, PTL

\* No half of the ping-pong buffer is ever filled beyond its size, whatever the tasks
\* that push frames and the order in which they come.
THEOREM RoomSuffices == Spec => []NothingOverrun
  <1>1. BufferInv => NothingOverrun
    BY DEF BufferInv
  <1> QED  BY <1>1, Invariant, PTL

-----------------------------------------------------------------------------
(* A clip holds its packets in order                                       *)

Before(A, B) == \A x \in A, y \in B : x < y

Sorted(s) == \A i, j \in DOMAIN s : i < j => s[i].no < s[j].no

InFlight == {packet[p].no : p \in {q \in Producers : at[q] # "idle"}}

Future == {n \in Nat : n > pushed}

\* The numbers the recorder may still get to see, in the order they will come in.
Filled  == IF rFlag THEN Numbers(half[rPos].tags) ELSE {}
Filling == Numbers(half[wPos].tags)
Pending == Filled \cup Filling \cup InFlight \cup Future

QueueInv ==
    /\ rPos # wPos
    /\ \A h \in Halves : Sorted(half[h].tags)
    /\ Before(Filled, Filling \cup InFlight \cup Future)
    /\ Before(Filling, InFlight \cup Future)
    /\ Before(InFlight, Future)

\* What is between the halves and the file: the third buffer, and what pWritePtr and
\* writeSize denote while they are in use.
OutInUse == rec = "write" \/ (rec = "size" /\ seekKey)

ClipInv ==
    /\ Sorted(temp) /\ Before(Numbers(temp), Pending)
    /\ ClipInOrder
    /\ Before(Numbers(clip), Numbers(temp)) /\ Before(Numbers(clip), Pending)
    /\ OutInUse => /\ Sorted(out)
                   /\ Before(Numbers(clip), Numbers(out))
                   /\ Before(Numbers(out), Pending)

LEMMA NumbersEmpty == Numbers(<<>>) = {} /\ Sorted(<<>>)
  BY DEF Numbers, Sorted

LEMMA NumbersAppend ==
    ASSUME NEW s \in Seq(Packet), NEW pkt \in Packet
    PROVE  /\ Numbers(Append(s, pkt)) \subseteq Numbers(s) \cup {pkt.no}
           /\ Sorted(s) /\ Before(Numbers(s), {pkt.no}) => Sorted(Append(s, pkt))
  <1>1. /\ Len(s) \in Nat /\ DOMAIN s = 1..Len(s)
        /\ DOMAIN Append(s, pkt) = 1..(Len(s) + 1)
        /\ \A i \in 1..Len(s) : Append(s, pkt)[i] = s[i]
        /\ Append(s, pkt)[Len(s) + 1] = pkt
    BY LenProperties, AppendProperties
  <1>2. Numbers(Append(s, pkt)) \subseteq Numbers(s) \cup {pkt.no}
    BY <1>1 DEF Numbers
  <1>3. ASSUME Sorted(s), Before(Numbers(s), {pkt.no}),
               NEW i \in 1..(Len(s) + 1), NEW j \in 1..(Len(s) + 1), i < j
        PROVE  Append(s, pkt)[i].no < Append(s, pkt)[j].no
    <2>1. i \in 1..Len(s) /\ Append(s, pkt)[i] = s[i]
      BY <1>1, <1>3
    <2>2. CASE j = Len(s) + 1
      BY <1>1, <1>3, <2>1, <2>2 DEF Before, Numbers
    <2>3. CASE j # Len(s) + 1
      BY <1>1, <1>3, <2>1, <2>3 DEF Sorted
    <2> QED  BY <2>2, <2>3
  <1> QED  BY <1>1, <1>2, <1>3 DEF Sorted

LEMMA NumbersSuffix ==
    ASSUME NEW s \in Seq(Packet), NEW k \in DOMAIN s
    PROVE  /\ Numbers(SubSeq(s, k, Len(s))) \subseteq Numbers(s)
           /\ Sorted(s) => Sorted(SubSeq(s, k, Len(s)))
  <1> DEFINE t == SubSeq(s, k, Len(s))
  <1>1. Len(s) \in Nat /\ DOMAIN s = 1..Len(s)
    BY LenProperties
  <1>2. \A i \in k..Len(s) : s[i] \in Packet
    BY <1>1, ElementOfSeq
  <1>3. /\ t \in Seq(Packet) /\ Len(t) = Len(s) - k + 1
        /\ \A i \in 1..(Len(s) - k + 1) : t[i] = s[k + i - 1]
    BY <1>1, <1>2, SubSeqProperties
  <1>4. DOMAIN t = 1..(Len(s) - k + 1)
    BY <1>3, LenProperties
  <1>5. \A i \in DOMAIN t : k + i - 1 \in DOMAIN s /\ t[i] = s[k + i - 1]
    BY <1>1, <1>3, <1>4
  <1> HIDE DEF t
  <1>6. Numbers(t) \subseteq Numbers(s)
    BY <1>5 DEF Numbers
  <1>7. ASSUME Sorted(s), NEW i \in DOMAIN t, NEW j \in DOMAIN t, i < j
        PROVE  t[i].no < t[j].no
    <2>1. k + i - 1 < k + j - 1
      BY <1>1, <1>4, <1>7
    <2> QED  BY <1>5, <1>7, <2>1 DEF Sorted
  <1>8. Sorted(s) => Sorted(t)
    BY <1>7 DEF Sorted
  <1> QED  BY <1>6, <1>8 DEF t

LEMMA NumbersConcat ==
    ASSUME NEW S, NEW s \in Seq(S), NEW t \in Seq(S)
    PROVE  /\ \A i \in DOMAIN (s \o t) :
                  \/ i \in DOMAIN s /\ (s \o t)[i] = s[i]
                  \/ i - Len(s) \in DOMAIN t /\ (s \o t)[i] = t[i - Len(s)]
           /\ Numbers(s \o t) \subseteq Numbers(s) \cup Numbers(t)
  <1>1. /\ Len(s) \in Nat /\ DOMAIN s = 1..Len(s)
        /\ Len(t) \in Nat /\ DOMAIN t = 1..Len(t)
    BY LenProperties
  <1>2. DOMAIN (s \o t) = 1..(Len(s) + Len(t))
    BY ConcatProperties, LenProperties
  <1>3. \A i \in DOMAIN (s \o t) :
            \/ i \in DOMAIN s /\ (s \o t)[i] = s[i]
            \/ i - Len(s) \in DOMAIN t /\ (s \o t)[i] = t[i - Len(s)]
    <2>1. \A i \in 1..(Len(s) + Len(t)) :
              (s \o t)[i] = IF i <= Len(s) THEN s[i] ELSE t[i - Len(s)]
      BY ConcatProperties
    <2> SUFFICES ASSUME NEW i \in 1..(Len(s) + Len(t))
                 PROVE  \/ i \in 1..Len(s) /\ (s \o t)[i] = s[i]
                        \/ i - Len(s) \in 1..Len(t) /\ (s \o t)[i] = t[i - Len(s)]
      BY <1>1, <1>2
    <2> QED  BY <1>1, <2>1
  <1>4. Numbers(s \o t) \subseteq Numbers(s) \cup Numbers(t)
    BY <1>3 DEF Numbers
  <1> QED  BY <1>3, <1>4

\* What is appended, joined or cut is all still there.
LEMMA NumbersAppended ==
    ASSUME NEW s \in Seq(Packet), NEW pkt \in Packet
    PROVE  Numbers(Append(s, pkt)) = Numbers(s) \cup {pkt.no}
  <1>1. /\ Len(s) \in Nat /\ DOMAIN s = 1..Len(s)
        /\ DOMAIN Append(s, pkt) = 1..(Len(s) + 1)
        /\ \A i \in 1..Len(s) : Append(s, pkt)[i] = s[i]
        /\ Append(s, pkt)[Len(s) + 1] = pkt
    BY LenProperties, AppendProperties
  <1>2. 1..Len(s) \subseteq 1..(Len(s) + 1) /\ Len(s) + 1 \in 1..(Len(s) + 1)
    BY <1>1
  <1>3. Numbers(s) \cup {pkt.no} \subseteq Numbers(Append(s, pkt))
    BY <1>1, <1>2 DEF Numbers
  <1> QED  BY <1>3, NumbersAppend

LEMMA NumbersJoined ==
    ASSUME NEW S, NEW s \in Seq(S), NEW t \in Seq(S)
    PROVE  Numbers(s) \cup Numbers(t) \subseteq Numbers(s \o t)
  <1>1. /\ Len(s) \in Nat /\ DOMAIN s = 1..Len(s)
        /\ Len(t) \in Nat /\ DOMAIN t = 1..Len(t)
        /\ DOMAIN (s \o t) = 1..(Len(s) + Len(t))
        /\ \A i \in 1..(Len(s) + Len(t)) :
               (s \o t)[i] = IF i <= Len(s) THEN s[i] ELSE t[i - Len(s)]
    BY ConcatProperties, LenProperties
  <1>2. \A i \in DOMAIN s : i \in DOMAIN (s \o t) /\ (s \o t)[i] = s[i]
    BY <1>1
  <1>3. \A i \in DOMAIN t : i + Len(s) \in DOMAIN (s \o t) /\ (s \o t)[i + Len(s)] = t[i]
    <2> SUFFICES ASSUME NEW i \in 1..Len(t)
                 PROVE  i + Len(s) \in 1..(Len(s) + Len(t)) /\ (s \o t)[i + Len(s)] = t[i]
      BY <1>1
    <2>1. i + Len(s) \in 1..(Len(s) + Len(t)) /\ ~(i + Len(s) <= Len(s))
          /\ i + Len(s) - Len(s) = i
      BY <1>1
    <2> QED  BY <1>1, <2>1
  <1> QED  BY <1>2, <1>3 DEF Numbers

LEMMA NumbersCut ==
    ASSUME NEW s \in Seq(Packet), NEW k \in DOMAIN s
    PROVE  Numbers(s) = Numbers(SubSeq(s, 1, k - 1)) \cup Numbers(SubSeq(s, k, Len(s)))
  <1>1. Len(s) \in Nat /\ DOMAIN s = 1..Len(s)
    BY LenProperties
  <1>2. \A i \in 1..Len(s) : s[i] \in Packet
    BY <1>1, ElementOfSeq
  <1>3. /\ DOMAIN SubSeq(s, 1, k - 1) = 1..(k - 1)
        /\ \A i \in 1..(k - 1) : SubSeq(s, 1, k - 1)[i] = s[i]
    <2>1. /\ SubSeq(s, 1, k - 1) \in Seq(Packet)
          /\ Len(SubSeq(s, 1, k - 1)) = k - 1
          /\ \A i \in 1..(k - 1) : SubSeq(s, 1, k - 1)[i] = s[1 + i - 1]
      BY <1>1, <1>2, SubSeqProperties
    <2>2. \A i \in 1..(k - 1) : 1 + i - 1 = i
      BY <1>1
    <2> QED  BY <2>1, <2>2, LenProperties
  <1>4. /\ DOMAIN SubSeq(s, k, Len(s)) = 1..(Len(s) - k + 1)
        /\ \A i \in 1..(Len(s) - k + 1) : SubSeq(s, k, Len(s))[i] = s[k + i - 1]
    <2>1. /\ SubSeq(s, k, Len(s)) \in Seq(Packet)
          /\ Len(SubSeq(s, k, Len(s))) = Len(s) - k + 1
          /\ \A i \in 1..(Len(s) - k + 1) : SubSeq(s, k, Len(s))[i] = s[k + i - 1]
      BY <1>1, <1>2, SubSeqProperties
    <2> QED  BY <2>1, LenProperties
  <1>5. Numbers(SubSeq(s, 1, k - 1)) \subseteq Numbers(s)
    <2>1. 1..(k - 1) \subseteq DOMAIN s
      BY <1>1
    <2> QED  BY <1>3, <2>1 DEF Numbers
  <1>6. ASSUME NEW i \in DOMAIN s
        PROVE  s[i].no \in Numbers(SubSeq(s, 1, k - 1)) \cup Numbers(SubSeq(s, k, Len(s)))
    <2>1. CASE i < k
      <3>1. i \in 1..(k - 1)
        BY <1>1, <2>1
      <3> QED  BY <1>3, <3>1 DEF Numbers
    <2>2. CASE ~(i < k)
      <3>1. i - k + 1 \in 1..(Len(s) - k + 1) /\ k + (i - k + 1) - 1 = i
        BY <1>1, <2>2
      <3> QED  BY <1>4, <3>1 DEF Numbers
    <2> QED  BY <2>1, <2>2
  <1>7. Numbers(s) \subseteq Numbers(SubSeq(s, 1, k - 1)) \cup Numbers(SubSeq(s, k, Len(s)))
    BY <1>6 DEF Numbers
  <1> QED  BY <1>5, <1>7, NumbersSuffix

LEMMA PositiveNumbers ==
    ASSUME BufferInv
    PROVE  /\ \A s \in Seq(Packet) : 0 \notin Numbers(s) /\ Numbers(s) \subseteq Nat
           /\ 0 \notin Pending /\ Pending \subseteq Nat
  <1>1. ASSUME NEW s \in Seq(Packet)
        PROVE  0 \notin Numbers(s) /\ Numbers(s) \subseteq Nat
    <2>1. \A i \in DOMAIN s : s[i] \in Packet
      BY LenProperties, ElementOfSeq
    <2> QED  BY <2>1 DEF Numbers, Packet
  <1>2. half[rPos].tags \in Seq(Packet) /\ half[wPos].tags \in Seq(Packet) /\ pushed \in Nat
    BY DEF BufferInv, TypeOK
  <1>3. \A n \in InFlight : n \in Nat /\ n # 0
    BY DEF InFlight, BufferInv, HolderPushes, Packet
  <1>4. \A n \in Future : n \in Nat /\ n # 0
    BY <1>2 DEF Future
  <1> QED  BY <1>1, <1>2, <1>3, <1>4 DEF Pending, Filled, Filling

LEMMA OrderInit == Init => QueueInv /\ ClipInv
  <1> SUFFICES ASSUME Init PROVE QueueInv /\ ClipInv
    OBVIOUS
  <1>1. /\ \A h \in Halves : half[h].tags = <<>>
        /\ temp = <<>> /\ clip = <<>> /\ InFlight = {} /\ rPos \in Halves /\ wPos \in Halves
    BY DEF Init, EmptyHalf, InFlight, Halves
  <1>2. Filled = {} /\ Filling = {}
    BY <1>1, NumbersEmpty DEF Filled, Filling
  <1>3. QueueInv
    BY <1>1, <1>2, NumbersEmpty DEF QueueInv, Before, Init
  <1>4. ClipInOrder
    BY <1>1 DEF ClipInOrder, Recorded
  <1>5. ClipInv
    BY <1>1, <1>4, NumbersEmpty DEF ClipInv, Before, OutInUse, Init
  <1> QED  BY <1>3, <1>5

\* The producers only take numbers away from those that are pending.
LEMMA PendingShrinks ==
    ASSUME ClipInv, Pending' \subseteq Pending,
           UNCHANGED <<rec, seekKey, out, clip>>,
           temp' = temp \/ temp' = <<>>
    PROVE  ClipInv'
  <1>1. Sorted(temp') /\ Numbers(temp') \subseteq Numbers(temp)
    BY NumbersEmpty DEF ClipInv
  <1>2. Recorded' = Recorded /\ OutInUse' = OutInUse
    BY DEF Recorded, OutInUse
  <1> QED  BY <1>1, <1>2 DEF ClipInv, ClipInOrder, Before

LEMMA MuxOrders ==
    ASSUME BufferInv, QueueInv, ClipInv,
           NEW p \in Producers, NEW key \in BOOLEAN, NEW tsReset \in BOOLEAN,
           Mux(p, key, tsReset)
    PROVE  QueueInv' /\ ClipInv'
  <1> USE DEF Mux, recorderVars
  <1>1. pushed \in Nat /\ \A q \in Producers : at[q] = "idle"
    BY ProducersAssumption DEF BufferInv, TypeOK, HolderPushes
  <1>2. InFlight' = {pushed + 1}
    <2>1. packet'[p] = [no |-> pushed + 1, key |-> key] /\ at'[p] # "idle"
      BY DEF BufferInv, TypeOK
    <2>2. \A q \in Producers : at'[q] # "idle" => q = p
      BY <1>1 DEF BufferInv, TypeOK
    <2> QED  BY <2>1, <2>2 DEF InFlight
  <1>3. Future' = {n \in Nat : n > pushed + 1} /\ pushed + 1 \in Future
    BY <1>1 DEF Future
  <1>4. UNCHANGED <<Filled, Filling>>
    BY DEF Filled, Filling
  <1>5. Future' \subseteq Future /\ InFlight' \subseteq Future
    BY <1>1, <1>2, <1>3 DEF Future
  <1>6. Pending' \subseteq Pending
    BY <1>4, <1>5 DEF Pending
  <1>7. Before(InFlight', Future')
    BY <1>1, <1>2, <1>3 DEF Before
  <1>8. QueueInv'
    BY <1>4, <1>5, <1>7 DEF QueueInv, Before
  <1> QED  BY <1>6, <1>8, PendingShrinks

LEMMA ResetAllOrders ==
    ASSUME BufferInv, QueueInv, ClipInv, NEW p \in Producers, ResetAll(p)
    PROVE  QueueInv' /\ ClipInv'
  <1> USE DEF ResetAll, recorderVars
  <1>1. Filled' = {} /\ Filling' = {}
    BY NumbersEmpty DEF Filled, Filling, EmptyHalf, BufferInv, TypeOK
  <1>2. InFlight' = InFlight /\ Future' = Future
    BY DEF InFlight, Future, BufferInv, TypeOK
  <1>3. \A h \in Halves : Sorted(half'[h].tags)
    BY NumbersEmpty DEF EmptyHalf
  <1>4. QueueInv'
    BY <1>1, <1>2, <1>3 DEF QueueInv, Before
  <1>5. Pending' \subseteq Pending
    BY <1>1, <1>2 DEF Pending
  <1> QED  BY <1>4, <1>5, PendingShrinks

LEMMA PrepareOrders ==
    ASSUME BufferInv, QueueInv, ClipInv, NEW p \in Producers, NEW longEnough \in BOOLEAN,
           PrepareSize(p, longEnough)
    PROVE  QueueInv' /\ ClipInv'
  <1> USE DEF PrepareSize, recorderVars
  <1>1. InFlight' = InFlight /\ Future' = Future
    BY DEF InFlight, Future, BufferInv, TypeOK
  <1>2. CASE NoRoomFor(packet[p]) \/ longEnough
    <2>1. /\ wPos \in Halves /\ Other(wPos) \in Halves /\ Other(wPos) # wPos
          /\ half \in [Halves -> [tags : Seq(Packet), curSize : Nat]]
      BY DEF BufferInv, TypeOK, Halves, Other
    <2>2. Filled' = Filling
      BY <1>2, <2>1 DEF Filled, Filling
    <2>3. Filling' = {}
      BY <1>2, <2>1, NumbersEmpty DEF Filling, EmptyHalf
    <2>4. \A h \in Halves : Sorted(half'[h].tags)
      <3>1. \A h \in Halves : half'[h] = half[h] \/ half'[h] = EmptyHalf
        BY <1>2, <2>1
      <3> QED  BY <3>1, NumbersEmpty DEF QueueInv, EmptyHalf
    <2>5. rPos' # wPos'
      BY <1>2, <2>1
    <2>6. QueueInv'
      BY <1>1, <2>2, <2>3, <2>4, <2>5 DEF QueueInv, Before
    <2>7. Pending' \subseteq Pending
      BY <1>1, <2>2, <2>3 DEF Pending
    <2> QED  BY <2>6, <2>7, PendingShrinks
  <1>3. CASE ~(NoRoomFor(packet[p]) \/ longEnough)
    <2>1. UNCHANGED <<rFlag, rPos, wPos, half>>
      BY <1>3
    <2>2. UNCHANGED <<Filled, Filling>>
      BY <2>1 DEF Filled, Filling
    <2>3. QueueInv'
      BY <1>1, <2>1, <2>2 DEF QueueInv, Before
    <2>4. Pending' \subseteq Pending
      BY <1>1, <2>2 DEF Pending
    <2> QED  BY <2>3, <2>4, PendingShrinks
  <1> QED  BY <1>2, <1>3

LEMMA PushDataOrders ==
    ASSUME BufferInv, QueueInv, ClipInv, NEW p \in Producers, PushData(p)
    PROVE  QueueInv' /\ ClipInv'
  <1> USE DEF PushData, recorderVars
  <1>1. /\ packet[p] \in Packet /\ packet[p].no \in InFlight
        /\ wPos \in Halves /\ half[wPos].tags \in Seq(Packet)
    BY DEF BufferInv, HolderPushes, TypeOK, InFlight
  <1>2. InFlight' = {}
    <2>1. \A q \in Producers : at'[q] = "idle"
      BY DEF BufferInv, HolderPushes, TypeOK
    <2> QED  BY <2>1 DEF InFlight
  <1>3. Future' = Future
    BY DEF Future
  <1>4. half'[wPos].tags = Append(half[wPos].tags, packet[p])
    BY <1>1 DEF BufferInv, TypeOK
  <1>5. Filling' \subseteq Filling \cup InFlight
    BY <1>1, <1>4, NumbersAppend DEF Filling
  <1>6. Filled' = Filled
    BY DEF Filled, QueueInv, BufferInv, TypeOK
  <1>7. \A h \in Halves : Sorted(half'[h].tags)
    <2>1. Before(Numbers(half[wPos].tags), {packet[p].no})
      BY <1>1 DEF QueueInv, Filling, Before
    <2>2. Sorted(Append(half[wPos].tags, packet[p]))
      BY <1>1, <2>1, NumbersAppend DEF QueueInv
    <2>3. \A h \in Halves : h # wPos => half'[h] = half[h]
      BY DEF BufferInv, TypeOK
    <2> QED  BY <1>4, <2>2, <2>3 DEF QueueInv
  <1>8. QueueInv'
    BY <1>2, <1>3, <1>5, <1>6, <1>7 DEF QueueInv, Before
  <1>9. Pending' \subseteq Pending
    BY <1>2, <1>3, <1>5, <1>6 DEF Pending
  <1> QED  BY <1>8, <1>9, PendingShrinks

\* The recorder changes the queue only by taking the filled half from it.
LEMMA RecorderKeepsQueue ==
    ASSUME BufferInv, QueueInv, UNCHANGED <<producerVars, half, wPos, rPos>>,
           rFlag' = rFlag \/ rFlag' = FALSE
    PROVE  QueueInv' /\ Pending' \subseteq Pending
  <1>1. InFlight' = InFlight /\ Future' = Future /\ Filling' = Filling
    BY DEF InFlight, Future, Filling, producerVars
  <1>2. Filled' \subseteq Filled
    BY DEF Filled
  <1>3. QueueInv'
    BY <1>1, <1>2 DEF QueueInv, Before
  <1> QED  BY <1>1, <1>2, <1>3 DEF Pending

\* Nothing is recorded in the file of a new clip, with or without its header.
LEMMA NewClipEmpty ==
    ASSUME StartRecording \/ WriteHeader
    PROVE  \A i \in DOMAIN clip' : clip'[i] = AvcHeader
  <1>1. CASE StartRecording
    <2>1. clip' = <<>> /\ Len(<<>>) = 0
      BY <1>1, EmptySeq DEF StartRecording
    <2>2. DOMAIN <<>> = {}
      BY EmptySeq
    <2> QED  BY <2>1, <2>2
  <1>2. CASE WriteHeader
    BY <1>2 DEF WriteHeader
  <1> QED  BY <1>1, <1>2

LEMMA NewClipOrders ==
    ASSUME BufferInv, QueueInv, ClipInv, StartRecording \/ WriteHeader
    PROVE  QueueInv' /\ ClipInv'
  <1> USE DEF StartRecording, WriteHeader
  <1>1. QueueInv' /\ Pending' \subseteq Pending
    BY RecorderKeepsQueue
  <1>2. \A i \in DOMAIN clip' : clip'[i] = AvcHeader
    BY NewClipEmpty
  <1>3. Numbers(clip)' \subseteq {0} /\ Recorded' = {}
    <2>1. Numbers(clip)' \subseteq {0}
      <3>1. \A i \in DOMAIN clip' : clip'[i].no = 0
        BY <1>2 DEF AvcHeader
      <3> QED  BY <3>1, Zenon DEF Numbers
    <2>2. Recorded' = {}
      BY <1>2, Zenon DEF Recorded
    <2> QED  BY <2>1, <2>2
  <1>4. \A n \in Numbers(temp) \cup Pending : 0 < n
    BY PositiveNumbers DEF BufferInv, TypeOK
  <1>5. /\ Before(Numbers(clip)', Numbers(temp)') /\ Before(Numbers(clip)', Pending')
        /\ ClipInOrder'
    BY <1>1, <1>3, <1>4 DEF Before, ClipInOrder
  <1>6. Sorted(temp)' /\ Before(Numbers(temp)', Pending') /\ ~OutInUse'
    BY <1>1 DEF ClipInv, Before, OutInUse
  <1> QED  BY <1>1, <1>5, <1>6 DEF ClipInv

LEMMA CopyHalfOrders ==
    ASSUME BufferInv, QueueInv, ClipInv, CopyHalf
    PROVE  QueueInv' /\ ClipInv'
  <1> USE DEF CopyHalf
  <1>1. QueueInv' /\ Pending' \subseteq Pending
    BY RecorderKeepsQueue
  <1>2. ClipInOrder' /\ Numbers(clip)' = Numbers(clip) /\ ~OutInUse'
    BY DEF ClipInv, ClipInOrder, Recorded, OutInUse
  <1>3. CASE rFlag
    <2>1. Numbers(temp)' = Filled /\ Sorted(temp)'
      BY <1>3 DEF Filled, QueueInv, BufferInv, TypeOK
    <2>2. Pending' = Filling \cup InFlight \cup Future
      BY <1>3 DEF Pending, Filled, Filling, InFlight, Future, producerVars
    <2>3. Before(Numbers(temp)', Pending')
      BY <2>1, <2>2 DEF QueueInv
    <2>4. Before(Numbers(clip)', Numbers(temp)') /\ Before(Numbers(clip)', Pending')
      BY <1>1, <1>2, <2>1 DEF ClipInv, Before, Pending
    <2> QED  BY <1>1, <1>2, <2>1, <2>3, <2>4 DEF ClipInv
  <1>4. CASE ~rFlag
    BY <1>1, <1>2, <1>4 DEF ClipInv, Before
  <1> QED  BY <1>3, <1>4

LEMMA SearchOrders ==
    ASSUME BufferInv, QueueInv, ClipInv, SearchIFrame
    PROVE  QueueInv' /\ ClipInv'
  <1> USE DEF SearchIFrame
  <1>1. QueueInv' /\ Pending' \subseteq Pending
    BY RecorderKeepsQueue
  <1>2. ClipInOrder' /\ UNCHANGED <<clip, temp>>
    BY DEF ClipInv, ClipInOrder, Recorded
  <1>3. OutInUse' => Sorted(out') /\ Numbers(out') \subseteq Numbers(temp)
    <2> SUFFICES ASSUME OutInUse'
                 PROVE  Sorted(out') /\ Numbers(out') \subseteq Numbers(temp)
      OBVIOUS
    <2>1. PICK i \in DOMAIN temp : out' = SubSeq(temp, i, Len(temp))
      BY DEF OutInUse
    <2>2. temp \in Seq(Packet)
      BY DEF BufferInv, TypeOK
    <2> QED  BY <2>1, <2>2, NumbersSuffix DEF ClipInv
  <1> QED  BY <1>1, <1>2, <1>3 DEF ClipInv, Before

LEMMA TakeSizeOrders ==
    ASSUME BufferInv, QueueInv, ClipInv, TakeSize
    PROVE  QueueInv' /\ ClipInv'
  <1> USE DEF TakeSize
  <1>1. QueueInv' /\ Pending' \subseteq Pending
    BY RecorderKeepsQueue
  <1>2. ClipInOrder' /\ UNCHANGED <<clip, temp>>
    BY DEF ClipInv, ClipInOrder, Recorded
  <1>3. OutInUse' => out' = temp \/ (out' = out /\ OutInUse)
    BY DEF OutInUse
  <1> QED  BY <1>1, <1>2, <1>3 DEF ClipInv, Before

LEMMA WriteClipOrders ==
    ASSUME BufferInv, QueueInv, ClipInv, NEW someDuration \in BOOLEAN,
           WriteClip(someDuration)
    PROVE  QueueInv' /\ ClipInv'
  <1> USE DEF WriteClip
  <1>1. QueueInv' /\ Pending' \subseteq Pending
    BY RecorderKeepsQueue
  <1>2. /\ OutInUse /\ Sorted(out)
        /\ Before(Numbers(clip), Numbers(out)) /\ Before(Numbers(out), Pending)
    BY DEF OutInUse, ClipInv
  <1>3. Numbers(temp)' = {} /\ Sorted(temp)' /\ ~OutInUse'
    BY NumbersEmpty DEF OutInUse
  <1>4. CASE clip' = clip
    BY <1>1, <1>3, <1>4 DEF ClipInv, ClipInOrder, Recorded, Before
  <1>5. CASE clip' = clip \o out
    <2>1. clip \in Seq(Packet \cup {AvcHeader}) /\ out \in Seq(Packet \cup {AvcHeader})
      BY SeqMonotonic DEF BufferInv, TypeOK
    <2>2. Len(clip) \in Nat /\ DOMAIN clip = 1..Len(clip) /\ DOMAIN out = 1..Len(out)
      BY <2>1, LenProperties
    <2>3. Numbers(clip)' \subseteq Numbers(clip) \cup Numbers(out)
      BY <1>5, <2>1, NumbersConcat
    <2>4. Before(Numbers(clip)', Pending')
      BY <1>1, <1>2, <2>3 DEF ClipInv, Before
    <2>5. ASSUME NEW i \in Recorded', NEW j \in Recorded', i < j
          PROVE  clip'[i].no < clip'[j].no
      <3>1. /\ i \in DOMAIN (clip \o out) /\ clip'[i] # AvcHeader
            /\ j \in DOMAIN (clip \o out) /\ clip'[j] # AvcHeader
        BY <1>5 DEF Recorded
      <3>2. /\ \/ i \in DOMAIN clip /\ clip'[i] = clip[i]
               \/ i - Len(clip) \in DOMAIN out /\ clip'[i] = out[i - Len(clip)]
            /\ \/ j \in DOMAIN clip /\ clip'[j] = clip[j]
               \/ j - Len(clip) \in DOMAIN out /\ clip'[j] = out[j - Len(clip)]
        BY <1>5, <2>1, <3>1, NumbersConcat
      <3>3. i \in Int /\ j \in Int /\ DOMAIN (clip \o out) = 1..(Len(clip) + Len(out))
        BY <2>1, <3>1, ConcatProperties, LenProperties
      <3>4. CASE j \in DOMAIN clip /\ clip'[j] = clip[j]
        <4>1. i \in DOMAIN clip /\ clip'[i] = clip[i]
          BY <2>2, <2>5, <3>2, <3>3, <3>4
        <4> QED  BY <2>5, <3>1, <3>4, <4>1 DEF ClipInv, ClipInOrder, Recorded
      <3>5. CASE /\ i \in DOMAIN clip /\ clip'[i] = clip[i]
                 /\ j - Len(clip) \in DOMAIN out /\ clip'[j] = out[j - Len(clip)]
        BY <1>2, <3>5 DEF Before, Numbers
      <3>6. CASE /\ i - Len(clip) \in DOMAIN out /\ clip'[i] = out[i - Len(clip)]
                 /\ j - Len(clip) \in DOMAIN out /\ clip'[j] = out[j - Len(clip)]
        <4>1. i - Len(clip) < j - Len(clip)
          BY <2>2, <2>5, <3>3
        <4> QED  BY <1>2, <3>6, <4>1 DEF Sorted
      <3> QED  BY <3>2, <3>4, <3>5, <3>6
    <2>6. ClipInOrder'
      BY <2>5 DEF ClipInOrder
    <2> QED  BY <1>1, <1>3, <2>4, <2>6 DEF ClipInv, Before
  <1> QED  BY <1>4, <1>5

LEMMA OthersOrder ==
    ASSUME BufferInv, QueueInv, ClipInv,
           NextRound \/ EnoughRecorded \/ CloseClip \/ TimeRunsOver
    PROVE  QueueInv' /\ ClipInv'
  <1>1. UNCHANGED <<producerVars, half, wPos, rPos, rFlag, temp, clip, seekKey, out>>
    BY DEF NextRound, EnoughRecorded, CloseClip, TimeRunsOver
  <1>2. QueueInv' /\ Pending' \subseteq Pending
    BY <1>1, RecorderKeepsQueue
  <1>3. OutInUse' => OutInUse
    BY DEF OutInUse, NextRound, EnoughRecorded, CloseClip, TimeRunsOver
  <1>4. ClipInOrder'
    BY <1>1 DEF ClipInv, ClipInOrder, Recorded
  <1> QED  BY <1>1, <1>2, <1>3, <1>4 DEF ClipInv, Before

LEMMA OrderNext == BufferInv /\ QueueInv /\ ClipInv /\ [Next]_vars => QueueInv' /\ ClipInv'
  <1> SUFFICES ASSUME BufferInv, QueueInv, ClipInv, [Next]_vars
               PROVE  QueueInv' /\ ClipInv'
    OBVIOUS
  <1>1. ASSUME NEW p \in Producers, Produce(p) PROVE QueueInv' /\ ClipInv'
    BY <1>1, MuxOrders, ResetAllOrders, PrepareOrders, PushDataOrders DEF Produce
  <1>2. CASE StartRecording \/ WriteHeader
    BY <1>2, NewClipOrders
  <1>3. CASE Record
    BY <1>2, <1>3, CopyHalfOrders, SearchOrders, TakeSizeOrders, WriteClipOrders, OthersOrder
       DEF Record, Flush
  <1>4. CASE TimeRunsOver
    BY <1>4, OthersOrder
  <1>5. CASE UNCHANGED vars
    <2>1. UNCHANGED <<producerVars, half, wPos, rPos, rFlag, temp, clip, rec, seekKey, out>>
      BY <1>5 DEF vars, recorderVars
    <2>2. QueueInv' /\ Pending' \subseteq Pending
      BY <2>1, RecorderKeepsQueue
    <2> QED  BY <2>1, <2>2, PendingShrinks
  <1> QED  BY <1>1, <1>2, <1>3, <1>4, <1>5 DEF Next

\* A clip holds its packets in the order they were muxed in, each at most once, for
\* every way in which the tasks' steps interleave, resets included.
THEOREM ClipStaysInOrder == Spec => []ClipInOrder
  <1> DEFINE Ordered == QueueInv /\ ClipInv
  <1>1. Init => Ordered
    BY OrderInit
  <1>2. BufferInv /\ Ordered /\ [Next]_vars => Ordered'
    BY OrderNext
  <1>3. Ordered => ClipInOrder
    BY DEF ClipInv
  <1> QED  BY <1>1, <1>2, <1>3, Invariant, PTL DEF Spec
-----------------------------------------------------------------------------
(* A clip opens with a key frame                                           *)

KeyInv ==
    /\ \A i \in Recorded : i + 1 \in DOMAIN clip => i + 1 \in Recorded
    /\ seekKey \/ rec \in {"idle", "header"} \/ Len(clip) \in Recorded
    /\ OutInUse /\ seekKey => out[1].key
    /\ ClipOpensWithKey

\* Steps that leave the file alone and find no new key frame.
LEMMA KeyKept ==
    ASSUME KeyInv, UNCHANGED <<clip, seekKey>>,
           rec \in {"idle", "header"} => rec' = rec,
           OutInUse' /\ seekKey => out' = out /\ OutInUse
    PROVE  KeyInv'
  <1>1. Recorded' = Recorded
    BY DEF Recorded
  <1> QED  BY <1>1 DEF KeyInv, ClipOpensWithKey

LEMMA SearchFindsKey ==
    ASSUME BufferInv, KeyInv, SearchIFrame
    PROVE  KeyInv'
  <1> USE DEF SearchIFrame
  <1>1. Recorded' = Recorded
    BY DEF Recorded
  <1>2. OutInUse' => out'[1].key
    <2> SUFFICES ASSUME OutInUse' PROVE out'[1].key
      OBVIOUS
    <2>1. PICK i \in DOMAIN temp : temp[i].key /\ out' = SubSeq(temp, i, Len(temp))
      BY DEF OutInUse
    <2>2. temp \in Seq(Packet)
      BY DEF BufferInv, TypeOK
    <2>3. Len(temp) \in Nat /\ DOMAIN temp = 1..Len(temp)
      BY <2>2, LenProperties
    <2>4. \A j \in i..Len(temp) : temp[j] \in Packet
      BY <2>2, <2>3, ElementOfSeq
    <2>5. SubSeq(temp, i, Len(temp))[1] = temp[i + 1 - 1]
      <3>1. \A j \in 1..(Len(temp) - i + 1) :
                SubSeq(temp, i, Len(temp))[j] = temp[i + j - 1]
        BY <2>3, <2>4, SubSeqProperties
      <3> QED  BY <2>3, <3>1
    <2>6. i + 1 - 1 = i
      BY <2>3
    <2> QED  BY <2>1, <2>5, <2>6
  <1> QED  BY <1>1, <1>2 DEF KeyInv, ClipOpensWithKey

LEMMA WriteClipOpens ==
    ASSUME BufferInv, KeyInv, NEW someDuration \in BOOLEAN, WriteClip(someDuration)
    PROVE  KeyInv'
  <1> USE DEF WriteClip
  <1>1. OutInUse /\ ~OutInUse'
    BY DEF OutInUse
  <1>2. CASE clip' = clip /\ seekKey' = seekKey
    BY <1>1, <1>2, KeyKept
  <1>3. CASE clip' = clip \o out
    <2>1. /\ clip \in Seq(Packet \cup {AvcHeader}) /\ out \in Seq(Packet \cup {AvcHeader})
          /\ out \in Seq(Packet) /\ out # <<>>
      BY SeqMonotonic DEF BufferInv, TypeOK
    <2>2. /\ Len(clip) \in Nat /\ DOMAIN clip = 1..Len(clip)
          /\ Len(out) \in Nat /\ DOMAIN out = 1..Len(out)
          /\ Len(clip \o out) = Len(clip) + Len(out)
          /\ DOMAIN (clip \o out) = 1..(Len(clip) + Len(out))
      BY <2>1, LenProperties, ConcatProperties
    <2>3. Len(out) >= 1
      BY <2>1, <2>2, EmptySeq
    <2>4. \A i \in 1..(Len(clip) + Len(out)) :
              clip'[i] = IF i <= Len(clip) THEN clip[i] ELSE out[i - Len(clip)]
      BY <1>3, <2>1, ConcatProperties
    <2>5. \A i \in DOMAIN out : out[i] # AvcHeader
      <3>1. \A i \in DOMAIN out : out[i] \in Packet
        BY <2>1, <2>2, ElementOfSeq
      <3> QED  BY <3>1 DEF Packet, AvcHeader
    <2>6. \A i \in (Len(clip) + 1)..(Len(clip) + Len(out)) : i \in Recorded'
      <3> SUFFICES ASSUME NEW i \in (Len(clip) + 1)..(Len(clip) + Len(out))
                   PROVE  i \in Recorded'
        OBVIOUS
      <3>1. i \in DOMAIN (clip \o out) /\ i - Len(clip) \in DOMAIN out /\ ~(i <= Len(clip))
        BY <2>2
      <3> QED  BY <1>3, <2>2, <2>4, <2>5, <3>1 DEF Recorded
    <2>7. \A i \in 1..Len(clip) : i \in Recorded' <=> i \in Recorded
      <3> SUFFICES ASSUME NEW i \in 1..Len(clip) PROVE i \in Recorded' <=> i \in Recorded
        OBVIOUS
      <3>1. i \in 1..(Len(clip) + Len(out)) /\ i <= Len(clip)
        BY <2>2
      <3> QED  BY <1>3, <2>2, <2>4, <3>1 DEF Recorded
    <2>8. Recorded' \subseteq 1..(Len(clip) + Len(out))
      BY <1>3, <2>2 DEF Recorded
    <2>9. \A i \in Recorded' : i + 1 \in DOMAIN clip' => i + 1 \in Recorded'
      <3> SUFFICES ASSUME NEW i \in Recorded', i + 1 \in 1..(Len(clip) + Len(out))
                   PROVE  i + 1 \in Recorded'
        BY <1>3, <2>2
      <3>1. CASE i + 1 \in 1..Len(clip)
        <4>1. i \in 1..Len(clip)
          BY <2>2, <2>8, <3>1
        <4> QED  BY <2>2, <2>7, <3>1, <4>1 DEF KeyInv
      <3>2. CASE i + 1 \notin 1..Len(clip)
        BY <2>2, <2>6, <2>8, <3>2
      <3> QED  BY <3>1, <3>2
    <2>10. Len(clip') \in Recorded'
      <3>1. Len(clip') = Len(clip) + Len(out)
        BY <1>3, <2>2
      <3>2. Len(clip) + Len(out) \in (Len(clip) + 1)..(Len(clip) + Len(out))
        BY <2>2, <2>3
      <3> QED  BY <2>6, <3>1, <3>2
    <2>11. ClipOpensWithKey'
      <3> SUFFICES ASSUME NEW i \in Recorded', i - 1 \notin Recorded'
                   PROVE  clip'[i].key
        BY DEF ClipOpensWithKey
      <3>1. i \in 1..(Len(clip) + Len(out))
        BY <2>8
      <3>2. CASE i \in 1..Len(clip)
        <4>1. i \in Recorded /\ clip'[i] = clip[i]
          BY <2>2, <2>4, <2>7, <3>1, <3>2
        <4>2. i - 1 \notin Recorded
          BY <2>2, <2>7, <3>2 DEF Recorded
        <4> QED  BY <4>1, <4>2 DEF KeyInv, ClipOpensWithKey
      <3>3. CASE i \notin 1..Len(clip)
        <4>1. i = Len(clip) + 1
          BY <2>2, <2>6, <3>1, <3>3
        <4>2. clip'[i] = out[1]
          BY <2>2, <2>3, <2>4, <4>1
        <4>3. Len(clip) \notin Recorded
          BY <2>2, <2>7, <4>1 DEF Recorded
        <4>4. seekKey
          BY <4>3 DEF KeyInv
        <4> QED  BY <1>1, <4>2, <4>4 DEF KeyInv
      <3> QED  BY <3>2, <3>3
    <2> QED  BY <1>1, <2>9, <2>10, <2>11 DEF KeyInv
  <1> QED  BY <1>2, <1>3

LEMMA KeyNext == BufferInv /\ KeyInv /\ [Next]_vars => KeyInv'
  <1> SUFFICES ASSUME BufferInv, KeyInv, [Next]_vars PROVE KeyInv'
    OBVIOUS
  <1>1. ASSUME UNCHANGED recorderVars PROVE KeyInv'
    BY <1>1, KeyKept DEF recorderVars, OutInUse
  <1>2. ASSUME NEW p \in Producers, Produce(p) PROVE KeyInv'
    BY <1>1, <1>2 DEF Produce, Mux, ResetAll, PrepareSize, PushData
  <1>3. CASE StartRecording \/ WriteHeader
    <2>1. \A i \in DOMAIN clip' : clip'[i] = AvcHeader
      BY <1>3, NewClipEmpty
    <2>2. Recorded' = {} /\ (seekKey' \/ rec' = "header") /\ ~OutInUse'
      BY <1>3, <2>1 DEF StartRecording, WriteHeader, Recorded, OutInUse
    <2> QED  BY <2>2 DEF KeyInv, ClipOpensWithKey
  <1>4. CASE CopyHalf
    BY <1>4, KeyKept DEF CopyHalf, OutInUse
  <1>5. CASE SearchIFrame
    BY <1>5, SearchFindsKey
  <1>6. CASE TakeSize
    BY <1>6, KeyKept DEF TakeSize, OutInUse
  <1>7. ASSUME NEW someDuration \in BOOLEAN, WriteClip(someDuration) PROVE KeyInv'
    BY <1>7, WriteClipOpens
  <1>8. CASE NextRound \/ EnoughRecorded \/ TimeRunsOver
    BY <1>8, KeyKept DEF NextRound, EnoughRecorded, TimeRunsOver, OutInUse
  <1>9. CASE CloseClip
    <2>1. Recorded' = Recorded /\ ~OutInUse' /\ rec' = "idle"
      BY <1>9 DEF CloseClip, Recorded, OutInUse
    <2> QED  BY <1>9, <2>1 DEF CloseClip, KeyInv, ClipOpensWithKey
  <1>10. CASE UNCHANGED vars
    BY <1>1, <1>10 DEF vars
  <1> QED
    BY <1>2, <1>3, <1>4, <1>5, <1>6, <1>7, <1>8, <1>9, <1>10 DEF Next, Record, Flush

\* Whatever is recorded begins with a key frame, also when the first writes have no
\* duration and the search goes on, or a reset empties the buffer under the recorder.
THEOREM ClipAlwaysOpensWithKey == Spec => []ClipOpensWithKey
  <1>1. Init => KeyInv
    BY DEF Init, KeyInv, ClipOpensWithKey, Recorded, OutInUse
  <1>2. BufferInv /\ KeyInv /\ [Next]_vars => KeyInv'
    BY KeyNext
  <1>3. KeyInv => ClipOpensWithKey
    BY DEF KeyInv
  <1> QED  BY <1>1, <1>2, <1>3, Invariant, PTL DEF Spec

-----------------------------------------------------------------------------
(* A packet that is missing was given up                                   *)

Queued == Filled \cup Filling \cup InFlight

Taken == {clip[i].no : i \in Recorded}

\* From each number of X on, every number up to top is in S or in D.
Covered(X, S, D, top) == \A x \in X : \A n \in x..top : n \in D \/ n \in S

\* The queue accounts for itself; what is taken from it is still accounted for in the
\* third buffer, in what is being written and in the file, until the clip is closed.
\* A third buffer that is no longer in use was given up.
AccountInv ==
    /\ Covered(Queued, Queued, dropped, pushed)
    /\ Covered(Numbers(temp), Numbers(temp) \cup Queued, dropped, pushed)
    /\ rec \in {"idle", "header", "flush", "check", "close"} => Numbers(temp) \subseteq dropped
    /\ OutInUse => /\ Covered(Numbers(out), Numbers(out) \cup Queued, dropped, pushed)
                   /\ Numbers(temp) \subseteq dropped \cup Numbers(out)
    /\ rec \notin {"idle", "close"} =>
           Covered(Taken, Numbers(clip) \cup Numbers(temp) \cup Queued, dropped, pushed)

LEMMA CoveredKept ==
    ASSUME NEW X, NEW S, NEW D, NEW top, Covered(X, S, D, top),
           NEW Y, Y \subseteq X, NEW T, NEW E, D \subseteq E, S \subseteq T \cup E
    PROVE  Covered(Y, T, E, top)
  BY DEF Covered

\* One packet more.
LEMMA CoveredNext ==
    ASSUME NEW top \in Nat, NEW X, X \subseteq Nat, NEW S, NEW D, Covered(X, S, D, top),
           NEW T, S \cup {top + 1} \subseteq T,
           NEW Y, Y \subseteq X \cup {top + 1}
    PROVE  Covered(Y, T, D, top + 1)
  <1> SUFFICES ASSUME NEW x \in Y, NEW n \in x..(top + 1), n # top + 1
               PROVE  n \in D \/ n \in S
    BY DEF Covered
  <1>1. CASE x = top + 1
    BY <1>1
  <1>2. CASE x \in X
    <2>1. x \in Nat /\ n \in x..top
      BY <1>2
    <2> QED  BY <1>2, <2>1 DEF Covered
  <1> QED  BY <1>1, <1>2

\* While the recorder is in its loop, what is missing in the clip cannot turn up any more:
\* what is in the buffers comes later than the clip.
LEMMA AccountedMissing ==
    ASSUME BufferInv, QueueInv, ClipInv, AccountInv, rec \notin {"idle", "close"}
    PROVE  OnlyDroppedMissing
  <1> SUFFICES ASSUME NEW i \in Recorded, NEW j \in Recorded,
                      NEW n \in clip[i].no..clip[j].no, n \notin dropped
               PROVE  n \in Numbers(clip)
    BY DEF OnlyDroppedMissing
  <1>1. clip[i].no \in Taken /\ clip[i].no \in Numbers(clip) /\ clip[j].no \in Numbers(clip)
    BY DEF Taken, Recorded, Numbers
  <1>2. clip[i].no \in Nat /\ clip[j].no \in Nat /\ pushed \in Nat
    <2>1. clip \in Seq(Packet \cup {AvcHeader}) /\ pushed \in Nat
      BY DEF BufferInv, TypeOK
    <2>2. clip[i] \in Packet \cup {AvcHeader} /\ clip[j] \in Packet \cup {AvcHeader}
      BY <2>1, LenProperties, ElementOfSeq DEF Recorded
    <2> QED  BY <2>1, <2>2 DEF Packet, AvcHeader
  <1>3. clip[j].no <= pushed
    <2>1. pushed + 1 \in Pending
      BY <1>2 DEF Pending, Future
    <2>2. clip[j].no < pushed + 1
      BY <1>1, <2>1 DEF ClipInv, Before
    <2> QED  BY <1>2, <2>2
  <1>4. n \in clip[i].no..pushed
    BY <1>2, <1>3
  <1>5. n \in Numbers(clip) \cup Numbers(temp) \cup Queued
    BY <1>1, <1>4 DEF AccountInv, Covered
  <1>6. ASSUME n \in Numbers(temp) \cup Queued PROVE FALSE
    <2>1. n \in Numbers(temp) \/ n \in Pending
      BY <1>6 DEF Queued, Pending
    <2>2. clip[j].no < n
      BY <1>1, <2>1 DEF ClipInv, Before
    <2> QED  BY <1>2, <2>2
  <1> QED  BY <1>5, <1>6

LEMMA MuxAccounts ==
    ASSUME BufferInv, QueueInv, ClipInv, AccountInv,
           NEW p \in Producers, NEW key \in BOOLEAN, NEW tsReset \in BOOLEAN,
           Mux(p, key, tsReset)
    PROVE  AccountInv'
  <1> USE DEF Mux, recorderVars
  <1>1. pushed \in Nat /\ \A q \in Producers : at[q] = "idle"
    BY ProducersAssumption DEF BufferInv, TypeOK, HolderPushes
  <1>2. InFlight = {} /\ InFlight' = {pushed + 1}
    <2>1. packet'[p] = [no |-> pushed + 1, key |-> key] /\ at'[p] # "idle"
      BY DEF BufferInv, TypeOK
    <2>2. \A q \in Producers : at'[q] # "idle" => q = p
      BY <1>1 DEF BufferInv, TypeOK
    <2> QED  BY <1>1, <2>1, <2>2 DEF InFlight
  <1>3. Queued' = Queued \cup {pushed + 1}
    BY <1>2 DEF Queued, Filled, Filling
  <1>4. /\ UNCHANGED <<rec, seekKey, out, clip, temp, dropped, Taken, OutInUse>>
        /\ pushed' = pushed + 1
        /\ UNCHANGED <<Numbers(temp), Numbers(out), Numbers(clip)>>
    BY DEF Taken, Recorded, OutInUse
  <1>5. /\ Queued \subseteq Nat /\ Numbers(temp) \subseteq Nat /\ Numbers(out) \subseteq Nat
        /\ Taken \subseteq Nat
    <2>1. Queued \subseteq Pending
      BY DEF Queued, Pending
    <2>2. Taken \subseteq Nat
      <3>1. clip \in Seq(Packet \cup {AvcHeader})
        BY DEF BufferInv, TypeOK
      <3>2. \A i \in DOMAIN clip : clip[i] \in Packet \cup {AvcHeader}
        BY <3>1, LenProperties, ElementOfSeq
      <3> QED  BY <3>2 DEF Taken, Recorded, Packet, AvcHeader
    <2> QED  BY <2>1, <2>2, PositiveNumbers DEF BufferInv, TypeOK
  <1>6. Covered(Queued', Queued', dropped', pushed')
    <2>1. Covered(Queued, Queued, dropped, pushed) /\ Queued \cup {pushed + 1} \subseteq Queued'
      BY <1>3 DEF AccountInv
    <2>2. Covered(Queued', Queued', dropped, pushed + 1)
      BY <1>1, <1>3, <1>5, <2>1, CoveredNext
    <2> QED  BY <1>4, <2>2
  <1>7. Covered(Numbers(temp)', Numbers(temp)' \cup Queued', dropped', pushed')
    BY <1>1, <1>3, <1>4, <1>5, CoveredNext DEF AccountInv
  <1>8. OutInUse => Covered(Numbers(out)', Numbers(out)' \cup Queued', dropped', pushed')
    BY <1>1, <1>3, <1>4, <1>5, CoveredNext DEF AccountInv
  <1>9. rec \notin {"idle", "close"} =>
            Covered(Taken', Numbers(clip)' \cup Numbers(temp)' \cup Queued', dropped', pushed')
    <2> SUFFICES ASSUME rec \notin {"idle", "close"}
                 PROVE  Covered(Taken', Numbers(clip)' \cup Numbers(temp)' \cup Queued',
                                dropped', pushed')
      OBVIOUS
    <2>1. Covered(Taken, Numbers(clip) \cup Numbers(temp) \cup Queued, dropped, pushed)
      BY DEF AccountInv
    <2>2. (Numbers(clip) \cup Numbers(temp) \cup Queued) \cup {pushed + 1}
              \subseteq Numbers(clip) \cup Numbers(temp) \cup Queued'
      BY <1>3
    <2>3. Covered(Taken, Numbers(clip) \cup Numbers(temp) \cup Queued', dropped, pushed + 1)
      <3> HIDE DEF Mux
      <3>1. pushed \in Nat /\ Taken \subseteq Nat /\ Taken \subseteq Taken \cup {pushed + 1}
        BY <1>1, <1>5
      <3> QED  BY <2>1, <2>2, <3>1, CoveredNext
    <2> QED  BY <1>4, <2>3
  <1> QED  BY <1>4, <1>6, <1>7, <1>8, <1>9 DEF AccountInv

\* The other steps of the producers move packets on in the queue or give them up.
LEMMA QueueAccounts ==
    ASSUME AccountInv, UNCHANGED <<rec, seekKey, out, clip, pushed>>,
           temp' = temp \/ (temp' = <<>> /\ Numbers(temp) \subseteq dropped'),
           dropped \subseteq dropped',
           Queued' \subseteq Queued, Queued \subseteq Queued' \cup dropped'
    PROVE  AccountInv'
  <1>1. /\ UNCHANGED <<Taken, OutInUse, Numbers(out), Numbers(clip)>>
        /\ Numbers(temp)' \subseteq Numbers(temp)
        /\ Numbers(temp) \subseteq Numbers(temp)' \cup dropped'
    BY NumbersEmpty DEF Taken, Recorded, OutInUse
  <1>2. Covered(Queued', Queued', dropped', pushed')
    BY CoveredKept DEF AccountInv
  <1>3. Covered(Numbers(temp)', Numbers(temp)' \cup Queued', dropped', pushed')
    <2>1. Numbers(temp) \cup Queued \subseteq (Numbers(temp)' \cup Queued') \cup dropped'
      BY <1>1
    <2> QED  BY <1>1, <2>1, CoveredKept DEF AccountInv
  <1>4. OutInUse => Covered(Numbers(out)', Numbers(out)' \cup Queued', dropped', pushed')
    <2>1. Numbers(out) \cup Queued \subseteq (Numbers(out)' \cup Queued') \cup dropped'
      BY <1>1
    <2> QED  BY <1>1, <2>1, CoveredKept DEF AccountInv
  <1>5. rec \notin {"idle", "close"} =>
            Covered(Taken', Numbers(clip)' \cup Numbers(temp)' \cup Queued', dropped', pushed')
    <2>1. Numbers(clip) \cup Numbers(temp) \cup Queued
            \subseteq (Numbers(clip)' \cup Numbers(temp)' \cup Queued') \cup dropped'
      BY <1>1
    <2> QED  BY <1>1, <2>1, CoveredKept DEF AccountInv
  <1>6. rec \in {"idle", "header", "flush", "check", "close"} => Numbers(temp)' \subseteq dropped'
    BY <1>1 DEF AccountInv
  <1>7. OutInUse => Numbers(temp)' \subseteq dropped' \cup Numbers(out)'
    BY <1>1 DEF AccountInv
  <1> QED  BY <1>1, <1>2, <1>3, <1>4, <1>5, <1>6, <1>7 DEF AccountInv

LEMMA ResetAllAccounts ==
    ASSUME BufferInv, QueueInv, AccountInv, NEW p \in Producers, ResetAll(p)
    PROVE  AccountInv'
  <1> USE DEF ResetAll, recorderVars
  <1>1. Filled' = {} /\ Filling' = {} /\ InFlight' = InFlight
    BY NumbersEmpty DEF Filled, Filling, EmptyHalf, InFlight, BufferInv, TypeOK
  <1>2. \A h \in Halves : Numbers(half[h].tags) \subseteq dropped'
    OBVIOUS
  <1>3. Filled \subseteq dropped' /\ Filling \subseteq dropped'
    BY <1>2 DEF Filled, Filling, BufferInv, TypeOK
  <1>4. Queued' \subseteq Queued /\ Queued \subseteq Queued' \cup dropped'
    BY <1>1, <1>3 DEF Queued
  <1>5. temp' = <<>> /\ Numbers(temp) \subseteq dropped' /\ dropped \subseteq dropped'
    OBVIOUS
  <1> QED  BY <1>4, <1>5, QueueAccounts

LEMMA PrepareAccounts ==
    ASSUME BufferInv, QueueInv, AccountInv, NEW p \in Producers, NEW longEnough \in BOOLEAN,
           PrepareSize(p, longEnough)
    PROVE  AccountInv'
  <1> USE DEF PrepareSize, recorderVars
  <1>1. InFlight' = InFlight
    BY DEF InFlight, BufferInv, TypeOK
  <1>2. CASE NoRoomFor(packet[p]) \/ longEnough
    <2>1. /\ wPos \in Halves /\ Other(wPos) \in Halves /\ Other(wPos) # wPos
          /\ rPos = Other(wPos)
          /\ half \in [Halves -> [tags : Seq(Packet), curSize : Nat]]
      BY DEF BufferInv, QueueInv, TypeOK, Halves, Other
    <2>2. Filled' = Filling
      BY <1>2, <2>1 DEF Filled, Filling
    <2>3. Filling' = {}
      BY <1>2, <2>1, NumbersEmpty DEF Filling, EmptyHalf
    <2>4. Filled \subseteq dropped' /\ dropped \subseteq dropped'
      BY <1>2, <2>1 DEF Filled
    <2>5. Queued' \subseteq Queued /\ Queued \subseteq Queued' \cup dropped'
      BY <1>1, <2>2, <2>3, <2>4 DEF Queued
    <2> QED  BY <2>4, <2>5, QueueAccounts
  <1>3. CASE ~(NoRoomFor(packet[p]) \/ longEnough)
    <2>1. UNCHANGED <<rFlag, rPos, wPos, half, dropped>>
      BY <1>3
    <2>2. Queued' = Queued
      BY <1>1, <2>1 DEF Queued, Filled, Filling
    <2> QED  BY <2>1, <2>2, QueueAccounts
  <1> QED  BY <1>2, <1>3

LEMMA PushDataAccounts ==
    ASSUME BufferInv, QueueInv, AccountInv, NEW p \in Producers, PushData(p)
    PROVE  AccountInv'
  <1> USE DEF PushData, recorderVars
  <1>1. /\ packet[p] \in Packet /\ packet[p].no \in InFlight
        /\ wPos \in Halves /\ half[wPos].tags \in Seq(Packet)
    BY DEF BufferInv, HolderPushes, TypeOK, InFlight
  <1>2. InFlight' = {} /\ InFlight = {packet[p].no}
    <2>1. \A q \in Producers : at[q] # "idle" => q = p
      BY DEF BufferInv, HolderPushes
    <2>2. \A q \in Producers : at'[q] = "idle"
      BY <2>1 DEF BufferInv, TypeOK
    <2>3. at[p] # "idle"
      OBVIOUS
    <2> QED  BY <2>1, <2>2, <2>3 DEF InFlight
  <1>3. half'[wPos].tags = Append(half[wPos].tags, packet[p])
    BY <1>1 DEF BufferInv, TypeOK
  <1>4. Filling' = Filling \cup InFlight
    <2>1. Filling' = Numbers(Append(half[wPos].tags, packet[p]))
      BY <1>3 DEF Filling
    <2> QED  BY <1>1, <1>2, <2>1, NumbersAppended DEF Filling
  <1>5. Filled' = Filled
    BY DEF Filled, QueueInv, BufferInv, TypeOK
  <1>6. Queued' = Queued
    BY <1>2, <1>4, <1>5 DEF Queued
  <1> QED  BY <1>6, QueueAccounts

\* The recorder changes the queue only by taking the filled half from it.
LEMMA RecorderKeepsQueued ==
    ASSUME UNCHANGED <<producerVars, half, wPos, rPos, rFlag>>
    PROVE  Queued' = Queued /\ pushed' = pushed
  BY DEF Queued, Filled, Filling, InFlight, producerVars

LEMMA CopyHalfAccounts ==
    ASSUME BufferInv, QueueInv, AccountInv, CopyHalf
    PROVE  AccountInv'
  <1> USE DEF CopyHalf
  <1>1. /\ UNCHANGED <<Taken, Numbers(clip), dropped, pushed>>
        /\ ~OutInUse' /\ rec = "flush" /\ rec' \in {"search", "size"}
        /\ Numbers(temp) \subseteq dropped
    BY DEF Taken, Recorded, OutInUse, producerVars, AccountInv
  <1>2. CASE ~rFlag
    <2>1. Queued' = Queued /\ temp' = temp
      BY <1>2, RecorderKeepsQueued
    <2> QED  BY <1>1, <2>1 DEF AccountInv
  <1>3. CASE rFlag
    <2>1. Numbers(temp)' = Filled
      BY <1>3 DEF Filled, QueueInv, BufferInv, TypeOK
    <2>2. Queued' = Filling \cup InFlight /\ Queued = Numbers(temp)' \cup Queued'
      BY <1>3, <2>1 DEF Queued, Filled, Filling, InFlight, producerVars
    <2>3. Covered(Queued, Queued, dropped, pushed)
      BY DEF AccountInv
    <2>4. Covered(Numbers(temp)', Numbers(temp)' \cup Queued', dropped', pushed')
      BY <1>1, <2>2, <2>3, CoveredKept
    <2>5. Covered(Queued', Queued', dropped', pushed')
      <3> SUFFICES ASSUME NEW x \in Queued', NEW n \in x..pushed, n \notin dropped
                   PROVE  n \in Queued'
        BY <1>1 DEF Covered
      <3>1. n \in Queued
        BY <2>2, <2>3 DEF Covered
      <3>2. ASSUME n \in Filled PROVE FALSE
        <4>1. n < x
          BY <2>2, <3>2 DEF QueueInv, Before
        <4>2. x \in Nat
          BY <2>2, PositiveNumbers DEF Pending
        <4> QED  BY <4>1, <4>2
      <3> QED  BY <2>1, <2>2, <3>1, <3>2
    <2>6. Covered(Taken', Numbers(clip)' \cup Numbers(temp)' \cup Queued', dropped', pushed')
      <3>1. Covered(Taken, Numbers(clip) \cup Numbers(temp) \cup Queued, dropped, pushed)
        BY <1>1 DEF AccountInv
      <3>2. Numbers(clip) \cup Numbers(temp) \cup Queued
              \subseteq (Numbers(clip)' \cup Numbers(temp)' \cup Queued') \cup dropped'
        BY <1>1, <2>2
      <3> QED  BY <1>1, <3>1, <3>2, CoveredKept
    <2> QED  BY <1>1, <2>4, <2>5, <2>6 DEF AccountInv
  <1> QED  BY <1>2, <1>3

LEMMA SearchAccounts ==
    ASSUME BufferInv, AccountInv, SearchIFrame
    PROVE  AccountInv'
  <1> USE DEF SearchIFrame
  <1>1. /\ UNCHANGED <<Taken, Numbers(clip), Numbers(temp), Queued, pushed>>
        /\ rec = "search" /\ dropped \subseteq dropped'
    BY RecorderKeepsQueued DEF Taken, Recorded
  <1>2. /\ Covered(Queued', Queued', dropped', pushed')
        /\ Covered(Numbers(temp)', Numbers(temp)' \cup Queued', dropped', pushed')
        /\ Covered(Taken', Numbers(clip)' \cup Numbers(temp)' \cup Queued', dropped', pushed')
    BY <1>1, CoveredKept DEF AccountInv
  <1>3. CASE rec' = "check" /\ dropped' = dropped \cup Numbers(temp)
    <2>1. ~OutInUse' /\ Numbers(temp)' \subseteq dropped'
      BY <1>1, <1>3 DEF OutInUse
    <2> QED  BY <1>2, <2>1 DEF AccountInv
  <1>4. ASSUME NEW i \in DOMAIN temp, rec' = "size",
               out' = SubSeq(temp, i, Len(temp)),
               dropped' = dropped \cup Numbers(SubSeq(temp, 1, i - 1))
        PROVE  AccountInv'
    <2>1. temp \in Seq(Packet)
      BY DEF BufferInv, TypeOK
    <2>2. Numbers(out') \subseteq Numbers(temp) /\ Numbers(temp) \subseteq dropped' \cup Numbers(out')
      BY <1>4, <2>1, NumbersCut
    <2>3. Numbers(temp) \cup Queued \subseteq (Numbers(out') \cup Queued') \cup dropped'
      BY <1>1, <2>2
    <2>4. Covered(Numbers(out'), Numbers(out') \cup Queued', dropped', pushed')
      <3>1. Covered(Numbers(temp), Numbers(temp) \cup Queued, dropped, pushed)
        BY DEF AccountInv
      <3> QED  BY <1>1, <2>2, <2>3, <3>1, CoveredKept
    <2> QED  BY <1>1, <1>2, <1>4, <2>2, <2>4 DEF AccountInv
  <1> QED  BY <1>3, <1>4

LEMMA TakeSizeAccounts ==
    ASSUME BufferInv, AccountInv, TakeSize
    PROVE  AccountInv'
  <1> USE DEF TakeSize
  <1>1. /\ UNCHANGED <<Taken, Numbers(clip), Numbers(temp), Queued, dropped, pushed>>
        /\ rec = "size"
    BY RecorderKeepsQueued DEF Taken, Recorded
  <1>2. CASE temp = <<>>
    <2>1. ~OutInUse' /\ Numbers(temp)' = {} /\ rec' = "check"
      BY <1>2, NumbersEmpty DEF OutInUse
    <2> QED  BY <1>1, <2>1 DEF AccountInv
  <1>3. CASE temp # <<>>
    <2>1. rec' = "write" /\ (out' = temp \/ (out' = out /\ OutInUse))
      BY <1>3 DEF OutInUse
    <2>2. /\ Covered(Numbers(out'), Numbers(out') \cup Queued, dropped, pushed)
          /\ Numbers(temp) \subseteq dropped \cup Numbers(out')
      BY <2>1 DEF AccountInv
    <2> QED  BY <1>1, <2>1, <2>2 DEF AccountInv
  <1> QED  BY <1>2, <1>3

LEMMA WriteClipAccounts ==
    ASSUME BufferInv, AccountInv, NEW someDuration \in BOOLEAN, WriteClip(someDuration)
    PROVE  AccountInv'
  <1> USE DEF WriteClip
  <1>1. /\ UNCHANGED <<Queued, dropped, pushed>>
        /\ Numbers(temp)' = {} /\ OutInUse /\ ~OutInUse' /\ rec = "write"
    BY RecorderKeepsQueued, NumbersEmpty DEF OutInUse
  <1>2. Covered(Queued', Queued', dropped', pushed')
    BY <1>1 DEF AccountInv
  <1>3. Covered(Numbers(temp)', Numbers(temp)' \cup Queued', dropped', pushed')
    BY <1>1 DEF Covered
  <1>4. CASE rec' = "close"
    BY <1>1, <1>2, <1>3, <1>4 DEF AccountInv
  <1>5. CASE clip' = clip \o out /\ rec' = "check"
    <2>1. /\ clip \in Seq(Packet \cup {AvcHeader}) /\ out \in Seq(Packet \cup {AvcHeader})
      BY SeqMonotonic DEF BufferInv, TypeOK
    <2>2. Numbers(clip) \cup Numbers(out) \subseteq Numbers(clip)'
      BY <1>5, <2>1, NumbersJoined
    <2>3. Taken' \subseteq Taken \cup Numbers(out)
      <3> SUFFICES ASSUME NEW i \in Recorded'
                   PROVE  clip'[i].no \in Taken \cup Numbers(out)
        BY DEF Taken
      <3>1. i \in DOMAIN (clip \o out) /\ clip'[i] # AvcHeader
        BY <1>5 DEF Recorded
      <3>2. \/ i \in DOMAIN clip /\ clip'[i] = clip[i]
            \/ i - Len(clip) \in DOMAIN out /\ clip'[i] = out[i - Len(clip)]
        BY <1>5, <2>1, <3>1, NumbersConcat
      <3> QED  BY <3>1, <3>2 DEF Taken, Recorded, Numbers
    <2>4. /\ Covered(Taken, Numbers(clip) \cup Numbers(temp) \cup Queued, dropped, pushed)
          /\ Covered(Numbers(out), Numbers(out) \cup Queued, dropped, pushed)
          /\ Numbers(temp) \subseteq dropped \cup Numbers(out)
      BY <1>1 DEF AccountInv
    <2>5. Covered(Taken', Numbers(clip)' \cup Numbers(temp)' \cup Queued', dropped', pushed')
      BY <1>1, <2>2, <2>3, <2>4 DEF Covered
    <2> QED  BY <1>1, <1>2, <1>3, <1>5, <2>5 DEF AccountInv
  <1> QED  BY <1>4, <1>5

LEMMA NewClipAccounts ==
    ASSUME BufferInv, AccountInv, StartRecording \/ WriteHeader
    PROVE  AccountInv'
  <1> USE DEF StartRecording, WriteHeader
  <1>1. /\ UNCHANGED <<Queued, dropped, pushed, Numbers(temp)>>
        /\ rec \in {"idle", "header"} /\ rec' \in {"header", "flush"} /\ ~OutInUse'
    BY RecorderKeepsQueued DEF OutInUse
  <1>2. \A i \in DOMAIN clip' : clip'[i] = AvcHeader
    BY NewClipEmpty
  <1>3. Taken' = {}
    BY <1>2 DEF Taken, Recorded
  <1>4. Covered(Taken', Numbers(clip)' \cup Numbers(temp)' \cup Queued', dropped', pushed')
    BY <1>3 DEF Covered
  <1> QED  BY <1>1, <1>4 DEF AccountInv

LEMMA OthersAccount ==
    ASSUME AccountInv, NextRound \/ EnoughRecorded \/ CloseClip \/ TimeRunsOver
    PROVE  AccountInv'
  <1>1. UNCHANGED <<producerVars, half, wPos, rPos, rFlag, temp, clip, seekKey, out, dropped>>
    BY DEF NextRound, EnoughRecorded, CloseClip, TimeRunsOver
  <1>2. UNCHANGED <<Taken, Numbers(clip), Numbers(temp), Numbers(out), Queued, dropped, pushed>>
    BY <1>1, RecorderKeepsQueued DEF Taken, Recorded
  <1>3. CASE TimeRunsOver
    BY <1>2, <1>3 DEF TimeRunsOver, AccountInv, OutInUse
  <1>4. CASE NextRound \/ EnoughRecorded \/ CloseClip
    <2>1. ~OutInUse' /\ rec \in {"check", "close"} /\ rec' \in {"close", "flush", "idle"}
          /\ (rec = "close" => rec' = "idle")
      BY <1>4 DEF NextRound, EnoughRecorded, CloseClip, OutInUse
    <2> QED  BY <1>2, <2>1 DEF AccountInv
  <1> QED  BY <1>3, <1>4

LEMMA AccountNext ==
    BufferInv /\ QueueInv /\ ClipInv /\ AccountInv /\ [Next]_vars => AccountInv'
  <1> SUFFICES ASSUME BufferInv, QueueInv, ClipInv, AccountInv, [Next]_vars
               PROVE  AccountInv'
    OBVIOUS
  <1>1. ASSUME NEW p \in Producers, Produce(p) PROVE AccountInv'
    BY <1>1, MuxAccounts, ResetAllAccounts, PrepareAccounts, PushDataAccounts DEF Produce
  <1>2. CASE StartRecording \/ WriteHeader
    BY <1>2, NewClipAccounts
  <1>3. CASE Record
    BY <1>2, <1>3, CopyHalfAccounts, SearchAccounts, TakeSizeAccounts, WriteClipAccounts,
       OthersAccount DEF Record, Flush
  <1>4. CASE TimeRunsOver
    BY <1>4, OthersAccount
  <1>5. CASE UNCHANGED vars
    <2>1. /\ UNCHANGED <<producerVars, half, wPos, rPos, rFlag>>
          /\ UNCHANGED <<rec, seekKey, out, clip, pushed, temp, dropped>>
      BY <1>5 DEF vars, producerVars, recorderVars
    <2> QED  BY <2>1, RecorderKeepsQueued, QueueAccounts
  <1> QED  BY <1>1, <1>2, <1>3, <1>4, <1>5 DEF Next

\* A clip that is closed, or not begun, is not written any more; what was given up stays so.
LEMMA ClosedKeepsMissing ==
    ASSUME OnlyDroppedMissing, [Next]_vars, rec' \in {"idle", "close"}
    PROVE  OnlyDroppedMissing'
  <1>1. clip' = clip /\ dropped \subseteq dropped'
    <2>1. CASE \E p \in Producers : Produce(p)
      BY <2>1 DEF Produce, Mux, ResetAll, PrepareSize, PushData, recorderVars
    <2>2. CASE StartRecording \/ WriteHeader \/ CopyHalf \/ SearchIFrame \/ TakeSize
      BY <2>2 DEF StartRecording, WriteHeader, CopyHalf, SearchIFrame, TakeSize
    <2>3. CASE \E someDuration \in BOOLEAN : WriteClip(someDuration)
      BY <2>3 DEF WriteClip
    <2>4. CASE NextRound \/ EnoughRecorded \/ CloseClip \/ TimeRunsOver
      BY <2>4 DEF NextRound, EnoughRecorded, CloseClip, TimeRunsOver
    <2>5. CASE UNCHANGED vars
      BY <2>5 DEF vars, recorderVars
    <2> QED  BY <2>1, <2>2, <2>3, <2>4, <2>5 DEF Next, Record, Flush
  <1> QED  BY <1>1 DEF OnlyDroppedMissing, Recorded, Numbers

\* Nothing goes missing in the middle of a clip but what was overwritten unread, reset or
\* passed over in the search: switching the halves while the recorder copies, searches or
\* writes loses no packet, for any number of producers, packets and clips.
THEOREM NothingElseMissing == Spec => []OnlyDroppedMissing
  <1> DEFINE Ordered == QueueInv /\ ClipInv
             Recording == rec \notin {"idle", "close"}
  <1>1. Init => Ordered
    BY OrderInit
  <1>2. BufferInv /\ Ordered /\ [Next]_vars => Ordered'
    BY OrderNext
  <1>3. Init => AccountInv /\ OnlyDroppedMissing
    <2> SUFFICES ASSUME Init PROVE AccountInv /\ OnlyDroppedMissing
      OBVIOUS
    <2>1. /\ \A h \in Halves : half[h].tags = <<>>
          /\ InFlight = {} /\ rPos \in Halves /\ wPos \in Halves
      BY DEF Init, EmptyHalf, InFlight, Halves
    <2>2. Filled = {} /\ Filling = {} /\ Numbers(temp) = {} /\ Recorded = {}
      BY <2>1, NumbersEmpty DEF Filled, Filling, Init, Recorded
    <2>3. Queued = {} /\ ~OutInUse /\ rec = "idle"
      BY <2>1, <2>2 DEF Queued, OutInUse, Init
    <2> QED  BY <2>2, <2>3 DEF AccountInv, Covered, OnlyDroppedMissing
  <1>4. BufferInv /\ Ordered /\ AccountInv /\ [Next]_vars => AccountInv'
    BY AccountNext
  <1>5. BufferInv /\ Ordered /\ AccountInv /\ Recording => OnlyDroppedMissing
    BY AccountedMissing
  <1>6. OnlyDroppedMissing /\ [Next]_vars => OnlyDroppedMissing' \/ Recording'
    BY ClosedKeepsMissing
  <1> QED  BY <1>1, <1>2, <1>3, <1>4, <1>5, <1>6, Invariant, PTL DEF Spec

-----------------------------------------------------------------------------
(* Induction without a predicate as a parameter, which no prover here can  *)
(* instantiate: the smallest number that is not as it should be; and the   *)
(* functions defined by recursion on a number.                             *)

\* A set of natural numbers has a smallest one.
LEMMA Smallest ==
  ASSUME NEW T, T \subseteq Nat, T # {}
  PROVE  \E m \in T : \A k \in T : m <= k
  <1> DEFINE R == OpToRel(<, Nat)
  <1>1. \A k, m \in Nat : k < m => <<k, m>> \in R
    BY DEF OpToRel
  <1> HIDE DEF R
  <1>2. PICK m \in T : \A k \in T : ~ (<<k, m>> \in R)
    <2>1. IsWellFoundedOn(R, Nat)
      BY NatLessThanWellFounded DEF R
    <2> QED BY <2>1, WFMin
  <1>3. \A k \in T : ~ (k < m)
    BY <1>1, <1>2
  <1> QED BY <1>3

\* A number is as it should be if it follows from the ones before: Good is the set of
\* those that are.
LEMMA Induction ==
  ASSUME NEW n \in Nat, NEW Good, 0 \in Good, \A m \in 1 .. n : m - 1 \in Good => m \in Good
  PROVE  \A m \in 0 .. n : m \in Good
  <1> DEFINE T == (0 .. n) \ Good
  <1>1. SUFFICES ASSUME T # {} PROVE FALSE
    OBVIOUS
  <1>2. PICK m \in T : \A k \in T : m <= k
    <2>1. T \subseteq Nat
      OBVIOUS
    <2> HIDE DEF T
    <2> QED BY <1>1, <2>1, Smallest
  <1>3. m \in 1 .. n
    OBVIOUS
  <1>4. m - 1 \in Good
    BY <1>2, <1>3
  <1> QED BY <1>3, <1>4

\* g begins with a and goes on by step, for n steps.
Follows(g, a, step, n) == g[0] = a /\ \A i \in 1 .. n : g[i] = step[<<g[i - 1], i>>]

\* There is such a function.
LEMMA Recursion ==
  ASSUME NEW n \in Nat, NEW S, NEW a \in S, NEW step \in [S \X (1 .. n) -> S]
  PROVE  \E g \in [0 .. n -> S] : Follows(g, a, step, n)
  <1> DEFINE Good == {m \in 0 .. n : \E g \in [0 .. m -> S] : Follows(g, a, step, m)}
  <1>1. 0 \in Good
    <2> DEFINE g == [i \in 0 .. 0 |-> a]
    <2>1. g \in [0 .. 0 -> S] /\ Follows(g, a, step, 0)
      BY DEF Follows
    <2> HIDE DEF g
    <2> QED BY <2>1
  <1>2. ASSUME NEW m \in 1 .. n, m - 1 \in Good
        PROVE  m \in Good
    <2>1. PICK g \in [0 .. m - 1 -> S] : Follows(g, a, step, m - 1)
      BY <1>2
    <2> DEFINE h == [i \in 0 .. m |-> IF i = m THEN step[<<g[m - 1], m>>] ELSE g[i]]
    <2>2. h \in [0 .. m -> S]
      OBVIOUS
    <2>3. ASSUME NEW i \in 1 .. m PROVE h[i] = step[<<h[i - 1], i>>]
      <3>1. CASE i = m
        <4>1. h[i] = step[<<g[m - 1], m>>] /\ h[i - 1] = g[m - 1]
          BY <3>1
        <4> QED BY <3>1, <4>1
      <3>2. CASE i # m
        <4>1. i \in 1 .. m - 1 /\ h[i] = g[i] /\ h[i - 1] = g[i - 1]
          BY <3>2
        <4> QED BY <2>1, <4>1 DEF Follows
      <3> QED BY <3>1, <3>2
    <2>4. h[0] = a
      BY <2>1 DEF Follows
    <2>5. Follows(h, a, step, m)
      BY <2>3, <2>4 DEF Follows
    <2> HIDE DEF h
    <2> QED BY <2>2, <2>5
  <1>3. n \in Good
    <2> HIDE DEF Good
    <2> QED BY <1>1, <1>2, Induction
  <1> QED BY <1>3

-----------------------------------------------------------------------------
(* The units of a frame and the search through them.                       *)

\* A unit begins where the one before it ends.
LEMMA EndsUnfold ==
  ASSUME NEW frame \in Seq(Unit)
  PROVE  /\ Ends(frame) \in [0 .. Len(frame) -> Nat]
         /\ Ends(frame)[0] = 0
         /\ \A i \in 1 .. Len(frame) : Ends(frame)[i] = Ends(frame)[i - 1] + frame[i].size
  <1> DEFINE n == Len(frame)
             Def(g) == [i \in 0 .. n |-> IF i = 0 THEN 0 ELSE g[i - 1] + frame[i].size]
             step == [q \in Nat \X (1 .. n) |-> q[1] + frame[q[2]].size]
  <1>1. \A i \in 1 .. n : frame[i].size \in Nat
    <2>1. \A i \in 1 .. n : frame[i] \in Unit
      OBVIOUS
    <2> QED BY <2>1 DEF Unit
  <1>2. step \in [Nat \X (1 .. n) -> Nat]
    BY <1>1
  <1>3. PICK g \in [0 .. n -> Nat] : Follows(g, 0, step, n)
    <2>1. n \in Nat /\ 0 \in Nat
      OBVIOUS
    <2> HIDE DEF step, n
    <2> QED BY <1>2, <2>1, Recursion
  <1>4. \A i \in 1 .. n : step[<<g[i - 1], i>>] = g[i - 1] + frame[i].size
    OBVIOUS
  <1>5. g = Def(g)
    <2>1. \A i \in 0 .. n : i # 0 => i \in 1 .. n
      OBVIOUS
    <2> HIDE DEF step, n
    <2> QED BY <1>3, <1>4, <2>1 DEF Follows
  <1>6. Ends(frame) = Def(Ends(frame))
    <2>1. Ends(frame) = CHOOSE h : h = Def(h)
      BY DEF Ends
    <2> HIDE DEF Def
    <2> QED BY <1>5, <2>1
  <1>7. /\ \A i \in 0 .. n : Ends(frame)[i] = IF i = 0 THEN 0 ELSE Ends(frame)[i - 1] + frame[i].size
        /\ Ends(frame) = [i \in 0 .. n |-> Ends(frame)[i]]
    BY <1>6
  <1>8. \A i \in 0 .. n : Ends(frame)[i] \in Nat
    <2> DEFINE Good == {i \in 0 .. n : Ends(frame)[i] \in Nat}
    <2>1. 0 \in Good /\ \A m \in 1 .. n : m - 1 \in Good => m \in Good
      BY <1>1, <1>7
    <2>2. n \in Nat
      OBVIOUS
    <2> HIDE DEF Good, n
    <2>3. \A m \in 0 .. n : m \in Good
      BY <2>1, <2>2, Induction
    <2> QED BY <2>3 DEF Good
  <1> QED BY <1>7, <1>8

\* What the search has found, as far as its kind goes.
Info ==
    [types : SUBSET UnitType, at : Nat, cur : ParameterSets \cup {"none"}, done : BOOLEAN,
     offset : [ParameterSets -> Nat], len : [ParameterSets -> Int]]

LEMMA TakeUnitType ==
  ASSUME NEW info \in Info, NEW u \in Unit
  PROVE  TakeUnit(info, u) \in Info
  <1>1. u.type \in UnitType /\ u.size \in Nat
    BY DEF Unit
  <1>2. LenAt(info) \in [ParameterSets -> Int]
    BY DEF Info, LenAt
  <1> HIDE DEF LenAt
  <1>3. CASE info.done
    BY <1>3 DEF TakeUnit
  <1>4. CASE ~info.done
    <2>1. (info.types \cup {u.type}) \in SUBSET UnitType
      BY <1>1 DEF Info
    <2>2. info.at + u.size \in Nat
      BY <1>1 DEF Info
    <2>3. [info.offset EXCEPT ![u.type] = info.at] \in [ParameterSets -> Nat]
      BY DEF Info
    <2>4. (u.type \in Slices) \in BOOLEAN
      OBVIOUS
    <2> QED BY <1>2, <1>4, <2>1, <2>2, <2>3, <2>4 DEF Info, TakeUnit
  <1> QED BY <1>3, <1>4

\* The search goes from unit to unit.
LEMMA SearchUnfold ==
  ASSUME NEW frame \in Seq(Unit)
  PROVE  /\ Search(frame)[0] = NoInfo
         /\ \A i \in 0 .. Len(frame) : Search(frame)[i] \in Info
         /\ \A i \in 1 .. Len(frame) : Search(frame)[i] = TakeUnit(Search(frame)[i - 1], frame[i])
  <1> DEFINE n == Len(frame)
             Def(g) == [i \in 0 .. n |-> IF i = 0 THEN NoInfo ELSE TakeUnit(g[i - 1], frame[i])]
             step == [q \in Info \X (1 .. n) |-> TakeUnit(q[1], frame[q[2]])]
  <1>1. \A i \in 1 .. n : frame[i] \in Unit
    OBVIOUS
  <1>2. NoInfo \in Info
    BY DEF NoInfo, Info
  <1>3. step \in [Info \X (1 .. n) -> Info]
    BY <1>1, TakeUnitType
  <1>4. PICK g \in [0 .. n -> Info] : Follows(g, NoInfo, step, n)
    <2>1. n \in Nat
      OBVIOUS
    <2> HIDE DEF step, n
    <2> QED BY <1>2, <1>3, <2>1, Recursion
  <1>5. \A i \in 1 .. n : step[<<g[i - 1], i>>] = TakeUnit(g[i - 1], frame[i])
    OBVIOUS
  <1>6. g = Def(g)
    <2>1. \A i \in 0 .. n : i # 0 => i \in 1 .. n
      OBVIOUS
    <2> HIDE DEF step, n
    <2> QED BY <1>4, <1>5, <2>1 DEF Follows
  <1>7. Search(frame) = Def(Search(frame))
    <2>1. Search(frame) = CHOOSE h : h = Def(h)
      BY DEF Search
    <2> HIDE DEF Def
    <2> QED BY <1>6, <2>1
  <1>8. \A i \in 0 .. n : Search(frame)[i] = IF i = 0 THEN NoInfo ELSE TakeUnit(Search(frame)[i - 1], frame[i])
    BY <1>7
  <1>9. \A i \in 0 .. n : Search(frame)[i] \in Info
    <2> DEFINE Good == {i \in 0 .. n : Search(frame)[i] \in Info}
    <2>1. 0 \in Good /\ \A m \in 1 .. n : m - 1 \in Good => m \in Good
      BY <1>1, <1>2, <1>8, TakeUnitType
    <2>2. n \in Nat
      OBVIOUS
    <2> HIDE DEF Good, n
    <2>3. \A m \in 0 .. n : m \in Good
      BY <2>1, <2>2, Induction
    <2> QED BY <2>3 DEF Good
  <1> QED BY <1>8, <1>9

\* The search after n units: it has ended if there was a slice; if not, it is at the end
\* of unit n, and knows a parameter set that ends there; it has seen what there was, and
\* of each parameter set it has the last one, with its size once it knows the end of it.
SearchInv(frame, n, info) ==
    /\ info.done <=> \E i \in 1 .. n : frame[i].type \in Slices
    /\ ~info.done =>
          /\ info.at = Ends(frame)[n]
          /\ info.cur = IF n > 0 /\ frame[n].type \in ParameterSets THEN frame[n].type ELSE "none"
    /\ \A t \in ParameterSets \cup {"I"} :
          t \in info.types <=> \E i \in 1 .. n : frame[i].type = t
    /\ \A t \in ParameterSets, i \in 1 .. n :
          (frame[i].type = t /\ \A j \in 1 .. n : frame[j].type = t => j <= i) =>
              /\ info.offset[t] = Ends(frame)[i - 1]
              /\ info.len[t] = frame[i].size \/ (i = n /\ ~info.done)

LEMMA SearchStep ==
  ASSUME NEW frame, EncoderFrame(frame), NEW n \in 1 .. Len(frame), NEW info \in Info,
         SearchInv(frame, n - 1, info)
  PROVE  SearchInv(frame, n, TakeUnit(info, frame[n]))
  <1> DEFINE u == frame[n]
             next == TakeUnit(info, u)
             e == Ends(frame)
  <1>1. frame \in Seq(Unit) /\ n - 1 \in Nat /\ n \in Nat
    BY DEF EncoderFrame
  <1>2. \A i \in 1 .. n : frame[i] \in Unit /\ i \in DOMAIN frame
    BY <1>1
  <1>3. \A i \in 1 .. n : frame[i].type \in UnitType /\ frame[i].size \in Nat
    BY <1>2 DEF Unit
  <1>4. e \in [0 .. Len(frame) -> Nat] /\ e[n] = e[n - 1] + u.size
    BY <1>1, EndsUnfold
  <1>5. 1 .. n = (1 .. n - 1) \cup {n} /\ n \notin 1 .. n - 1
    OBVIOUS
  <1>6. CASE info.done
    <2>1. PICK s \in 1 .. n - 1 : frame[s].type \in Slices
      BY <1>6 DEF SearchInv
    <2>2. u.type \in {frame[s].type, "other"}
      BY <1>2, <1>5, <2>1 DEF EncoderFrame
    <2>3. next = info
      BY <1>6 DEF TakeUnit
    <2>4. u.type \notin ParameterSets
      BY <2>1, <2>2 DEF Slices, ParameterSets
    <2>5. u.type = "I" => \E i \in 1 .. n - 1 : frame[i].type = "I"
      BY <2>1, <2>2
    <2>6. next.done <=> \E i \in 1 .. n : frame[i].type \in Slices
      BY <1>5, <1>6, <2>1, <2>3
    <2>7. \A t \in ParameterSets \cup {"I"} : t \in next.types <=> \E i \in 1 .. n : frame[i].type = t
      BY <1>5, <2>3, <2>4, <2>5 DEF SearchInv
    <2>8. ASSUME NEW t \in ParameterSets, NEW i \in 1 .. n,
                 frame[i].type = t, \A j \in 1 .. n : frame[j].type = t => j <= i
          PROVE  next.offset[t] = e[i - 1] /\ next.len[t] = frame[i].size
      <3>1. i \in 1 .. n - 1 /\ \A j \in 1 .. n - 1 : frame[j].type = t => j <= i
        BY <1>5, <2>4, <2>8
      <3> QED BY <1>6, <2>3, <2>8, <3>1 DEF SearchInv
    <2> QED BY <1>6, <2>3, <2>6, <2>7, <2>8 DEF SearchInv
  <1>7. CASE ~info.done
    <2>1. /\ next.done = (u.type \in Slices)
          /\ next.types = IF u.type = "other" THEN info.types ELSE info.types \cup {u.type}
          /\ next.at = info.at + u.size
          /\ next.len = LenAt(info)
          /\ next.cur = IF u.type \in ParameterSets THEN u.type ELSE info.cur
          /\ next.offset = IF u.type \in ParameterSets
                             THEN [info.offset EXCEPT ![u.type] = info.at] ELSE info.offset
      BY <1>7 DEF TakeUnit, Info
    <2>2. /\ info.at = e[n - 1]
          /\ info.cur = IF n - 1 > 0 /\ frame[n - 1].type \in ParameterSets
                          THEN frame[n - 1].type ELSE "none"
          /\ \A i \in 1 .. n - 1 : frame[i].type \notin Slices
      BY <1>7 DEF SearchInv
    <2>3. next.done <=> \E i \in 1 .. n : frame[i].type \in Slices
      BY <1>5, <2>1, <2>2
    <2>4. next.at = e[n]
      BY <1>4, <2>1, <2>2
    <2>5. n - 1 > 0 /\ frame[n - 1].type \in ParameterSets => u.type \in ParameterSets \cup Slices
      <3>1. n - 1 > 0 => n - 1 \in DOMAIN frame
        BY <1>1
      <3>2. n - 1 > 0 /\ frame[n - 1].type \in ParameterSets =>
              frame[n - 1 + 1].type \in ParameterSets \cup Slices
        BY <3>1 DEF EncoderFrame
      <3>3. n - 1 + 1 = n
        BY <1>1
      <3> QED BY <3>2, <3>3
    <2>6. ~next.done => next.cur = IF n > 0 /\ frame[n].type \in ParameterSets
                                     THEN frame[n].type ELSE "none"
      <3>1. n > 0
        OBVIOUS
      <3> HIDE DEF next
      <3>2. CASE u.type \in ParameterSets
        BY <2>1, <3>1, <3>2
      <3>3. CASE u.type \notin ParameterSets
        BY <2>1, <2>2, <2>5, <3>3
      <3> QED BY <3>2, <3>3
    <2>7. \A t \in ParameterSets \cup {"I"} : t \in next.types <=> \E i \in 1 .. n : frame[i].type = t
      <3>1. \A t \in ParameterSets \cup {"I"} : t \in next.types <=> t \in info.types \/ u.type = t
        BY <2>1 DEF ParameterSets
      <3> QED BY <1>5, <3>1 DEF SearchInv
    <2>8. ASSUME NEW t \in ParameterSets, NEW i \in 1 .. n,
                 frame[i].type = t, \A j \in 1 .. n : frame[j].type = t => j <= i
          PROVE  /\ next.offset[t] = e[i - 1]
                 /\ next.len[t] = frame[i].size \/ (i = n /\ ~next.done)
      <3>1. CASE i = n
        <4>1. next.offset[t] = e[n - 1]
          BY <2>1, <2>2, <2>8, <3>1 DEF Info
        <4>2. ~next.done
          BY <2>1, <2>8, <3>1 DEF Slices, ParameterSets
        <4> QED BY <3>1, <4>1, <4>2
      <3>2. CASE i # n
        <4>1. i \in 1 .. n - 1 /\ u.type # t
          BY <1>5, <2>8, <3>2
        <4>2. info.offset[t] = e[i - 1] /\ (info.len[t] = frame[i].size \/ i = n - 1)
          BY <1>5, <1>7, <2>8, <4>1 DEF SearchInv
        <4>3. next.offset[t] = info.offset[t]
          BY <2>1, <4>1 DEF Info
        <4>4. CASE i = n - 1
          <5>1. info.cur = t /\ t # "none"
            BY <2>2, <2>8, <4>1, <4>4 DEF ParameterSets
          <5>2. next.len[t] = info.at - info.offset[t]
            BY <2>1, <5>1 DEF LenAt, Info
          <5>3. e[n - 1] = e[n - 2] + frame[n - 1].size
            <6>1. n - 1 \in 1 .. Len(frame) /\ n - 1 - 1 = n - 2
              BY <4>1, <4>4
            <6> QED BY <1>1, <6>1, EndsUnfold
          <5>4. next.len[t] = frame[i].size
            <6>1. i - 1 = n - 2 /\ n - 1 \in 1 .. n /\ n - 2 \in 0 .. Len(frame)
              BY <1>1, <4>1, <4>4
            <6>2. e[n - 2] \in Nat /\ frame[n - 1].size \in Nat
              BY <1>3, <1>4, <6>1
            <6> QED BY <2>2, <4>2, <4>4, <5>2, <5>3, <6>1, <6>2
          <5> QED BY <4>2, <4>3, <5>4
        <4>5. CASE i # n - 1
          <5>1. info.cur # t
            <6>1. n - 1 > 0 /\ frame[n - 1].type = t => n - 1 \in 1 .. n /\ n - 1 <= i
              BY <2>8
            <6> QED BY <2>2, <4>1, <4>5, <6>1 DEF ParameterSets
          <5>2. next.len[t] = info.len[t]
            BY <2>1, <5>1 DEF LenAt, Info
          <5> QED BY <4>2, <4>3, <4>5, <5>2
        <4> QED BY <4>4, <4>5
      <3> QED BY <3>1, <3>2
    <2> QED BY <2>3, <2>4, <2>6, <2>7, <2>8 DEF SearchInv
  <1> QED BY <1>6, <1>7

LEMMA SearchFinds ==
  ASSUME NEW frame, EncoderFrame(frame)
  PROVE  SearchInv(frame, Len(frame), Search(frame)[Len(frame)])
  <1> DEFINE n == Len(frame)
             Good == {m \in 0 .. n : SearchInv(frame, m, Search(frame)[m])}
  <1>1. frame \in Seq(Unit) /\ n \in Nat
    BY DEF EncoderFrame
  <1>2. 0 \in Good
    <2>1. Search(frame)[0] = NoInfo /\ Ends(frame)[0] = 0
      BY <1>1, SearchUnfold, EndsUnfold
    <2>2. 1 .. 0 = {}
      OBVIOUS
    <2> QED BY <1>1, <2>1, <2>2 DEF SearchInv, NoInfo
  <1>3. ASSUME NEW m \in 1 .. n, m - 1 \in Good PROVE m \in Good
    <2>1. Search(frame)[m] = TakeUnit(Search(frame)[m - 1], frame[m]) /\ Search(frame)[m - 1] \in Info
      BY <1>1, SearchUnfold
    <2> QED BY <1>3, <2>1, SearchStep
  <1>4. n \in Good
    <2>1. \A m \in 1 .. n : m - 1 \in Good => m \in Good
      BY <1>3
    <2> HIDE DEF Good, n
    <2>2. \A m \in 0 .. n : m \in Good
      BY <1>1, <1>2, <2>1, Induction
    <2> QED BY <1>1, <2>2
  <1> QED BY <1>4

\* What the search, or the look at the first unit, makes of a whole frame.
LEMMA ParseFinds ==
  ASSUME NEW frame, EncoderFrame(frame)
  PROVE  /\ ParseFrame(frame) \in Info
         /\ "I" \in ParseFrame(frame).types <=> KeyFrame(frame)
         /\ \A t \in ParameterSets :
               t \in ParseFrame(frame).types <=> \E i \in DOMAIN frame : frame[i].type = t
         /\ \A t \in ParameterSets, i \in DOMAIN frame :
               (frame[i].type = t /\ \A j \in DOMAIN frame : frame[j].type = t => j <= i) =>
                   /\ ParseFrame(frame).offset[t] = Offset(frame, i)
                   /\ ParseFrame(frame).len[t] = frame[i].size
  <1> DEFINE n == Len(frame)
  <1>1. frame \in Seq(Unit) /\ n \in Nat /\ DOMAIN frame = 1 .. n
    BY DEF EncoderFrame
  <1>2. PICK s \in DOMAIN frame : frame[s].type \in Slices
    BY DEF EncoderFrame
  <1>3. 1 \in DOMAIN frame /\ frame[1].type \in UnitType
    <2>1. 1 \in DOMAIN frame
      BY <1>1, <1>2
    <2>2. frame[1] \in Unit
      BY <1>1, <2>1
    <2> QED BY <2>1, <2>2 DEF Unit
  <1>4. CASE frame[1].type \in Slices
    <2> DEFINE type == frame[1].type
    <2>1. ParseFrame(frame) = [NoInfo EXCEPT !.types = {type}]
      BY <1>4 DEF ParseFrame
    <2>2. ParseFrame(frame) \in Info /\ ParseFrame(frame).types = {type}
      <3>1. {type} \in SUBSET UnitType
        BY <1>3
      <3> HIDE DEF type
      <3>2. NoInfo \in Info
        BY DEF NoInfo, Info
      <3> QED BY <2>1, <3>1, <3>2 DEF Info
    <2>3. \A i \in DOMAIN frame : frame[i].type \in {frame[1].type, "other"}
      <3> SUFFICES ASSUME NEW i \in DOMAIN frame PROVE frame[i].type \in {frame[1].type, "other"}
        OBVIOUS
      <3>1. i = 1 \/ 1 < i
        BY <1>1
      <3> QED BY <1>3, <1>4, <3>1 DEF EncoderFrame
    <2>4. \A i \in DOMAIN frame : frame[i].type \notin ParameterSets
      BY <1>4, <2>3 DEF Slices, ParameterSets
    <2>5. \A t \in ParameterSets : t # frame[1].type
      BY <1>4 DEF Slices, ParameterSets
    <2> QED BY <1>3, <2>2, <2>3, <2>4, <2>5 DEF KeyFrame
  <1>5. CASE frame[1].type \notin Slices
    <2>1. ParseFrame(frame) = Search(frame)[n]
      BY <1>5 DEF ParseFrame
    <2>2. ParseFrame(frame) \in Info
      BY <1>1, <2>1, SearchUnfold
    <2>3. SearchInv(frame, n, ParseFrame(frame))
      BY <2>1, SearchFinds
    <2>4. ParseFrame(frame).done
      BY <1>1, <1>2, <2>3 DEF SearchInv
    <2> QED BY <1>1, <2>2, <2>3, <2>4 DEF SearchInv, KeyFrame, Offset
  <1> QED BY <1>4, <1>5

Kept == [offset : Nat, size : Nat]

\* What the muxer keeps of each kind is the last of them in the frame, whole.
LEMMA KeepsLast ==
  ASSUME NEW frame, EncoderFrame(frame), NEW t \in ParameterSets, NEW before
  PROVE  Keep(ParseFrame(frame), t, before) = LastOf(frame, t, before)
  <1> DEFINE last == {i \in DOMAIN frame :
                        frame[i].type = t /\ \A j \in DOMAIN frame : frame[j].type = t => j <= i}
             kept == {i \in last : frame[i].size < ParameterRoom}
             info == ParseFrame(frame)
  <1>1. frame \in Seq(Unit) /\ DOMAIN frame = 1 .. Len(frame) /\ DOMAIN frame \subseteq Nat
    BY DEF EncoderFrame
  <1>2. \A i \in DOMAIN frame : frame[i].size \in Nat /\ frame[i].size > SyncWord
    <2>1. \A i \in DOMAIN frame : frame[i] \in Unit
      BY <1>1
    <2> QED BY <2>1 DEF Unit, SyncWord
  <1>3. CASE t \notin info.types
    <2>1. kept = {}
      BY <1>3, ParseFinds
    <2> HIDE DEF kept, info
    <2>2. Keep(info, t, before) = before
      BY <1>3 DEF Keep
    <2> QED BY <2>1, <2>2 DEF LastOf, kept, info
  <1>4. CASE t \in info.types
    <2>1. \E i \in DOMAIN frame : frame[i].type = t
      BY <1>4, ParseFinds
    <2>2. PICK i \in last : TRUE
      <3> DEFINE T == {Len(frame) - k : k \in {j \in DOMAIN frame : frame[j].type = t}}
      <3>1. T \subseteq Nat /\ T # {}
        BY <1>1, <2>1
      <3> HIDE DEF T
      <3>2. PICK m \in T : \A k \in T : m <= k
        BY <3>1, Smallest
      <3>3. PICK i \in DOMAIN frame : frame[i].type = t /\ m = Len(frame) - i
        BY DEF T
      <3>4. ASSUME NEW j \in DOMAIN frame, frame[j].type = t PROVE j <= i
        <4>1. Len(frame) - j \in T
          BY <3>4 DEF T
        <4>2. Len(frame) - i <= Len(frame) - j
          BY <3>2, <3>3, <4>1
        <4>3. Len(frame) \in Nat /\ i \in Nat /\ j \in Nat
          BY <1>1
        <4> QED BY <4>2, <4>3
      <3> QED BY <3>3, <3>4
    <2>3. \A j \in last : j = i
      BY <1>1, <2>2
    <2>4. info.offset[t] = Offset(frame, i) /\ info.len[t] = frame[i].size
      BY <2>2, ParseFinds
    <2>5. info.len[t] \in 1 .. (ParameterRoom - 1) <=> frame[i].size < ParameterRoom
      <3> HIDE DEF info
      <3> DEFINE size == frame[i].size
      <3>1. size \in Nat /\ size > 4 /\ info.len[t] = size
        BY <1>2, <2>2, <2>4 DEF SyncWord
      <3> HIDE DEF size
      <3>2. size \in 1 .. (ParameterRoom - 1) <=> size < ParameterRoom
        BY <3>1 DEF ParameterRoom
      <3> QED BY <3>1, <3>2 DEF size
    <2>6. CASE frame[i].size < ParameterRoom
      <3>1. kept = {i}
        BY <2>2, <2>3, <2>6
      <3>2. LastOf(frame, t, before) = [offset |-> Offset(frame, i), size |-> frame[i].size]
        <4> HIDE DEF kept
        <4>1. (CHOOSE k \in kept : TRUE) = i
          BY <3>1
        <4>2. LastOf(frame, t, before) =
                IF kept = {} THEN before
                ELSE LET k == CHOOSE k \in kept : TRUE
                     IN  [offset |-> Offset(frame, k), size |-> frame[k].size]
          BY DEF LastOf, kept
        <4> QED BY <3>1, <4>1, <4>2
      <3>3. Keep(info, t, before) = [offset |-> info.offset[t], size |-> info.len[t]]
        <4> HIDE DEF info
        <4> QED BY <1>4, <2>5, <2>6 DEF Keep
      <3> QED BY <2>4, <3>2, <3>3
    <2>7. CASE ~(frame[i].size < ParameterRoom)
      <3>1. kept = {}
        BY <2>3, <2>7
      <3>2. LastOf(frame, t, before) = before
        <4> HIDE DEF kept
        <4> QED BY <3>1 DEF LastOf, kept
      <3>3. Keep(info, t, before) = before
        <4> HIDE DEF info
        <4> QED BY <2>5, <2>7 DEF Keep
      <3> QED BY <3>2, <3>3
    <2> QED BY <2>6, <2>7
  <1> QED BY <1>3, <1>4

\* For every frame of the encoder, whatever the number and the sizes of its units, and
\* whatever the muxer has kept before, it keeps the last SPS and the last PPS that it has
\* room for, whole, and knows a key frame (ParseFrame and FLVMuxerFillVideo, mux.c).
THEOREM ParserReadsWell ==
  ASSUME NEW frame, EncoderFrame(frame), NEW mux \in [ParameterSets -> Kept]
  PROVE  ReadsWell(mux, frame)
  <1> DEFINE filled == FillVideo(mux, frame)
             wanted == [t \in ParameterSets |-> LastOf(frame, t, mux[t])]
  <1>1. "SPS" \in ParameterSets /\ "PPS" \in ParameterSets
    BY DEF ParameterSets
  <1>2. /\ filled.SPS = Keep(ParseFrame(frame), "SPS", mux.SPS)
        /\ filled.PPS = Keep(ParseFrame(frame), "PPS", mux.PPS)
        /\ filled.key = ("I" \in ParseFrame(frame).types)
    BY DEF FillVideo
  <1>3. filled.SPS = wanted["SPS"] /\ filled.PPS = wanted["PPS"]
    BY <1>1, <1>2, KeepsLast
  <1>4. filled.key <=> KeyFrame(frame)
    BY <1>2, ParseFinds
  <1> HIDE DEF filled, wanted
  <1>5. HeaderSize(filled) = wanted["SPS"].size + wanted["PPS"].size + VideoTag
    BY <1>3 DEF HeaderSize
  <1> QED BY <1>3, <1>4, <1>5 DEF ReadsWell, filled, wanted

\* The frames the runs try are frames of the encoder.
LEMMA UpToLength ==
  ASSUME NEW n \in Nat, NEW S, NEW s \in UpTo(n, S)
  PROVE  s \in Seq(S)
  <1> DEFINE F(m) == [1 .. m -> S]
  <1>1. s \in UNION {F(m) : m \in 0 .. n}
    BY DEF UpTo
  <1>2. \A m \in Nat : F(m) \subseteq Seq(S)
    OBVIOUS
  <1> HIDE DEF F
  <1>3. PICK m \in 0 .. n : s \in F(m)
    BY <1>1
  <1> QED BY <1>2, <1>3

LEMMA FramesAreEncoderFrames ==
  ASSUME NEW frame \in Frames
  PROVE  EncoderFrame(frame)
  <1>1. PICK others \in UpTo(2, Units({"other"})), sets \in UpTo(3, Units(ParameterSets)),
             slices \in SliceRuns :
               frame = others \o sets \o slices
    BY SMTT(30) DEF Frames
  <1>2. ASSUME NEW T \in SUBSET UnitType
        PROVE  Units(T) \subseteq Unit /\ \A u \in Units(T) : u.type \in T
    <2>1. ASSUME NEW t \in T PROVE \A u \in UnitsOf(t) : u \in Unit /\ u.type = t
      BY DEF UnitsOf, Unit, UnitType, SyncWord, ParameterRoom
    <2> QED BY <2>1 DEF Units
  <1> DEFINE a == Len(others)  b == Len(sets)  c == Len(slices)
  <1>3. others \in Seq(Units({"other"}))
    BY UpToLength
  <1>4. sets \in Seq(Units(ParameterSets))
    BY UpToLength
  <1>5. PICK t \in Slices : slices \in Seq(Units({t})) /\ slices # <<>>
    <2> DEFINE F(t) == UpTo(2, Units({t}))
    <2>1. slices \in UNION {F(t) : t \in Slices} /\ slices # <<>>
      BY DEF SliceRuns
    <2>2. \A t \in Slices : F(t) \subseteq Seq(Units({t}))
      BY UpToLength
    <2> HIDE DEF F
    <2> QED BY <2>1, <2>2
  <1>6. /\ \A i \in 1 .. a : others[i] \in Unit /\ others[i].type = "other"
        /\ \A i \in 1 .. b : sets[i] \in Unit /\ sets[i].type \in ParameterSets
        /\ \A i \in 1 .. c : slices[i] \in Unit /\ slices[i].type = t
    BY <1>2, <1>3, <1>4, <1>5 DEF UnitType
  <1>7. /\ others \in Seq(Unit) /\ sets \in Seq(Unit) /\ slices \in Seq(Unit)
        /\ a \in Nat /\ b \in Nat /\ c \in Nat \ {0}
    <2>1. /\ \A i \in DOMAIN others : others[i] \in Unit
          /\ \A i \in DOMAIN sets : sets[i] \in Unit
          /\ \A i \in DOMAIN slices : slices[i] \in Unit
      BY <1>3, <1>4, <1>5, <1>6
    <2>2. others \in Seq(Unit) /\ sets \in Seq(Unit) /\ slices \in Seq(Unit)
      BY <1>3, <1>4, <1>5, <2>1
    <2>3. c # 0
      BY <1>5
    <2> QED BY <2>2, <2>3
  <1>8. /\ frame \in Seq(Unit) /\ Len(frame) = a + b + c
        /\ \A i \in 1 .. a : frame[i] = others[i]
        /\ \A i \in (a + 1) .. (a + b) : frame[i] = sets[i - a]
        /\ \A i \in (a + b + 1) .. (a + b + c) : frame[i] = slices[i - (a + b)]
    BY <1>1, <1>7
  <1> HIDE DEF a, b, c
  <1>9. DOMAIN frame = 1 .. (a + b + c)
    BY <1>7, <1>8
  <1>10. /\ \A i \in 1 .. a : frame[i].type = "other"
         /\ \A i \in (a + 1) .. (a + b) : frame[i].type \in ParameterSets
         /\ \A i \in (a + b + 1) .. (a + b + c) : frame[i].type = t
    <2>1. \A i \in (a + 1) .. (a + b) : i - a \in 1 .. b
      BY <1>7
    <2>2. \A i \in (a + b + 1) .. (a + b + c) : i - (a + b) \in 1 .. c
      BY <1>7
    <2> QED BY <1>6, <1>8, <2>1, <2>2
  <1>11. \A i \in DOMAIN frame :
            i \in 1 .. a \/ i \in (a + 1) .. (a + b) \/ i \in (a + b + 1) .. (a + b + c)
    BY <1>7, <1>9
  <1>12. \A i \in DOMAIN frame : frame[i].type \in Slices => i \in (a + b + 1) .. (a + b + c)
    BY <1>10, <1>11 DEF Slices, ParameterSets
  <1>13. \E i \in DOMAIN frame : frame[i].type \in Slices
    <2>1. a + b + 1 \in (a + b + 1) .. (a + b + c) /\ a + b + 1 \in DOMAIN frame
      BY <1>7, <1>9
    <2> QED BY <1>10, <2>1
  <1>14. \A i, j \in DOMAIN frame :
            (frame[i].type \in Slices /\ i < j) => frame[j].type \in {frame[i].type, "other"}
    <2> SUFFICES ASSUME NEW i \in DOMAIN frame, NEW j \in DOMAIN frame, frame[i].type \in Slices, i < j
                 PROVE  frame[j].type = frame[i].type
      OBVIOUS
    <2>1. i \in (a + b + 1) .. (a + b + c)
      BY <1>12
    <2>2. j \in (a + b + 1) .. (a + b + c)
      BY <1>7, <1>9, <2>1
    <2> QED BY <1>10, <2>1, <2>2
  <1>15. \A i \in DOMAIN frame :
            frame[i].type \in ParameterSets => frame[i + 1].type \in ParameterSets \cup Slices
    <2> SUFFICES ASSUME NEW i \in DOMAIN frame, frame[i].type \in ParameterSets
                 PROVE  frame[i + 1].type \in ParameterSets \cup Slices
      OBVIOUS
    <2>1. i \in (a + 1) .. (a + b)
      BY <1>10, <1>11 DEF Slices, ParameterSets
    <2>2. i + 1 \in (a + 1) .. (a + b) \/ i + 1 \in (a + b + 1) .. (a + b + c)
      BY <1>7, <2>1
    <2> QED BY <1>10, <2>2
  <1> QED BY <1>8, <1>13, <1>14, <1>15 DEF EncoderFrame

\* What the muxer keeps when a packet has been made of the first frame, whichever it was,
\* are that frame's last parameter sets, so the header of a clip is made of whole units.
THEOREM ParametersAlwaysKept == Spec => []ParametersKept
  <1>1. ASSUME NEW frame \in Frames
        PROVE  ReadsWell([SPS |-> KeptBefore, PPS |-> KeptBefore], frame)
    <2>1. [SPS |-> KeptBefore, PPS |-> KeptBefore] \in [ParameterSets -> Kept]
      BY DEF KeptBefore, ParameterSets, Kept
    <2> QED BY <2>1, FramesAreEncoderFrames, ParserReadsWell
  <1>2. ParametersKept
    BY <1>1 DEF ParametersKept
  <1> QED BY <1>2, PTL

-----------------------------------------------------------------------------
(* The bytes: curSize counts what is there, and every copy has room.       *)

Tag == Packet \cup {AvcHeader}

LEMMA TagSize ==
  ASSUME NEW s \in Seq(Tag)
  PROVE  \A i \in 1 .. Len(s) : Size(s[i]) \in Nat
  <1>1. \A i \in 1 .. Len(s) : s[i] \in Tag
    OBVIOUS
  <1>2. \A t \in Tag : Size(t) \in Nat
    BY SizeAssumption DEF Tag, AvcHeader, Packet, Size
  <1> QED BY <1>1, <1>2

\* The size of a list is the last of its running sums.
LEMMA SizeUnfold ==
  ASSUME NEW s \in Seq(Tag)
  PROVE  \E g \in [0 .. Len(s) -> Nat] :
            /\ g[0] = 0
            /\ \A i \in 1 .. Len(s) : g[i] = g[i - 1] + Size(s[i])
            /\ SizeOf(s) = g[Len(s)]
  <1> DEFINE n == Len(s)
             Def(g) == [i \in 0 .. n |-> IF i = 0 THEN 0 ELSE g[i - 1] + Size(s[i])]
             step == [q \in Nat \X (1 .. n) |-> q[1] + Size(s[q[2]])]
             sums == CHOOSE g : g = Def(g)
  <1>1. n \in Nat /\ \A i \in 1 .. n : Size(s[i]) \in Nat
    BY TagSize, LenProperties
  <1> HIDE DEF n
  <1>2. step \in [Nat \X (1 .. n) -> Nat]
    BY <1>1
  <1>3. PICK g \in [0 .. n -> Nat] : Follows(g, 0, step, n)
    <2>1. 0 \in Nat
      OBVIOUS
    <2> HIDE DEF step
    <2> QED BY <1>1, <1>2, <2>1, Recursion
  <1>4. \A i \in 1 .. n : step[<<g[i - 1], i>>] = g[i - 1] + Size(s[i])
    <2>1. \A i \in 1 .. n : i - 1 \in 0 .. n /\ g[i - 1] \in Nat
      BY <1>1, <1>3
    <2> QED BY <2>1
  <1>5. g = Def(g)
    <2>1. \A i \in 0 .. n : i # 0 => i \in 1 .. n
      OBVIOUS
    <2> HIDE DEF step
    <2> QED BY <1>3, <1>4, <2>1 DEF Follows
  <1>6. sums = Def(sums)
    <2> HIDE DEF Def
    <2> QED BY <1>5
  <1>7. SizeOf(s) = sums[n]
    BY DEF SizeOf, n
  <1> HIDE DEF sums, step
  <1>8. /\ \A i \in 0 .. n : sums[i] = IF i = 0 THEN 0 ELSE sums[i - 1] + Size(s[i])
        /\ sums = [i \in 0 .. n |-> sums[i]]
    BY <1>6
  <1>9. \A i \in 0 .. n : sums[i] \in Nat
    <2> DEFINE Good == {i \in 0 .. n : sums[i] \in Nat}
    <2>1. 0 \in Good
      <3>1. 0 \in 0 .. n
        BY <1>1
      <3>2. sums[0] = 0
        BY <1>8, <3>1
      <3> QED BY <3>1, <3>2
    <2>2. ASSUME NEW m \in 1 .. n, m - 1 \in Good PROVE m \in Good
      <3>1. m \in 0 .. n /\ m # 0 /\ sums[m - 1] \in Nat
        BY <1>1, <2>2
      <3>2. sums[m] = sums[m - 1] + Size(s[m]) /\ Size(s[m]) \in Nat
        BY <1>1, <1>8, <3>1
      <3> QED BY <3>1, <3>2
    <2> HIDE DEF Good
    <2>3. \A m \in 0 .. n : m \in Good
      BY <1>1, <2>1, <2>2, Induction
    <2> QED BY <2>3 DEF Good
  <1>10. 0 \in 0 .. n /\ \A i \in 1 .. n : i \in 0 .. n /\ i # 0
    BY <1>1
  <1>11. sums[0] = 0 /\ \A i \in 1 .. n : sums[i] = sums[i - 1] + Size(s[i])
    BY <1>8, <1>10
  <1>12. sums \in [0 .. n -> Nat]
    BY <1>8, <1>9
  <1> QED BY <1>7, <1>11, <1>12 DEF n

LEMMA SizeConcat ==
  ASSUME NEW s \in Seq(Tag), NEW t \in Seq(Tag)
  PROVE  SizeOf(s) \in Nat /\ SizeOf(t) \in Nat /\ SizeOf(s \o t) = SizeOf(s) + SizeOf(t)
  <1> DEFINE a == Len(s)
             b == Len(t)
             both == s \o t
  <1>1. a \in Nat /\ b \in Nat /\ both \in Seq(Tag) /\ Len(both) = a + b
        /\ \A i \in 1 .. a + b : both[i] = IF i <= a THEN s[i] ELSE t[i - a]
    BY ConcatProperties, LenProperties
  <1>2. PICK f \in [0 .. a -> Nat] :
            f[0] = 0 /\ (\A i \in 1 .. a : f[i] = f[i - 1] + Size(s[i])) /\ SizeOf(s) = f[a]
    BY SizeUnfold
  <1>3. PICK g \in [0 .. b -> Nat] :
            g[0] = 0 /\ (\A i \in 1 .. b : g[i] = g[i - 1] + Size(t[i])) /\ SizeOf(t) = g[b]
    BY SizeUnfold
  <1> HIDE DEF a, b, both
  <1>4. PICK h \in [0 .. a + b -> Nat] :
            /\ h[0] = 0
            /\ \A i \in 1 .. a + b : h[i] = h[i - 1] + Size(both[i])
            /\ SizeOf(both) = h[a + b]
    BY <1>1, SizeUnfold
  <1>5. \A i \in 0 .. a : h[i] = f[i]
    <2> DEFINE Good == {i \in 0 .. a : h[i] = f[i]}
    <2>1. 0 \in Good
      BY <1>1, <1>2, <1>4
    <2>2. ASSUME NEW m \in 1 .. a, m - 1 \in Good PROVE m \in Good
      <3>1. m \in 1 .. a + b /\ m <= a
        BY <1>1
      <3>2. both[m] = s[m]
        BY <1>1, <3>1
      <3> QED BY <1>2, <1>4, <2>2, <3>1, <3>2
    <2> HIDE DEF Good
    <2>3. \A i \in 0 .. a : i \in Good
      BY <1>1, <2>1, <2>2, Induction
    <2> QED BY <2>3 DEF Good
  <1>6. \A j \in 0 .. b : h[a + j] = f[a] + g[j]
    <2> DEFINE Good == {j \in 0 .. b : h[a + j] = f[a] + g[j]}
    <2>1. 0 \in Good
      <3>1. h[a] = f[a] /\ f[a] \in Nat /\ a + 0 = a
        BY <1>1, <1>2, <1>5
      <3> QED BY <1>1, <1>3, <3>1
    <2>2. ASSUME NEW m \in 1 .. b, m - 1 \in Good PROVE m \in Good
      <3>1. a + m \in 1 .. a + b /\ ~(a + m <= a)
            /\ (a + m) - a = m /\ (a + m) - 1 = a + (m - 1)
        BY <1>1
      <3>2. both[a + m] = t[m]
        BY <1>1, <3>1
      <3>3. h[a + m] = h[a + (m - 1)] + Size(t[m])
        BY <1>4, <3>1, <3>2
      <3>4. h[a + (m - 1)] = f[a] + g[m - 1] /\ g[m] = g[m - 1] + Size(t[m])
        BY <1>3, <2>2
      <3>5. f[a] \in Nat /\ g[m - 1] \in Nat
        <4>1. m - 1 \in 0 .. b /\ a \in 0 .. a
          BY <1>1
        <4> QED BY <1>2, <1>3, <4>1
      <3>6. Size(t[m]) \in Nat
        BY TagSize DEF b
      <3>7. h[a + m] = f[a] + g[m]
        BY <3>3, <3>4, <3>5, <3>6
      <3> QED BY <3>7
    <2> HIDE DEF Good
    <2>3. \A j \in 0 .. b : j \in Good
      BY <1>1, <2>1, <2>2, Induction
    <2> QED BY <2>3 DEF Good
  <1>7. h[a + b] = f[a] + g[b]
    BY <1>1, <1>6
  <1> QED BY <1>1, <1>2, <1>3, <1>4, <1>7 DEF both

LEMMA SizeOfNothing == SizeOf(<<>>) = 0
  <1>1. <<>> \in Seq(Tag)
    BY EmptySeq
  <1>2. <<>> \o <<>> = <<>>
    BY <1>1, ConcatEmptySeq
  <1>3. SizeOf(<<>>) \in Nat /\ SizeOf(<<>>) = SizeOf(<<>>) + SizeOf(<<>>)
    BY <1>1, <1>2, SizeConcat
  <1> QED BY <1>3

LEMMA SizeAppended ==
  ASSUME NEW s \in Seq(Tag), NEW tag \in Tag
  PROVE  SizeOf(Append(s, tag)) = SizeOf(s) + Size(tag)
  <1> DEFINE one == <<tag>>
  <1>1. one \in Seq(Tag) /\ Len(one) = 1 /\ one[1] = tag
    OBVIOUS
  <1> HIDE DEF one
  <1>2. PICK g \in [0 .. 1 -> Nat] :
            g[0] = 0 /\ (\A i \in 1 .. 1 : g[i] = g[i - 1] + Size(one[i])) /\ SizeOf(one) = g[1]
    BY <1>1, SizeUnfold
  <1>3. SizeOf(one) = Size(tag)
    <2>1. Size(one[1]) \in Nat
      BY <1>1, TagSize
    <2>2. g[1] = g[1 - 1] + Size(one[1])
      BY <1>2
    <2> QED BY <1>1, <1>2, <2>1, <2>2
  <1>4. Append(s, tag) = s \o one
    BY AppendIsConcat DEF one
  <1> QED BY <1>1, <1>3, <1>4, SizeConcat

\* What the search passes over does not count.
LEMMA SizeSuffix ==
  ASSUME NEW s \in Seq(Tag), NEW k \in 1 .. Len(s)
  PROVE  SizeOf(SubSeq(s, k, Len(s))) <= SizeOf(s)
  <1> DEFINE u == SubSeq(s, 1, k - 1)
             v == SubSeq(s, k, Len(s))
  <1>1. Len(s) \in Nat /\ \A i \in 1 .. Len(s) : s[i] \in Tag
    BY LenProperties
  <1>2. u \in Seq(Tag) /\ v \in Seq(Tag)
    <2>1. (\A i \in 1 .. k - 1 : s[i] \in Tag) /\ (\A i \in k .. Len(s) : s[i] \in Tag)
      BY <1>1
    <2> QED BY <1>1, <2>1, SubSeqProperties
  <1>3. u \o v = s
    <2>1. 1 \in 1 .. Len(s) + 1 /\ k - 1 \in (1 - 1) .. Len(s) /\ Len(s) \in (k - 1) .. Len(s)
          /\ (k - 1) + 1 = k
      BY <1>1
    <2>2. SubSeq(s, 1, k - 1) \o SubSeq(s, (k - 1) + 1, Len(s)) = SubSeq(s, 1, Len(s))
      BY <2>1, ConcatAdjacentSubSeq
    <2> QED BY <2>1, <2>2, SubSeqFull
  <1> HIDE DEF u, v
  <1>4. SizeOf(s) = SizeOf(u) + SizeOf(v) /\ SizeOf(u) \in Nat /\ SizeOf(v) \in Nat
    BY <1>2, <1>3, SizeConcat
  <1>5. SizeOf(v) <= SizeOf(s)
    BY <1>4
  <1> QED BY <1>5 DEF v

\* curSize is the size of the packets in a half.
SizesCounted == \A h \in Halves : half[h].curSize = SizeOf(half[h].tags)

\* The third buffer is as large as a half, and what is written comes from it.
CopiesFit == SizeOf(temp) <= HalfRoom /\ SizeOf(out) <= HalfRoom

\* f_mem_write has room for all it takes.
FileFits == Recorded = {} \/ SizeOf(clip) <= ClipRoom

BytesFit == SizesCounted /\ CopiesFit /\ FileFits

LEMMA PacketsAreTags ==
  ASSUME NEW s \in Seq(Packet)
  PROVE  s \in Seq(Tag) /\ SizeOf(s) \in Nat
  <1>1. s \in Seq(Tag)
    BY SeqMonotonic DEF Tag
  <1> QED BY <1>1, SizeConcat

LEMMA BytesInit == Init => BytesFit
  <1> SUFFICES ASSUME Init PROVE BytesFit
    OBVIOUS
  <1>1. SizesCounted
    BY SizeOfNothing DEF Init, SizesCounted, EmptyHalf
  <1>2. CopiesFit
    BY SizeOfNothing, SizeAssumption DEF Init, CopiesFit
  <1>3. FileFits
    BY DEF Init, FileFits, Recorded
  <1> QED BY <1>1, <1>2, <1>3 DEF BytesFit

\* Switching or emptying a half leaves a right count right.
LEMMA EmptiedStaysCounted ==
  ASSUME SizesCounted, NEW T \in SUBSET Halves,
         \A h \in Halves : half'[h] = IF h \in T THEN EmptyHalf ELSE half[h]
  PROVE  SizesCounted'
  BY SizeOfNothing DEF SizesCounted, EmptyHalf

LEMMA PushDataCounts ==
  ASSUME BufferInv, SizesCounted, NEW p \in Producers, PushData(p)
  PROVE  SizesCounted'
  <1>1. packet[p] \in Packet /\ wPos \in Halves
    BY DEF BufferInv, TypeOK, HolderPushes, PushData
  <1>2. half[wPos].tags \in Seq(Packet) /\ half \in [Halves -> [tags : Seq(Packet), curSize : Nat]]
    BY <1>1 DEF BufferInv, TypeOK
  <1>3. SizeOf(Append(half[wPos].tags, packet[p])) = SizeOf(half[wPos].tags) + Size(packet[p])
    BY <1>1, <1>2, PacketsAreTags, SizeAppended DEF Tag
  <1>4. half'[wPos].tags = Append(half[wPos].tags, packet[p])
        /\ half'[wPos].curSize = half[wPos].curSize + Size(packet[p])
        /\ \A h \in Halves : h # wPos => half'[h] = half[h]
    BY <1>1, <1>2 DEF PushData
  <1> QED BY <1>1, <1>3, <1>4 DEF SizesCounted

LEMMA WriteClipFits ==
  ASSUME BufferInv, BytesFit, NEW someDuration \in BOOLEAN, WriteClip(someDuration)
  PROVE  FileFits'
  <1>1. CASE SizeOf(clip) + SizeOf(out) <= ClipRoom
    <2>1. clip \in Seq(Tag) /\ out \in Seq(Packet)
      BY DEF BufferInv, TypeOK, Tag
    <2>2. SizeOf(clip \o out) = SizeOf(clip) + SizeOf(out)
      BY <2>1, PacketsAreTags, SizeConcat
    <2>3. clip' = clip \o out
      BY <1>1 DEF WriteClip
    <2> QED BY <1>1, <2>2, <2>3 DEF FileFits
  <1>2. CASE ~(SizeOf(clip) + SizeOf(out) <= ClipRoom)
    <2>1. clip' = clip
      BY <1>2 DEF WriteClip
    <2> QED BY <2>1 DEF BytesFit, FileFits, Recorded
  <1> QED BY <1>1, <1>2

\* A copy is of a whole half or of none.
LEMMA CopyHalfFits ==
  ASSUME BufferInv, BytesFit, CopyHalf
  PROVE  CopiesFit'
  <1>1. SizeOf(half[rPos].tags) <= HalfRoom
    BY DEF BufferInv, TypeOK, NothingOverrun, BytesFit, SizesCounted
  <1>2. temp' = half[rPos].tags \/ temp' = temp
    BY DEF CopyHalf
  <1>3. SizeOf(out') <= HalfRoom
    BY SizeOfNothing, SizeAssumption DEF CopyHalf
  <1> QED BY <1>1, <1>2, <1>3 DEF BytesFit, CopiesFit

LEMMA SearchFits ==
  ASSUME BufferInv, BytesFit, SearchIFrame
  PROVE  CopiesFit'
  <1>1. CASE out' = out
    BY <1>1 DEF SearchIFrame, BytesFit, CopiesFit
  <1>2. ASSUME NEW i \in DOMAIN temp, out' = SubSeq(temp, i, Len(temp))
        PROVE  CopiesFit'
    <2>1. temp \in Seq(Packet) /\ i \in 1 .. Len(temp)
      BY LenProperties DEF BufferInv, TypeOK
    <2>2. out' \in Seq(Packet)
      BY <1>2, <2>1, SuffixType
    <2>3. SizeOf(out') <= SizeOf(temp)
      BY <1>2, <2>1, PacketsAreTags, SizeSuffix
    <2>4. SizeOf(out') \in Nat /\ SizeOf(temp) \in Nat /\ HalfRoom \in Nat
      BY <2>1, <2>2, PacketsAreTags, SizeAssumption
    <2>5. SizeOf(temp) <= HalfRoom /\ temp' = temp
      BY DEF BytesFit, CopiesFit, SearchIFrame
    <2>6. SizeOf(out') <= HalfRoom
      BY <2>3, <2>4, <2>5
    <2> QED BY <2>5, <2>6 DEF CopiesFit
  <1> QED BY <1>1, <1>2 DEF SearchIFrame

LEMMA BytesNext == BufferInv /\ BytesFit /\ [Next]_vars => BytesFit'
  <1> SUFFICES ASSUME BufferInv, BytesFit, [Next]_vars PROVE BytesFit'
    OBVIOUS
  <1>1. half' = half => SizesCounted'
    BY DEF BytesFit, SizesCounted
  <1>2. temp' = temp /\ out' = out => CopiesFit'
    BY DEF BytesFit, CopiesFit
  <1>3. clip' = clip => FileFits'
    BY DEF BytesFit, FileFits, Recorded
  <1>4. SizeOf(<<>>) <= HalfRoom
    BY SizeOfNothing, SizeAssumption
  <1>5. ASSUME NEW p \in Producers, NEW key \in BOOLEAN, NEW tsReset \in BOOLEAN, Mux(p, key, tsReset)
        PROVE  BytesFit'
    BY <1>1, <1>2, <1>3, <1>5 DEF Mux, recorderVars, BytesFit
  <1>6. ASSUME NEW p \in Producers, ResetAll(p)
        PROVE  BytesFit'
    <2>1. \A h \in Halves : half'[h] = EmptyHalf
      BY <1>6 DEF ResetAll
    <2>2. SizesCounted'
      BY <2>1, EmptiedStaysCounted DEF BytesFit
    <2>3. temp' = <<>> /\ out' = out /\ clip' = clip
      BY <1>6 DEF ResetAll, recorderVars
    <2>4. CopiesFit'
      BY <1>4, <2>3 DEF BytesFit, CopiesFit
    <2> QED BY <1>3, <2>2, <2>3, <2>4 DEF BytesFit
  <1>7. ASSUME NEW p \in Producers, NEW longEnough \in BOOLEAN, PrepareSize(p, longEnough)
        PROVE  BytesFit'
    <2>1. temp' = temp /\ out' = out /\ clip' = clip
      BY <1>7 DEF PrepareSize, recorderVars
    <2>2. half' = half \/ half' = [half EXCEPT ![Other(wPos)] = EmptyHalf]
      BY <1>7 DEF PrepareSize
    <2>3. ASSUME half' = [half EXCEPT ![Other(wPos)] = EmptyHalf]
          PROVE  SizesCounted'
      <3>1. DOMAIN half = Halves /\ Other(wPos) \in Halves
        BY DEF BufferInv, TypeOK, Other, Halves
      <3>2. \A h \in Halves : half'[h] = IF h \in {Other(wPos)} THEN EmptyHalf ELSE half[h]
        BY <2>3, <3>1
      <3> QED BY <3>1, <3>2, EmptiedStaysCounted DEF BytesFit
    <2> QED BY <1>1, <1>2, <1>3, <2>1, <2>2, <2>3 DEF BytesFit
  <1>8. ASSUME NEW p \in Producers, PushData(p)
        PROVE  BytesFit'
    <2>1. SizesCounted'
      BY <1>8, PushDataCounts DEF BytesFit
    <2> QED BY <1>2, <1>3, <1>8, <2>1 DEF PushData, recorderVars, BytesFit
  <1>9. CASE StartRecording \/ WriteHeader
    <2>1. FileFits'
      BY <1>9, NewClipEmpty DEF FileFits, Recorded
    <2> QED BY <1>1, <1>2, <1>9, <2>1 DEF StartRecording, WriteHeader, BytesFit
  <1>10. CASE CopyHalf
    BY <1>1, <1>3, <1>10, CopyHalfFits DEF CopyHalf, BytesFit
  <1>11. CASE SearchIFrame
    BY <1>1, <1>3, <1>11, SearchFits DEF SearchIFrame, BytesFit
  <1>12. CASE TakeSize
    <2>1. temp' = temp /\ out' \in {<<>>, temp, out}
      BY <1>12 DEF TakeSize
    <2>2. CopiesFit'
      BY <1>4, <2>1 DEF BytesFit, CopiesFit
    <2> QED BY <1>1, <1>3, <1>12, <2>2 DEF TakeSize, BytesFit
  <1>13. ASSUME NEW someDuration \in BOOLEAN, WriteClip(someDuration)
         PROVE  BytesFit'
    <2>1. CopiesFit'
      BY <1>4, <1>13 DEF WriteClip, BytesFit, CopiesFit
    <2> QED BY <1>1, <1>13, <2>1, WriteClipFits DEF WriteClip, BytesFit
  <1>14. CASE NextRound \/ EnoughRecorded \/ CloseClip \/ TimeRunsOver \/ UNCHANGED vars
    <2>1. half' = half /\ temp' = temp /\ out' = out /\ clip' = clip
      BY <1>14 DEF NextRound, EnoughRecorded, CloseClip, TimeRunsOver, vars, recorderVars
    <2> QED BY <1>1, <1>2, <1>3, <2>1 DEF BytesFit
  <1>15. (\E p \in Producers : Produce(p)) => BytesFit'
    BY <1>5, <1>6, <1>7, <1>8 DEF Produce
  <1>16. Record => BytesFit'
    BY <1>9, <1>10, <1>11, <1>12, <1>13, <1>14 DEF Record, Flush
  <1> QED BY <1>9, <1>14, <1>15, <1>16 DEF Next

\* The counts the checks for room look at are the sizes of what is there, after any switches,
\* resets and overwritten halves; so no copy into a half, into the third buffer or into the
\* file goes beyond its end.
THEOREM EveryCopyFits == Spec => [](BytesFit /\ NothingOverrun)
  <1>1. BufferInv => NothingOverrun
    BY DEF BufferInv
  <1> QED BY <1>1, BytesInit, BytesNext, Invariant, PTL DEF Spec
=============================================================================
