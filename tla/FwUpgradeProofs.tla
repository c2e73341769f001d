-------------------------- MODULE FwUpgradeProofs ---------------------------
(***************************************************************************)
(* The firmware upgrade, proved for every set of images of every length,   *)
(* every rx ring, every power cut and every answer of the flash.           *)
(***************************************************************************)
EXTENDS FwUpgrade, TLAPS

-----------------------------------------------------------------------------
(* Packets and what is received of them                                    *)

\* Taking the oldest packet out of the ring gives a packet and leaves packets.
LEMMA ReceivedIsPacket ==
  ASSUME TypeOK, inbox # << >>
  PROVE  /\ Received \in Packet
         /\ Tail(inbox) \in Seq(Packet)
         /\ Len(Tail(inbox)) <= InboxSize
BY InboxAssumption DEF TypeOK, Received

\* A data packet has a place within its image; a digest is an image's.
LEMMA PacketImage ==
  ASSUME NEW p \in Packet
  PROVE  p.img \in Images /\ (IsData(p) => p.pos \in 0..(Len(p.img) - 1))
<1> DEFINE DataOf(img) == [kind : {"data"}, img : {img}, pos : 0..(Len(img) - 1)]
<1>1. CASE p \in [kind : {"digest"}, img : Images]
  BY <1>1 DEF IsData
<1>2. ASSUME NEW img \in Images, p \in DataOf(img)
      PROVE  p.img \in Images /\ p.pos \in 0..(Len(p.img) - 1)
  BY <1>2
<1>3. CASE p \in UNION {DataOf(img) : img \in Images}
  <2>1. \E img \in Images : p \in DataOf(img)
    BY <1>3, Zenon
  <2>2. QED
    BY <2>1, <1>2
<1>4. \/ p \in UNION {DataOf(img) : img \in Images}
      \/ p \in [kind : {"digest"}, img : Images]
  BY Zenon DEF Packet
<1>5. QED
  BY <1>1, <1>3, <1>4, Zenon

\* A packet at the right position brings one more chunk of its image, and the image
\* has room for it.
LEMMA SavedIsLonger ==
  ASSUME TypeOK, inbox # << >>, RightPosition
  PROVE  /\ Received.img \in Images
         /\ Received.pos = Len(binary)
         /\ Len(binary) + 1 \in DOMAIN Received.img
         /\ Saved = Append(binary, Received.img[Len(binary) + 1])
         /\ Saved \in Seq(Chunk \cup {Junk})
         /\ Len(Saved) = Len(binary) + 1
         /\ Len(Saved) <= Len(Received.img)
         /\ Len(Received.img) \in Nat
<1>1. Received \in Packet
  BY ReceivedIsPacket
<1>2. Received.img \in Images /\ Received.pos \in 0..(Len(Received.img) - 1)
  BY <1>1, PacketImage DEF RightPosition
<1>3. Received.pos = Len(binary)
  BY DEF RightPosition
<1>4. Received.img \in Seq(Chunk)
  BY <1>2, ImagesAssumption
<1>5. Len(binary) + 1 \in 1..Len(Received.img)
  BY <1>2, <1>3, <1>4 DEF TypeOK
<1>6. Received.img[Len(binary) + 1] \in Chunk
  BY <1>4, <1>5
<1>7. QED
  BY <1>2, <1>3, <1>4, <1>5, <1>6 DEF TypeOK, Saved

\* What the board is after a reset.
LEMMA ResetTypes ==
  ASSUME Reset
  PROVE  /\ state' = "INIT" /\ binary' = << >> /\ room' = 0 /\ inbox' = << >>
         /\ ota' = "idle" /\ otaOk' = FALSE /\ watchdog' = FALSE
         /\ binary' \in Seq(Chunk \cup {Junk}) /\ Len(binary') = 0
         /\ inbox' \in Seq(Packet) /\ Len(inbox') = 0
BY DEF Reset

\* Writing over what lies past the buffer keeps the length, the rest, and everything
\* else.
LEMMA OverwriteKeeps ==
  ASSUME TypeOK, Overwrite
  PROVE  /\ binary' \in Seq(Chunk \cup {Junk})
         /\ Len(binary') = Len(binary)
         /\ \A i \in 1..Len(binary) : i <= room => binary'[i] = binary[i]
         /\ room < Len(binary)
         /\ UNCHANGED <<state, room, inbox, ota, otaOk, watchdog, told, flash>>
<1>1. PICK k \in (room + 1)..Len(binary) : binary' = [binary EXCEPT ![k] = Junk]
  BY DEF Overwrite
<1>2. QED
  BY <1>1 DEF TypeOK, Overwrite

-----------------------------------------------------------------------------
(* Type correctness                                                        *)

\* State, partitions and the image in memory stay what they are declared to be; what
\* is in memory never outgrows the longest image.
THEOREM TypeCorrect == Spec => []TypeOK
<1>1. Init => TypeOK
  <2>1. << >> \in Seq(Chunk \cup {Junk}) /\ << >> \in Seq(Packet)
    OBVIOUS
  <2>2. Len(<< >>) = 0 /\ 0 <= InboxSize
    BY InboxAssumption
  <2>3. 0 \in Nat /\ FALSE \in BOOLEAN
    OBVIOUS
  <2>4. QED
    BY <2>1, <2>2, <2>3, Zenon DEF Init, TypeOK
<1>2. TypeOK /\ [Next]_vars => TypeOK'
  <2> SUFFICES ASSUME TypeOK, [Next]_vars
               PROVE  TypeOK'
    OBVIOUS
  <2> USE InboxAssumption DEF flash, task
  <2>1. ASSUME NEW p \in Packet, Send(p)
        PROVE  TypeOK'
    BY <2>1 DEF TypeOK, Send
  <2>2. ASSUME Reset, told' \in {"nothing", "position", "stop", "done"},
               UNCHANGED flash
        PROVE  TypeOK'
    BY <2>2, ResetTypes DEF TypeOK
  <2>3. CASE PowerCut \/ WatchdogFires
    BY <2>3, <2>2 DEF PowerCut, WatchdogFires
  <2>4. StopAndReset => TypeOK'
    BY <2>2 DEF StopAndReset, PositionOver, StopNotification
  <2>5. CASE ReceiveFirst
    <3>1. /\ Saved \in Seq(Chunk \cup {Junk})
          /\ Received.img \in Images /\ Len(Saved) <= Len(Received.img)
          /\ Len(Received.img) \in Nat
      BY <2>5, SavedIsLonger DEF ReceiveFirst
    <3>2. Tail(inbox) \in Seq(Packet) /\ Len(Tail(inbox)) <= InboxSize
      BY <2>5, ReceivedIsPacket DEF ReceiveFirst
    <3>3. QED
      BY <2>5, <3>1, <3>2 DEF ReceiveFirst, TypeOK
  <2>6. CASE ReceiveNext
    <3>1. /\ Saved \in Seq(Chunk \cup {Junk})
          /\ Received.img \in Images /\ Len(Saved) <= Len(Received.img)
          /\ Len(Received.img) \in Nat
      BY <2>6, SavedIsLonger DEF ReceiveNext
    <3>2. Tail(inbox) \in Seq(Packet) /\ Len(Tail(inbox)) <= InboxSize
      BY <2>6, ReceivedIsPacket DEF ReceiveNext
    <3>3. QED
      BY <2>6, <3>1, <3>2 DEF ReceiveNext, TypeOK
  <2>7. CASE ReceiveDigest
    <3>1. Tail(inbox) \in Seq(Packet) /\ Len(Tail(inbox)) <= InboxSize
      BY <2>7, ReceivedIsPacket DEF ReceiveDigest
    <3>2. QED
      BY <2>7, <3>1 DEF ReceiveDigest, TypeOK
  <2>8. CASE ReceiveWrong
    BY <2>8, <2>4 DEF ReceiveWrong
  <2>9. CASE EraseUpflag
    BY <2>9 DEF EraseUpflag, Refused, TypeOK
  <2>10. CASE BeginBurn
    BY <2>10 DEF BeginBurn, Refused, TypeOK
  <2>11. CASE EndBurn
    BY <2>11 DEF EndBurn, TypeOK
  <2>12. CASE FinishUpflag
    BY <2>12 DEF FinishUpflag, Refused, TypeOK
  <2>13. CASE NotifyDone
    BY <2>13 DEF NotifyDone, TypeOK
  <2>14. CASE ReturnFromVerify
    <3>1. CASE otaOk
      BY <2>14, <3>1 DEF ReturnFromVerify, TypeOK
    <3>2. CASE ~otaOk
      BY <2>14, <3>2, <2>4 DEF ReturnFromVerify
    <3>3. QED
      BY <3>1, <3>2
  <2>15. CASE EraseUnseen \/ BurnUnseen \/ FinishUnseen
    BY <2>15 DEF EraseUnseen, BurnUnseen, FinishUnseen, TypeOK
  <2>16. CASE Overwrite
    <3>1. binary # << >>
      BY <2>16, OverwriteKeeps DEF TypeOK
    <3>2. QED
      BY <2>16, <3>1, OverwriteKeeps DEF TypeOK
  <2>17. CASE UNCHANGED vars
    BY <2>17 DEF vars, ram, TypeOK
  <2>18. QED
    BY <2>1, <2>3, <2>5, <2>6, <2>7, <2>8, <2>9, <2>10, <2>11, <2>12, <2>13, <2>14, <2>15,
       <2>16, <2>17
    DEF Next, FwupgradeTask
<1>3. QED
  BY <1>1, <1>2, PTL DEF Spec

-----------------------------------------------------------------------------
(* The image in memory                                                     *)

\* In INIT nothing is in memory.
EmptyAtFirst == state = "INIT" => binary = << >>

\* What a first packet finds.
LEMMA NothingAtFirst == Spec => []EmptyAtFirst
<1>1. Init => EmptyAtFirst
  BY DEF Init, EmptyAtFirst
<1>2. EmptyAtFirst /\ [Next]_vars => EmptyAtFirst'
  <2> SUFFICES ASSUME EmptyAtFirst, [Next]_vars
               PROVE  EmptyAtFirst'
    OBVIOUS
  <2> USE DEF EmptyAtFirst
  <2>1. CASE UNCHANGED <<state, binary>>
    BY <2>1
  <2>2. CASE Reset
    BY <2>2 DEF Reset
  <2>3. CASE state' # "INIT"
    BY <2>3
  <2>4. CASE Overwrite
    <3>1. UNCHANGED state
      BY <2>4 DEF Overwrite
    <3>2. CASE binary = << >>
      <4>1. PICK i \in (room + 1)..Len(binary) : binary' = [binary EXCEPT ![i] = Junk]
        BY <2>4 DEF Overwrite
      <4>2. DOMAIN binary' = {}
        BY <3>2, <4>1
      <4>3. binary' = << >>
        BY <3>2, <4>1, <4>2
      <4>4. QED
        BY <4>3
    <3>3. QED
      BY <3>1, <3>2
  <2>5. ReceiveFirst \/ ReceiveNext => state' # "INIT"
    BY DEF ReceiveFirst, ReceiveNext
  <2>6. UNCHANGED <<state, binary>> \/ Reset \/ state' # "INIT" \/ Overwrite
    BY <2>5 DEF Next, FwupgradeTask, vars, ram, Send, PowerCut, WatchdogFires, ReceiveDigest,
       ReceiveWrong, StopAndReset, EraseUpflag, BeginBurn, EndBurn, FinishUpflag, EraseUnseen,
       BurnUnseen, FinishUnseen, NotifyDone, ReturnFromVerify, Refused, task
  <2>7. QED
    BY <2>1, <2>2, <2>3, <2>4, <2>6
<1>3. QED
  BY <1>1, <1>2, PTL DEF Spec

\* Every chunk within the buffer is some image's chunk of its place, whatever packets
\* come.
THEOREM ChunksInPlace == Spec => []InPlace
<1>1. Init => InPlace
  BY DEF Init, InPlace
<1>2. TypeOK /\ EmptyAtFirst /\ InPlace /\ [Next]_vars => InPlace'
  <2> SUFFICES ASSUME TypeOK, EmptyAtFirst, InPlace, [Next]_vars
               PROVE  InPlace'
    OBVIOUS
  <2>1. CASE UNCHANGED <<binary, room>>
    BY <2>1 DEF InPlace
  <2>2. CASE Reset
    BY <2>2 DEF Reset, InPlace
  <2>3. CASE ReceiveFirst \/ ReceiveNext
    <3>1. inbox # << >> /\ RightPosition /\ binary' = Saved
      BY <2>3 DEF ReceiveFirst, ReceiveNext
    <3>2. /\ Received.img \in Images
          /\ Len(binary) + 1 \in DOMAIN Received.img
          /\ Saved = Append(binary, Received.img[Len(binary) + 1])
          /\ Len(Saved) = Len(binary) + 1
      BY <3>1, SavedIsLonger
    <3>3. \A i \in 1..Len(binary) : binary'[i] = binary[i]
      BY <3>1, <3>2 DEF TypeOK
    <3>4. binary'[Len(binary) + 1] = Received.img[Len(binary) + 1]
      BY <3>1, <3>2 DEF TypeOK
    <3>5. binary = << >> \/ UNCHANGED room
      BY <2>3 DEF ReceiveFirst, ReceiveNext, EmptyAtFirst
    <3>6. ASSUME NEW i \in 1..Len(binary'), i <= room'
          PROVE  \E img \in Images : i \in DOMAIN img /\ binary'[i] = img[i]
      <4>1. CASE i = Len(binary) + 1
        BY <4>1, <3>2, <3>4
      <4>2. CASE i \in 1..Len(binary)
        <5>1. binary # << >>
          BY <4>2
        <5>2. i <= room /\ binary'[i] = binary[i]
          BY <3>3, <3>5, <3>6, <4>2, <5>1
        <5>3. QED
          BY <4>2, <5>2 DEF InPlace
      <4>3. QED
        BY <3>1, <3>2, <4>1, <4>2 DEF TypeOK
    <3>7. QED
      BY <3>6 DEF InPlace
  <2>4. CASE Overwrite
    BY <2>4, OverwriteKeeps DEF InPlace
  <2>5. CASE PowerCut \/ WatchdogFires \/ ReceiveWrong
    BY <2>2, <2>5 DEF PowerCut, WatchdogFires, ReceiveWrong, StopAndReset
  <2>6. CASE ReturnFromVerify
    BY <2>1, <2>2, <2>6 DEF ReturnFromVerify, StopAndReset
  <2>7. CASE \/ ReceiveDigest \/ EraseUpflag \/ BeginBurn \/ EndBurn \/ FinishUpflag
             \/ EraseUnseen \/ BurnUnseen \/ FinishUnseen \/ NotifyDone
    BY <2>1, <2>7 DEF ReceiveDigest, EraseUpflag, BeginBurn, EndBurn, FinishUpflag,
       EraseUnseen, BurnUnseen, FinishUnseen, NotifyDone, Refused, task
  <2>8. ASSUME NEW p \in Packet, Send(p)
        PROVE  InPlace'
    BY <2>1, <2>8 DEF Send
  <2>9. CASE UNCHANGED vars
    BY <2>1, <2>9 DEF vars, ram
  <2>10. QED
    BY <2>3, <2>4, <2>5, <2>6, <2>7, <2>8, <2>9 DEF Next, FwupgradeTask
<1>3. QED
  BY <1>1, <1>2, TypeCorrect, NothingAtFirst, PTL DEF Spec

-----------------------------------------------------------------------------
(* The partitions                                                          *)

\* From the comparison of the digest to the end of fwupgrade_kernel_ota.
BurnsImage == ota # "idle" => binary \in Images \/ Len(binary) > room

\* Nothing is burnt but an image that came with its own digest, unless it was longer
\* than its buffer: what is in the buffer is not touched before the task is back.
THEOREM OnlyImagesAreBurnt == Spec => []BurnsImage
<1>1. Init => BurnsImage
  BY DEF Init, BurnsImage
<1>2. TypeOK /\ BurnsImage /\ [Next]_vars => BurnsImage'
  <2> SUFFICES ASSUME TypeOK, BurnsImage, [Next]_vars
               PROVE  BurnsImage'
    OBVIOUS
  <2> USE DEF BurnsImage
  <2>1. CASE PowerCut \/ WatchdogFires \/ ReceiveWrong
    BY <2>1 DEF PowerCut, WatchdogFires, ReceiveWrong, StopAndReset, Reset
  <2>2. CASE ReceiveFirst \/ ReceiveNext
    BY <2>2 DEF ReceiveFirst, ReceiveNext
  <2>3. CASE ReceiveDigest
    <3>1. Received \in Packet
      BY <2>3, ReceivedIsPacket DEF ReceiveDigest
    <3>2. Received.img \in Images
      BY <3>1, PacketImage
    <3>3. QED
      BY <2>3, <3>2 DEF ReceiveDigest, DigestMatches
  <2>4. CASE \/ EraseUpflag \/ BeginBurn \/ EndBurn \/ FinishUpflag
             \/ EraseUnseen \/ BurnUnseen \/ FinishUnseen \/ NotifyDone
    BY <2>4 DEF EraseUpflag, BeginBurn, EndBurn, FinishUpflag, EraseUnseen, BurnUnseen,
       FinishUnseen, NotifyDone, Refused, task
  <2>5. CASE ReturnFromVerify
    BY <2>5 DEF ReturnFromVerify, StopAndReset, Reset
  <2>6. ASSUME NEW p \in Packet, Send(p)
        PROVE  BurnsImage'
    BY <2>6 DEF Send
  <2>7. CASE Overwrite
    BY <2>7, OverwriteKeeps
  <2>8. CASE UNCHANGED vars
    BY <2>8 DEF vars, ram
  <2>9. QED
    BY <2>1, <2>2, <2>3, <2>4, <2>5, <2>6, <2>7, <2>8 DEF Next, FwupgradeTask
<1>3. QED
  BY <1>1, <1>2, TypeCorrect, PTL DEF Spec

\* What TornIsUnreported needs to be inductive: the flag is erased while the partition
\* is torn, and the partition is whole when it is set, as far as the writes did what they
\* said.
BurnsVerified ==
    ~unreported =>
      /\ ota \in {"burn", "burning"} => upflag = "erased"
      /\ ota = "finish" => kernel \in Images

\* No power cut and no error leaves a finished UPFLAG over a KERNEL that is not whole,
\* except by a write that answered -1 or an image longer than its buffer, and only until
\* UPFLAG is erased or KERNEL is written again.
THEOREM KernelStaysIntact == Spec => [](TornIsUnreported /\ BurnsVerified)
<1> DEFINE Inv == TornIsUnreported /\ BurnsVerified
<1>1. Init => Inv
  BY DEF Init, TornIsUnreported, KernelIntact, Whole, BurnsVerified
<1>2. TypeOK /\ BurnsImage /\ Inv /\ [Next]_vars => Inv'
  <2> SUFFICES ASSUME TypeOK, BurnsImage, Inv, [Next]_vars
               PROVE  Inv'
    OBVIOUS
  <2> USE DEF TornIsUnreported, KernelIntact, Whole, BurnsVerified, flash, task
  <2>1. ASSUME Reset, UNCHANGED flash
        PROVE  Inv'
    BY <2>1 DEF Reset
  <2>2. CASE UNCHANGED <<ota, flash>>
    BY <2>2
  <2>3. CASE PowerCut \/ WatchdogFires \/ ReceiveWrong
    BY <2>1, <2>3 DEF PowerCut, WatchdogFires, ReceiveWrong, StopAndReset
  <2>4. CASE ReceiveFirst \/ ReceiveNext \/ Overwrite
    BY <2>2, <2>4 DEF ReceiveFirst, ReceiveNext, Overwrite
  <2>5. CASE ReceiveDigest
    BY <2>5 DEF ReceiveDigest
  <2>6. CASE EraseUpflag
    BY <2>6 DEF EraseUpflag, Refused
  <2>7. CASE BeginBurn
    BY <2>7 DEF BeginBurn, Refused
  <2>8. CASE EndBurn
    <3>1. ~unreported' => Len(binary) <= room
      <4>1. unreported' <=> Len(binary) > room
        BY <2>8, Zenon DEF EndBurn
      <4>2. QED
        BY <4>1 DEF TypeOK
    <3>2. ~unreported' => kernel' \in Images
      BY <2>8, <3>1 DEF EndBurn, BurnsImage, TypeOK
    <3>3. ota' = "finish"
      BY <2>8 DEF EndBurn
    <3>4. BurnsVerified'
      BY <3>2, <3>3, <2>8 DEF EndBurn
    <3>5. QED
      BY <3>2, <3>4
  <2>9. CASE FinishUpflag
    BY <2>9 DEF FinishUpflag, Refused
  <2>10. CASE EraseUnseen \/ BurnUnseen \/ FinishUnseen
    BY <2>10 DEF EraseUnseen, BurnUnseen, FinishUnseen
  <2>11. CASE NotifyDone
    BY <2>11 DEF NotifyDone
  <2>12. CASE ReturnFromVerify
    <3>1. CASE otaOk
      BY <2>12, <3>1 DEF ReturnFromVerify
    <3>2. CASE ~otaOk
      BY <2>1, <2>12, <3>2 DEF ReturnFromVerify, StopAndReset
    <3>3. QED
      BY <3>1, <3>2
  <2>13. ASSUME NEW p \in Packet, Send(p)
         PROVE  Inv'
    BY <2>2, <2>13 DEF Send
  <2>14. CASE UNCHANGED vars
    BY <2>2, <2>14 DEF vars, ram
  <2>15. QED
    BY <2>3, <2>4, <2>5, <2>6, <2>7, <2>8, <2>9, <2>10, <2>11, <2>12, <2>13, <2>14
    DEF Next, FwupgradeTask
<1>3. QED
  BY <1>1, <1>2, TypeCorrect, OnlyImagesAreBurnt, PTL DEF Spec

\* The steps of fwupgrade_kernel_ota, and everything between them, install an image at
\* one instant: where UPFLAG is set over the partition that holds it.
THEOREM ImplementsAtomicInstallation == Spec => ImplementsInstallation
<1> DEFINE Installed == IF upflag = "finished" THEN {kernel} ELSE {}
<1>1. Init => Kernel!Init
  BY DEF Init, Kernel!Init
<1>2. TypeOK /\ BurnsImage /\ BurnsVerified /\ [Next]_vars
        => [Kernel!Next]_<<Installed, unreported>>
  <2> SUFFICES ASSUME TypeOK, BurnsImage, BurnsVerified, [Next]_vars
               PROVE  [Kernel!Next]_<<Installed, unreported>>
    OBVIOUS
  <2> USE DEF Kernel!Next
  <2>1. CASE UNCHANGED flash
    BY <2>1 DEF flash
  <2>2. CASE unreported' = TRUE
    BY <2>2 DEF Kernel!Fail
  <2>3. CASE EraseUpflag
    <3>1. UNCHANGED flash \/ (upflag' = "erased" /\ unreported' = FALSE)
      BY <2>3 DEF EraseUpflag, Refused
    <3>2. QED
      BY <2>1, <3>1 DEF Kernel!Withdraw
  <2>4. CASE BeginBurn /\ ~unreported
    <3>1. upflag = "erased"
      BY <2>4 DEF BeginBurn, BurnsVerified
    <3>2. UNCHANGED <<upflag, unreported>>
      BY <2>4 DEF BeginBurn, Refused, flash
    <3>3. QED
      BY <3>1, <3>2
  <2>5. CASE EndBurn /\ unreported' = FALSE
    <3>1. kernel' \in Images
      BY <2>5 DEF EndBurn, BurnsImage, TypeOK
    <3>2. UNCHANGED upflag
      BY <2>5 DEF EndBurn
    <3>3. CASE unreported /\ upflag = "finished"
      BY <2>5, <3>1, <3>2, <3>3 DEF Kernel!Install
    <3>4. CASE upflag = "erased"
      BY <2>5, <3>2, <3>4 DEF Kernel!Withdraw
    <3>5. unreported \/ upflag = "erased"
      BY <2>5 DEF EndBurn, BurnsVerified
    <3>6. QED
      BY <3>3, <3>4, <3>5 DEF TypeOK
  <2>6. CASE FinishUpflag /\ ~unreported
    <3>1. kernel \in Images
      BY <2>6 DEF FinishUpflag, BurnsVerified
    <3>2. \/ upflag' = "finished" /\ kernel' = kernel /\ unreported' = FALSE
          \/ UNCHANGED flash
      BY <2>6 DEF FinishUpflag, Refused, TypeOK
    <3>3. CASE upflag = "finished" /\ ~UNCHANGED flash
      BY <2>6, <3>2, <3>3 DEF TypeOK
    <3>4. CASE upflag = "erased"
      BY <2>1, <3>1, <3>2, <3>4 DEF Kernel!Install
    <3>5. QED
      BY <2>1, <3>3, <3>4 DEF TypeOK
  <2>7. CASE (BeginBurn \/ FinishUpflag) /\ unreported
    <3>1. UNCHANGED unreported
      BY <2>7 DEF BeginBurn, FinishUpflag, Refused, flash
    <3>2. QED
      BY <2>2, <2>7, <3>1 DEF TypeOK
  <2>8. \/ UNCHANGED flash \/ unreported' = TRUE
        \/ EraseUpflag \/ BeginBurn \/ EndBurn \/ FinishUpflag
    BY DEF Next, FwupgradeTask, vars, Send, Overwrite, PowerCut, WatchdogFires, ReceiveFirst,
           ReceiveNext, ReceiveDigest, ReceiveWrong, EraseUnseen, BurnUnseen, FinishUnseen,
           NotifyDone, ReturnFromVerify, StopAndReset
  <2>9. EndBurn => unreported' \in BOOLEAN
    BY DEF EndBurn
  <2>10. QED
    BY <2>1, <2>2, <2>3, <2>4, <2>5, <2>6, <2>7, <2>8, <2>9
<1>3. Spec => [](BurnsImage /\ BurnsVerified)
  BY KernelStaysIntact, OnlyImagesAreBurnt, PTL
<1>4. QED
  BY <1>1, <1>2, <1>3, TypeCorrect, PTL DEF Spec, ImplementsInstallation, Kernel!Spec
=============================================================================
