---------------------------- MODULE P2pSdStream ----------------------------
(***************************************************************************)
(* Streaming a recording from the SD card to the phone:                    *)
(* p2p_sdcard_streaming/p2p_sdcard_streaming.c and the file transfer       *)
(* command of spi_cmd/spi_cmd.c.                                           *)
(*                                                                         *)
(* The file goes out in packets numbered from 0, at most Batch of them at  *)
(* a time.  What is not acknowledged in 1.3 s is sent again.  The phone    *)
(* acknowledges with the smallest packet it misses and a bit for each of   *)
(* those that follow.  Packets and acknowledgements may be lost.           *)
(*                                                                         *)
(* Bytes are not modelled, nor which file it is: a file is its number of   *)
(* packets.                                                                *)
(***************************************************************************)
EXTENDS Integers, Sequences

CONSTANTS Sizes,        \* numbers of packets a file may have
          Batch,        \* iCountLoad: packets sent between two looks at the acks
          Window,       \* bits in an acknowledgement: iLenAck - 4
          RingSize,     \* packets in the tx ring of g_spi_p2psdstream
          Other         \* a packet that is not one of the file being streamed

ASSUME StreamAssumption ==
    /\ Sizes \subseteq Nat \ {0}
    /\ {Batch, Window, RingSize} \subseteq Nat \ {0}
    /\ Other \notin Nat

VARIABLES
    \* the commands
    selected,       \* g_SpiCmdFileStream: its number of packets, 0 before any file
    valid,          \* g_bValid
    start,          \* g_iP2pSdStreamStart
    \* the streaming task
    task,           \* where it is
    n,              \* iNumberOfPid
    pidSend,        \* iPidSend
    smallPid,       \* iSmallPidSend
    load,           \* iCountLoad
    acked,          \* the packets whose ack is 1
    sent,           \* t2s of each: "never", less than 1.3 s ago, or "due" again
    ackClock,       \* timeoutack is set
    \* the way to the phone and back
    tx,             \* the tx ring of g_spi_p2psdstream
    rx,             \* the ack that came last, if any came since the last look
    got,            \* what of this stream the phone has
    \* history
    late,           \* an ack of an earlier stream may still come
    trusted         \* none has been taken in this stream

cmdVars == <<selected, valid, start>>
sendVars == <<pidSend, load, sent, tx>>
ackVars == <<smallPid, acked, ackClock, rx, trusted>>
vars == <<cmdVars, task, n, sendVars, ackVars, got, late>>

Pids == 0 .. n - 1

\* small: all before it has come.  bits: those after it that have.
Ack(small, bits, old) == [small |-> small, bits |-> bits, old |-> old]

\* spi_p2psdstream_send: refused when the ring is full.
Room == Len(tx) < RingSize
Queue(ring, e) == IF Len(ring) < RingSize THEN Append(ring, e) ELSE ring

Init ==
    /\ selected = 0 /\ valid = FALSE /\ start = FALSE
    /\ task = "waiting" /\ n = 0
    /\ pidSend = 0 /\ smallPid = 0 /\ load = 0
    /\ acked = {} /\ sent = [p \in {} |-> "never"] /\ ackClock = FALSE
    /\ tx = <<>> /\ rx = <<>> /\ got = {}
    /\ late = FALSE /\ trusted = TRUE

-----------------------------------------------------------------------------
(* spicmd_process_filetransfer, run by the command task at any time *)

SelectFile ==
    /\ \/ selected' \in Sizes /\ valid' = TRUE
       \/ valid' = FALSE /\ UNCHANGED selected
    /\ UNCHANGED <<start, task, n, sendVars, ackVars, got, late>>

StartTransfer ==
    /\ start' = (valid \/ start)
    /\ UNCHANGED <<selected, valid, task, n, sendVars, ackVars, got, late>>

StopTransfer ==
    /\ start' = FALSE /\ valid' = FALSE
    /\ UNCHANGED <<selected, task, n, sendVars, ackVars, got, late>>

-----------------------------------------------------------------------------
(* p2p_sdcard_streaming_task: a stream begins and ends *)

\* p2p_ack_clear_buffer
ClearAcks ==
    /\ task = "waiting" /\ start
    /\ rx' = <<>>
    /\ task' = "loading"
    /\ UNCHANGED <<cmdVars, n, sendVars, smallPid, acked, ackClock, trusted, got, late>>

\* The locals of p2p_sd_streaming_main_new begin as End leaves them here.
LoadFile ==
    /\ task = "loading"
    /\ n' = selected
    /\ sent' = [p \in 0 .. selected - 1 |-> "never"]
    /\ task' = "sending"
    /\ UNCHANGED <<cmdVars, pidSend, load, tx, ackVars, got, late>>

\* sys_get_mode is never set: the task may take it for a reason to end.
WaitOrExit == task' \in {"waiting", "exited"}

\* The file cannot be opened or read, or there is no memory.
LoadFails ==
    /\ task = "loading"
    /\ start' = FALSE
    /\ WaitOrExit
    /\ UNCHANGED <<selected, valid, n, sendVars, ackVars, got, late>>

CheckStart ==
    /\ task = "check"
    /\ task' = IF start THEN "sending" ELSE "done"
    /\ UNCHANGED <<cmdVars, n, sendVars, ackVars, got, late>>

\* p2p_send_done_uploading and p2p_send_dummy try once more when the ring is full:
\* either way the packet is in if there is room when this step is taken.
SendDone ==
    /\ task = "done" /\ task' = "ending"
    /\ tx' = Queue(tx, Other)
    /\ UNCHANGED <<cmdVars, n, pidSend, load, sent, ackVars, got, late>>

\* Done is sent again; a start that came meanwhile is lost.  The locals go, and what
\* waits in the rings, or is still on its way, is now of an earlier stream.
End ==
    /\ task = "ending"
    /\ start' = FALSE
    /\ WaitOrExit
    /\ n' = 0 /\ pidSend' = 0 /\ smallPid' = 0 /\ load' = 0
    /\ acked' = {} /\ sent' = [p \in {} |-> "never"] /\ ackClock' = FALSE
    /\ tx' = [i \in DOMAIN Queue(tx, Other) |-> Other]
    /\ rx' = <<>> /\ late' = TRUE
    /\ got' = {} /\ trusted' = TRUE
    /\ UNCHANGED <<selected, valid>>

-----------------------------------------------------------------------------
(* p2p_sd_streaming_main_new: sending *)

\* The end of an iteration: the next packet, or after the last one, or enough of
\* them, the acks.  With nothing to send a dummy goes out.
Advance(count) ==
    IF pidSend + 1 >= n
    THEN /\ pidSend' = smallPid /\ load' = 0
         /\ task' = IF count = 0 THEN "dummy" ELSE "acks"
    ELSE /\ pidSend' = pidSend + 1
         /\ IF count = Batch THEN load' = 0 /\ task' = "acks"
            ELSE load' = count /\ UNCHANGED task

Looking == task = "sending" /\ pidSend < n
Wanted == pidSend \notin acked /\ sent[pidSend] \in {"never", "due"}

PassOver ==
    /\ Looking
    /\ ~Wanted \/ ~Room
    /\ Advance(load)
    /\ UNCHANGED <<cmdVars, n, sent, tx, ackVars, got, late>>

SendFirst ==
    /\ Looking /\ Wanted /\ Room
    /\ sent[pidSend] = "never"
    /\ sent' = [sent EXCEPT ![pidSend] = "recently"]
    /\ tx' = Append(tx, pidSend)
    /\ Advance(load + 1)
    /\ UNCHANGED <<cmdVars, n, ackVars, got, late>>

\* The last packet ends the batch at once, and its time is not set.
SendAgain ==
    /\ Looking /\ Wanted /\ Room
    /\ sent[pidSend] = "due"
    /\ tx' = Append(tx, pidSend)
    /\ IF pidSend = n - 1
       THEN load' = 0 /\ task' = "acks" /\ UNCHANGED <<pidSend, sent>>
       ELSE sent' = [sent EXCEPT ![pidSend] = "recently"] /\ Advance(load + 1)
    /\ UNCHANGED <<cmdVars, n, ackVars, got, late>>

\* A start that came between the end of a stream and its check: the entry behind
\* the last one is read, whatever it holds.
PastEnd ==
    /\ task = "sending" /\ pidSend >= n
    /\ tx' \in {tx, Queue(tx, Other)}
    /\ pidSend' \in {pidSend, smallPid}
    /\ load' = 0 /\ task' = "acks"
    /\ UNCHANGED <<cmdVars, n, sent, ackVars, got, late>>

SendDummy ==
    /\ task = "dummy" /\ task' = "acks"
    /\ tx' = Queue(tx, Other)
    /\ UNCHANGED <<cmdVars, n, pidSend, load, sent, ackVars, got, late>>

-----------------------------------------------------------------------------
(* p2p_sd_streaming_main_new: acknowledgements *)

LastAck == Head(rx)

Bits(a) == {p \in a.small .. a.small + Window - 1 : p < n}
Naks(a) == Bits(a) \ a.bits

\* Fault: small itself is taken for acknowledged.
AckedByInclusive(a) == (IF a.small <= n THEN 0 .. a.small ELSE {})
                       \cup (IF a.small = n THEN {} ELSE Bits(a) \cap a.bits)

\* What the acknowledgement says has come, as far as the file goes.
AckedBy(a) == (IF a.small <= n THEN 0 .. a.small - 1 ELSE {})
              \cup (IF a.small = n THEN {} ELSE Bits(a) \cap a.bits)

\* Fault: the packet behind the last one the bits say has come.
BehindLast(a, p) ==
    IF a.small = n \/ a.bits = {} THEN p = a.small
    ELSE p - 1 \in a.bits /\ \A q \in a.bits : q < p

\* piSmallPidToSend: the first missing packet, if the bits show one.
Smallest(a, p) ==
    IF a.small = n \/ Naks(a) = {} THEN p = a.small
    ELSE p \in Naks(a) /\ \A q \in Naks(a) : p <= q

\* Fault: a stream whose last packet is acknowledged waits for another ack.
NoProgressWaits == start' \in IF ackClock THEN {start, FALSE} ELSE {start}

\* No ack, or one that moves nothing: all of it has come, or the 7 s since the last
\* one that did may be over.
NoProgress ==
    IF smallPid' = n THEN start' = FALSE
    ELSE start' \in IF ackClock THEN {start, FALSE} ELSE {start}

\* Fault: sending goes on where it was.
KeepGoing(p) == pidSend' = p

\* The oldest packet is due, or has never been sent: sending begins there.
\* Behind the last entry anything may be read.
FromSmallest(p) ==
    IF smallPid' < n
    THEN pidSend' = IF sent[smallPid'] = "recently" THEN p ELSE smallPid'
    ELSE pidSend' \in {p, smallPid'}

NoAck ==
    /\ task = "acks" /\ rx = <<>>
    /\ UNCHANGED <<smallPid, acked, ackClock, rx, trusted>>
    /\ NoProgress
    /\ FromSmallest(pidSend)
    /\ task' = "check"
    /\ UNCHANGED <<selected, valid, n, load, sent, tx, got, late>>

\* Only the last acknowledgement counts.
TakeAcks ==
    /\ task = "acks" /\ rx # <<>>
    /\ acked' = acked \cup AckedBy(LastAck)
    /\ \E p \in LastAck.small .. LastAck.small + Window :
          Smallest(LastAck, p) /\ smallPid' = p
    /\ trusted' = (trusted /\ ~LastAck.old)
    /\ rx' = <<>>
    /\ IF LastAck.small = n \/ smallPid' = 0
       THEN NoProgress /\ UNCHANGED ackClock /\ FromSmallest(pidSend)
       ELSE /\ start' = (start /\ smallPid' < n)
            /\ ackClock' = TRUE
            /\ FromSmallest(IF smallPid' < n THEN smallPid' ELSE pidSend)
    /\ task' = "check"
    /\ UNCHANGED <<selected, valid, n, load, sent, tx, got, late>>

-----------------------------------------------------------------------------
(* Time, the bus and the phone *)

Streaming == task \in {"sending", "dummy", "acks", "check"}

\* 1.3 s since the packet was sent.
Due(p) ==
    /\ Streaming /\ p \in Pids
    /\ sent[p] = "recently"
    /\ sent' = [sent EXCEPT ![p] = "due"]
    /\ UNCHANGED <<cmdVars, task, n, pidSend, load, tx, ackVars, got, late>>

\* drv_spi_master_send, and the network behind it; a packet may be lost on the way.
Exchange ==
    /\ tx # <<>> /\ tx' = Tail(tx)
    /\ got' \in {got, IF Head(tx) = Other THEN got ELSE got \cup {Head(tx)}}
    /\ UNCHANGED <<cmdVars, task, n, pidSend, load, sent, ackVars, late>>

\* The phone's smallest packet may be one behind, and the bits say so.
SendAck ==
    /\ Streaming
    /\ \E k \in 0 .. n :
          /\ 0 .. k - 1 \subseteq got
          /\ k \notin got \/ k + 1 \notin got
          /\ rx' = <<Ack(k, {p \in got : p >= k /\ p < k + Window}, FALSE)>>
    /\ UNCHANGED <<cmdVars, task, n, sendVars, smallPid, acked, ackClock, trusted, got, late>>

\* It was still on its way when the rx ring was cleared.
LateAck ==
    /\ late /\ late' = FALSE
    /\ task = "loading" \/ Streaming
    /\ \E m \in Sizes : \E k \in 1 .. m : rx' = <<Ack(k, {}, TRUE)>>
    /\ UNCHANGED <<cmdVars, task, n, sendVars, smallPid, acked, ackClock, trusted, got>>

-----------------------------------------------------------------------------
Commands == SelectFile \/ StartTransfer \/ StopTransfer

Task == \/ ClearAcks \/ LoadFile \/ LoadFails \/ CheckStart \/ SendDone \/ End
        \/ PassOver \/ SendFirst \/ SendAgain \/ SendDummy \/ PastEnd
        \/ NoAck \/ TakeAcks

Next == \/ Commands \/ Task
        \/ \E p \in Pids : Due(p)
        \/ Exchange \/ SendAck \/ LateAck

\* The task polls, time passes and the SPI task goes on exchanging.  The phone
\* answers; whether it is heard is for Streams to say.
Fairness ==
    /\ WF_vars(Task)
    /\ \A m \in Sizes : \A p \in 0 .. m - 1 : WF_vars(Due(p))
    /\ WF_vars(Exchange)
    /\ WF_vars(SendAck)

Spec == Init /\ [][Next]_vars /\ Fairness

-----------------------------------------------------------------------------
(* Properties *)

Acks == [small : Nat, bits : SUBSET Nat, old : BOOLEAN]

TypeOK ==
    /\ selected \in Sizes \cup {0} /\ valid \in BOOLEAN /\ start \in BOOLEAN
    /\ valid => selected # 0
    /\ task \in {"waiting", "loading", "sending", "dummy", "acks", "check",
                "done", "ending", "exited"}
    /\ n \in Sizes \cup {0}
    /\ pidSend \in Nat /\ smallPid \in Nat /\ load \in 0 .. Batch - 1
    /\ acked \subseteq Pids
    /\ sent \in [Pids -> {"never", "recently", "due"}]
    /\ ackClock \in BOOLEAN
    /\ tx \in Seq(Pids \cup {Other}) /\ Len(tx) <= RingSize
    /\ rx \in Seq(Acks) /\ Len(rx) <= 1
    /\ got \subseteq Pids
    /\ late \in BOOLEAN /\ trusted \in BOOLEAN

\* Whatever was lost, repeated or refused, a packet marked as acknowledged has come,
\* unless an acknowledgement of an earlier stream was taken for one of this.
AckedHasArrived == trusted => acked \subseteq got

\* A stream that ends because its last packet is acknowledged is whole: no hole is
\* left behind by the bits, the smallest number or the packets passed over.
DoneIsWhole == trusted /\ n # 0 /\ smallPid >= n => got = Pids

\* A stream is a transfer of its packets: it begins with none of an earlier one
\* acknowledged, no acknowledgement is forgotten, and it counts as done, when neither a
\* stop nor the 7 s ended it, only with all packets acknowledged.  One in which an
\* acknowledgement of an earlier stream was taken for its own is no such transfer.
Stream == INSTANCE Delivery WITH
    Pieces <- Nat,
    items <- IF trusted THEN Pids ELSE {},
    arrived <- IF trusted THEN got ELSE {},
    confirmed <- IF trusted THEN acked ELSE {},
    done <- trusted /\ task \in {"done", "ending"} /\ smallPid >= n

ImplementsDelivery == Stream!Spec

Attempt(p) == Looking /\ Wanted /\ pidSend = p /\ (PassOver \/ SendFirst \/ SendAgain)

\* The oldest missing packet is tried again and again, wherever the sending is,
\* however full the ring and whatever the phone says or does not say.
OldestIsRetried ==
    \A m \in Sizes : \A p \in 0 .. m - 1 :
        <>[](Streaming /\ smallPid = p /\ p \in Pids \ acked) => []<><<Attempt(p)>>_vars

\* A packet that does not reach the phone, one the ring has no room for, and an ack
\* that is behind.
Lost == Exchange /\ Head(tx) \in Pids \ got /\ UNCHANGED got
Refused == PassOver /\ Wanted
Behind == SendAck /\ Head(rx').small \in got

\* Once packets are no longer lost or refused and no new start comes, the stream
\* ends, and the camera's video, sound and pictures, which wait for it, go on.  An ack
\* of an earlier stream may keep it going for ever: the phone misses a packet the task
\* takes for acknowledged, and says so, which keeps the 7 s from passing.
StreamEnds ==
    /\ <>[][~Lost /\ ~Refused /\ ~Behind /\ ~(StartTransfer /\ start' # start)]_vars
    /\ []<>trusted
  => []<>(task \in {"waiting", "exited"})
=============================================================================
