----------------------------- MODULE UploadSend -----------------------------
(***************************************************************************)
(* Sending one HTTP request over SPI: upload_send_api of                   *)
(* uploader/upload_over_spi.c and the loops that call it.                  *)
(*                                                                         *)
(* The request goes out in blocks, one call of upload_send_api each.  A    *)
(* call sends its block as a window of packets, each with the position of  *)
(* its bytes in the request, polls for the position the CC3200 wants next  *)
(* and sends again from there, until the block is through or 20 s are      *)
(* over.  A call of length 0 ends the request.                             *)
(*                                                                         *)
(* The packets go through the tx ring of g_spi_uploader and the SPI bus,   *)
(* the positions come back through its rx ring; both lose some.  Positions *)
(* of an earlier connection may still be on their way.  Bytes are not      *)
(* modelled: a packet says which ones it carries.  Opening the socket is   *)
(* left out; UploadSession goes on with the answer.                        *)
(***************************************************************************)
EXTENDS UploadLink, Integers, Sequences

CONSTANTS NumSend,      \* NUMSEND_ONETIME
          ChunkSize,    \* HTTP_CHUNK_SIZE_NKB, the longest block
          Total,        \* length of the request
          OldAcks       \* positions an earlier connection may have left behind

ASSUME SizeAssumption ==
    {RawMaxLen, NumSend, ChunkSize, Total} \subseteq Nat \ {0}

ASSUME OldAcksAssumption == OldAcks \subseteq Nat

VARIABLES
    \* the caller
    sent,           \* i, or total_bytes_sent: where its next block begins
    len,            \* length of the block
    \* upload_send_api
    acked,          \* g_iPosition_temp
    k,              \* packets of the window sent so far
    next,           \* where the next one begins: g_iPosition_temp + k * RawMaxLen
    \* the CC3200
    wanted          \* the position it wants: it has everything before

callerVars == <<caller, sent, len>>
apiVars == <<app, position, acked, k, next>>
vars == <<callerVars, apiVars, toCC, fromCC, wanted>>

Smaller(m, n) == IF m < n THEN m ELSE n

\* from: where in the request the bytes were copied from.
Data(pos, from, length) == [end |-> FALSE, pos |-> pos, from |-> from, length |-> length]
End == [end |-> TRUE, pos |-> position, from |-> sent, length |-> 0]

Init ==
    /\ caller \in Callers
    /\ sent = 0 /\ len = 0
    /\ app = "idle"
    /\ position = 0 /\ acked = 0
    /\ k = 0 /\ next = 0
    /\ toCC = <<>>
    /\ fromCC \in {<<>>} \cup {<<a>> : a \in OldAcks} \cup {<<a, b>> : a, b \in OldAcks}
    /\ Len(fromCC) <= RingSize
    /\ wanted = 0

-----------------------------------------------------------------------------
(* The callers: upload_all_in_one_add_eventid gives up after a short call, *)
(* make_request_event_add goes on from where it got to.                    *)

\* The next block: header, picture and trailer end blocks of their own.
Call(n) ==
    /\ app = "idle"
    /\ sent < Total
    /\ n \in 1..Smaller(ChunkSize, Total - sent)
    /\ len' = n
    /\ acked' = position
    /\ k' = 0 /\ next' = position
    /\ app' = "send"
    /\ UNCHANGED <<caller, sent, position, toCC, fromCC, wanted>>

\* upload_send_api with length 0.
EndRequest ==
    /\ app = "idle"
    /\ sent >= Total
    /\ toCC' = Put(toCC, End)
    /\ position' = 0
    /\ app' = "finished"
    /\ UNCHANGED <<callerVars, acked, k, next, fromCC, wanted>>

Returned == acked - position

\* The header's loop asks for ret < block_len, the others for ret != block_len.
Short == IF sent = 0 THEN Returned < len ELSE Returned # len

\* The end of upload_send_api, whose locals go, and what its caller makes of the result.
Return ==
    /\ app = "return"
    /\ position' = acked
    /\ IF caller = "event_add"
         THEN sent' = sent + Returned /\ app' = "idle"
         ELSE IF Short
                THEN app' = "given_up" /\ UNCHANGED sent
                ELSE app' = "idle" /\ sent' = sent + len
    /\ len' = 0 /\ k' = 0 /\ next' = 0
    /\ UNCHANGED <<caller, acked, toCC, fromCC, wanted>>

-----------------------------------------------------------------------------
(* upload_send_api                                                         *)

\* Fault: the position counts from the start of the block, not of the request.
PacketFromBlock == Data(next - position, sent + (next - position),
                        Smaller(position + len - next, RawMaxLen))

NextPacket == Data(next, sent + (next - position),
                   Smaller(position + len - next, RawMaxLen))

\* uiNumOfSend: the packets needed for the rest of the block, at most NumSend.
Advance ==
    /\ k' = k + 1
    /\ next' = next + RawMaxLen
    /\ app' = IF k' < NumSend /\ next' < position + len THEN "send" ELSE "poll"

\* iCurrentPosition + usLen: where the packet sent last ends.
LastEnd == Smaller(next, position + len)

SendPacket ==
    /\ app = "send"
    /\ Len(toCC) < RingSize
    /\ toCC' = Append(toCC, NextPacket)
    /\ Advance
    /\ UNCHANGED <<callerVars, position, acked, fromCC, wanted>>

\* The ring is full, and 20 ms later again.
PacketRefused ==
    /\ app = "send"
    /\ Len(toCC) = RingSize
    /\ Advance
    /\ UNCHANGED <<callerVars, position, acked, toCC, fromCC, wanted>>

Ack == Head(fromCC)

\* Fault: any position is taken for one of this connection.
IgnoredNothing == Ack <= 0

\* Nothing, or left behind by an earlier connection.
Ignored == Ack <= 0 \/ (position = 0 /\ acked = 0 /\ Ack > ChunkSize)

\* The block is through, or the window is, or neither.
AfterAck ==
    IF Ignored THEN "poll"
    ELSE IF acked' - position >= len THEN "return"
    ELSE IF acked' = LastEnd THEN "round" ELSE "poll"

ReadAck ==
    /\ app = "poll"
    /\ fromCC # <<>>
    /\ fromCC' = Tail(fromCC)
    /\ acked' = IF ~Ignored /\ Ack > acked THEN Ack ELSE acked
    /\ app' = AfterAck
    /\ UNCHANGED <<callerVars, position, k, next, toCC, wanted>>

\* 140 ms are over, whatever has been read.
PollTimeout ==
    /\ app = "poll"
    /\ app' = "round"
    /\ UNCHANGED <<callerVars, position, acked, k, next, toCC, fromCC, wanted>>

\* Fault: the block is sent again from its start.
RoundFromStart ==
    /\ app = "round"
    /\ k' = 0 /\ next' = position
    /\ app' = "send"
    /\ UNCHANGED <<callerVars, position, acked, toCC, fromCC, wanted>>

\* What is not acknowledged is sent again.
NextRound ==
    /\ app = "round"
    /\ k' = 0 /\ next' = acked
    /\ app' = "send"
    /\ UNCHANGED <<callerVars, position, acked, toCC, fromCC, wanted>>

\* The 20 s are over.
GiveUp ==
    /\ app = "round"
    /\ app' = "return"
    /\ UNCHANGED <<callerVars, position, acked, k, next, toCC, fromCC, wanted>>

-----------------------------------------------------------------------------
(* The CC3200 and the bus                                                  *)

\* The CC3200 takes the packet at the position it wants, passes over any other, and
\* answers each with the position it wants then.  The answer may be lost, and is when
\* the rx ring is full.
CCReceive ==
    /\ toCC # <<>>
    /\ toCC' = Tail(toCC)
    /\ wanted' = IF Head(toCC).pos = wanted THEN wanted + Head(toCC).length ELSE wanted
    /\ \/ fromCC' = fromCC
       \/ Len(fromCC) < RingSize /\ fromCC' = Append(fromCC, wanted')
    /\ UNCHANGED <<callerVars, apiVars>>

\* drv_spi_master_send fails, or a checksum is wrong.
LosePacket ==
    /\ toCC # <<>>
    /\ toCC' = Tail(toCC)
    /\ UNCHANGED <<callerVars, apiVars, fromCC, wanted>>

-----------------------------------------------------------------------------
App ==
    \/ \E n \in 1..ChunkSize : Call(n)
    \/ EndRequest
    \/ Return
    \/ SendPacket
    \/ PacketRefused
    \/ ReadAck
    \/ PollTimeout
    \/ NextRound

Next == App \/ GiveUp \/ CCReceive \/ LosePacket

-----------------------------------------------------------------------------
(* Properties                                                              *)

Packet == [end : BOOLEAN, pos : Nat, from : Nat, length : Nat]

TypeOK ==
    /\ caller \in Callers
    /\ sent \in Nat /\ len \in 0..ChunkSize
    /\ app \in {"idle", "send", "poll", "round", "return", "given_up", "finished"}
    /\ position \in Nat /\ acked \in Nat
    /\ k \in 0..NumSend /\ next \in Nat
    /\ toCC \in Seq(Packet) /\ Len(toCC) <= RingSize
    /\ fromCC \in Seq(Nat) /\ Len(fromCC) <= RingSize
    /\ wanted \in Nat

\* What upload_send_api counts as sent has arrived: no packet that was lost, refused or
\* passed over is ever taken for delivered.
AckedHasArrived == acked <= wanted

\* Every packet carries the bytes of its position, whichever calls were short and
\* wherever the windows began again: g_iPosition and the caller's count agree.
BytesInPlace == Sending => \A i \in DOMAIN toCC : toCC[i].from = toCC[i].pos

\* A request is ended only when all of it has arrived.
EndedIsWhole == app = "finished" => wanted = Total
=============================================================================
