----------------------------- MODULE SpiTransfer ----------------------------
(***************************************************************************)
(* The SPI task of spi_layer/spi_transfer.c and the tasks that share its   *)
(* channels.                                                               *)
(*                                                                         *)
(* Each channel (video and audio data, commands, firmware upgrade, upload, *)
(* SD card streaming) is a SPI_TRANSFER_DATA_t: a tx ring the tasks fill   *)
(* and the SPI task drains, and an rx ring the SPI task fills and one task *)
(* drains.  The board is the bus master, so a packet from the CC3200       *)
(* arrives only in exchange for one sent, a dummy if need be.              *)
(*                                                                         *)
(* spidata_put and spidata_pop are atomic here: SpiChannel shows that      *)
(* their mutex makes them so.  A cell is a whole packet.                   *)
(***************************************************************************)
EXTENDS RingBuffer

CONSTANTS Channels,     \* the SPI_TRANSFER_DATA_t structs
          DrainOrder,   \* the order in which spi_main_loop drains them
          DataChannel,  \* g_spi_data, the one that sends dummies
          CmdChannel,   \* g_spi_cmd_buf, where spi_task puts its first packets
          Polled,       \* channels whose task reads in an endless loop, such as
                        \* spi_command_task; the uploader reads only during an upload
          TxCapacity,   \* TxCapacity[c], RxCapacity[c]: capacities in packets
          RxCapacity,
          Packet        \* any packet; SpiChannel covers their identity

BootDummies == 3        \* iNumOfSend of spi_task

ASSUME ChannelsAssumption ==
    /\ DrainOrder \in Seq(Channels)
    /\ \A c \in Channels : \E i \in 1..Len(DrainOrder) : DrainOrder[i] = c
    /\ {DataChannel, CmdChannel} \subseteq Channels
    /\ Polled \subseteq Channels

ASSUME CapacityAssumption ==
    /\ TxCapacity \in [Channels -> Nat \ {0}]
    /\ RxCapacity \in [Channels -> Nat \ {0}]

ASSUME PacketAssumption == Packet # NoCell

VARIABLES
    tx, rx,         \* tx[c], rx[c]: the rings of channel c
    phase,          \* what the SPI task does next
    turn,           \* the place in DrainOrder of the channel it drains
    booted,         \* first packets spi_task has put so far
    dummies         \* iSendDummy1Second

transferVars == <<tx, rx, phase, turn, booted, dummies>>

Draining == DrainOrder[turn]

Empty(rb) == RingBuffer_available_data(rb) = 0

-----------------------------------------------------------------------------
(* RingBuffer_write and RingBuffer_read of one packet, whole.              *)

\* Fault: a ring that moves its queued packets down when it runs out of room.
WriteReclaiming(rb) ==
    LET room == [rb EXCEPT !.start = 0, !.end = rb.end - rb.start]
    IN  IF HasSpace(room, 1)
          THEN RingBuffer_commit_write(CopyIn(room, <<Packet>>), 1)
          ELSE rb

Write(rb) ==
    LET room == ResetIfDrained(rb)
    IN  IF HasSpace(room, 1)
          THEN RingBuffer_commit_write(CopyIn(room, <<Packet>>), 1)
          ELSE room

Read(rb) == RingBuffer_commit_read(rb, 1)

-----------------------------------------------------------------------------
TransferInit ==
    /\ tx = [c \in Channels |-> RingBuffer_create(TxCapacity[c])]
    /\ rx = [c \in Channels |-> RingBuffer_create(RxCapacity[c])]
    /\ phase = "boot"
    /\ turn = 1
    /\ booted = 0
    /\ dummies = TRUE

\* send_spi_data, spi_cmd_send, spi_fwupgrade_send, spi_uploader_send or
\* spi_p2psdstream_send, by any task.  A refusal is the caller's business.
Send(c) ==
    /\ tx' = [tx EXCEPT ![c] = Write(@)]
    /\ UNCHANGED <<rx, phase, turn, booted, dummies>>

\* read_spi_data, spi_cmd_receive and the others, by the channel's one task.
Receive(c) ==
    /\ ~Empty(rx[c])
    /\ rx' = [rx EXCEPT ![c] = Read(@)]
    /\ UNCHANGED <<tx, phase, turn, booted, dummies>>

\* spi_task's three packets for the CDS value, then spi_main_loop.
SendBootDummy ==
    /\ phase = "boot"
    /\ tx' = [tx EXCEPT ![CmdChannel] = Write(@)]
    /\ booted' = booted + 1
    /\ phase' = IF booted + 1 = BootDummies THEN "top" ELSE "boot"
    /\ UNCHANGED <<rx, turn, dummies>>

\* CFG_MONITOR_SPI_SEND_DUMMY ms into the loop no dummy is sent any more.
TopOfLoop ==
    /\ phase = "top"
    /\ dummies' \in {dummies, FALSE}
    /\ phase' = "drain"
    /\ UNCHANGED <<tx, rx, turn, booted>>

\* A packet leaves the ring for ui8SpiTxBuffer, and is lost if the exchange fails.
TakePacket ==
    /\ phase = "drain"
    /\ ~Empty(tx[Draining])
    /\ tx' = [tx EXCEPT ![Draining] = Read(@)]
    /\ phase' = "exchange"
    /\ UNCHANGED <<rx, turn, booted, dummies>>

\* Fault: the loop does not go back to the first channel.
NextTurnPastLast ==
    /\ turn' = turn + 1
    /\ phase' = IF turn = Len(DrainOrder) THEN "top" ELSE "drain"

NextTurn ==
    /\ turn' = (turn % Len(DrainOrder)) + 1
    /\ phase' = IF turn = Len(DrainOrder) THEN "top" ELSE "drain"

\* Nothing left in this channel: on to the next one, in the data channel by way
\* of a dummy packet during the first seconds.
ChannelDrained ==
    /\ phase = "drain"
    /\ Empty(tx[Draining])
    /\ IF Draining = DataChannel /\ dummies
         THEN phase' = "dummy" /\ UNCHANGED turn
         ELSE NextTurn
    /\ UNCHANGED <<tx, rx, booted, dummies>>

\* drv_spi_master_send.  The transfer fails, or brings a packet of no interest or
\* with a bad checksum, or one that spi_process_received_data puts into the rx
\* ring of its type, where a full ring drops it.
Exchange ==
    /\ phase \in {"exchange", "dummy"}
    /\ \/ UNCHANGED rx
       \/ \E c \in Channels : rx' = [rx EXCEPT ![c] = Write(@)]
    /\ IF phase = "dummy" THEN NextTurn ELSE phase' = "drain" /\ UNCHANGED turn
    /\ UNCHANGED <<tx, booted, dummies>>

SpiTask ==
    \/ SendBootDummy
    \/ TopOfLoop
    \/ TakePacket
    \/ ChannelDrained
    \/ Exchange

TransferNext ==
    \/ SpiTask
    \/ \E c \in Channels : Send(c) \/ Receive(c)

\* The SPI task and the polling tasks are threads of their own that wait for
\* nothing but their sleeps and the mutexes.  Nobody else owes a step.
Fairness ==
    /\ WF_transferVars(SpiTask)
    /\ \A c \in Polled : WF_transferVars(Receive(c))

TransferSpec == TransferInit /\ [][TransferNext]_transferVars /\ Fairness

-----------------------------------------------------------------------------
(* Properties                                                              *)

\* The queued cells of a ring hold packets; none is read that nothing was written to.
RingOf(n) ==
    {rb \in [length : {n + 1}, start : 0..n, end : 0..n, buffer : [0..n -> {Packet, NoCell}]] :
        /\ rb.start <= rb.end
        /\ \A i \in rb.start .. rb.end - 1 : rb.buffer[i] = Packet}

TransferTypeOK ==
    /\ DOMAIN tx = Channels /\ \A c \in Channels : tx[c] \in RingOf(TxCapacity[c])
    /\ DOMAIN rx = Channels /\ \A c \in Channels : rx[c] \in RingOf(RxCapacity[c])
    /\ phase \in {"boot", "top", "drain", "exchange", "dummy"}
    /\ turn \in 1..Len(DrainOrder)
    /\ booted \in 0..BootDummies
    /\ dummies \in BOOLEAN

\* A channel's own senders cannot keep its packets from going out, however fast
\* they put: the ring takes no more until it is drained, so while the other
\* channels are quiet it keeps being drained and refused senders find room.
\* (While another channel is flooded there is no such promise: spi_main_loop
\* stays in that channel's loop as long as a packet arrives during each exchange.)
EveryTxDrains ==
    \A c \in Channels :
        <>[][\A d \in Channels \ {c} : ~Send(d)]_transferVars => []<>Empty(tx[c])

\* A polling task works off everything in its rx ring again and again, however
\* fast packets of its type arrive.
EveryRxDrains == \A c \in Polled : []<>Empty(rx[c])
=============================================================================
