----------------------------- MODULE SpiChannel -----------------------------
(***************************************************************************)
(* One SPIDATA_t of spi_layer/spi_transfer.c: a RingBuffer and the mutex   *)
(* that every spidata_put and spidata_pop takes around it.  The threads    *)
(* are the tasks that share the buffer, such as the video and audio tasks  *)
(* that put into g_spi_data.tx and the SPI task that pops from it.  Every  *)
(* caller moves exactly SPI_TRAN_SIZE bytes.                               *)
(*                                                                         *)
(* A call takes the lock, runs the two halves of the ring operation, and   *)
(* releases the lock.  The halves are separate steps, so the mutex, not    *)
(* the model, is what keeps two calls apart.                               *)
(***************************************************************************)
EXTENDS RingBuffer

CONSTANTS Producers,   \* tasks that call spidata_put
          Consumers,   \* tasks that call spidata_pop
          Cell,        \* what a cell of a packet can hold
          PacketLen,   \* SPI_TRAN_SIZE, in cells
          Packets,     \* the packets the producers put
          Capacity,    \* length given to RingBuffer_create, in cells
          NoThread     \* lock value when the mutex is free

Threads == Producers \cup Consumers

ASSUME SizesAssumption ==
    /\ PacketLen \in Nat \ {0}
    /\ Capacity \in Nat
    /\ PacketLen <= Capacity

ASSUME PacketsAssumption == Packets \subseteq [1..PacketLen -> Cell]

ASSUME ThreadsAssumption == NoThread \notin Threads

ASSUME RolesAssumption == Producers \cap Consumers = {}

VARIABLES
    fifo,      \* the RingBuffer
    lock,      \* the mutex: its holder, or NoThread
    pc,        \* where each thread is in spidata_put or spidata_pop
    data,      \* data[t]: the packet t is putting
    target,    \* target[t]: the buffer t pops into
    ret        \* ret[t]: what t's last call returned

vars == <<fifo, lock, pc, data, target, ret>>

\* The struct RingBuffer_create(Capacity) returns, whatever it holds later.
Ring == [length : {Capacity + 1},
         start  : 0..Capacity,
         end    : 0..Capacity,
         buffer : [0..Capacity -> Cell \cup {NoCell}]]

TypeOK ==
    /\ fifo \in Ring
    /\ lock \in Threads \cup {NoThread}
    /\ pc \in [Threads -> {"idle", "put", "commit_write",
                           "pop", "commit_read", "unlock"}]
    /\ data \in [Producers -> Packets \cup {<< >>}]
    /\ target \in [Threads -> [1..PacketLen -> Cell \cup {NoCell}] \cup {<< >>}]
    /\ ret \in [Threads -> {-4, 0, PacketLen}]

Init ==
    /\ fifo = RingBuffer_create(Capacity)
    /\ lock = NoThread
    /\ pc = [t \in Threads |-> "idle"]
    /\ data = [t \in Producers |-> << >>]
    /\ target = [t \in Threads |-> << >>]
    /\ ret = [t \in Threads |-> 0]

Lock(t, next) ==
    /\ pc[t] = "idle"
    /\ lock = NoThread
    /\ lock' = t
    /\ pc' = [pc EXCEPT ![t] = next]

Unlock(t) ==
    /\ pc[t] = "unlock"
    /\ lock' = NoThread
    /\ pc' = [pc EXCEPT ![t] = "idle"]
    /\ UNCHANGED <<fifo, data, target, ret>>

-----------------------------------------------------------------------------
(* spidata_put                                                             *)

PutLock(t, p) ==
    /\ Lock(t, "put")
    /\ data' = [data EXCEPT ![t] = p]
    /\ UNCHANGED <<fifo, target, ret>>

PutCopy(t) ==
    /\ pc[t] = "put"
    /\ LET rb == ResetIfDrained(fifo)
       IN  /\ HasSpace(rb, PacketLen)
           /\ fifo' = CopyIn(rb, data[t])
    /\ pc' = [pc EXCEPT ![t] = "commit_write"]
    /\ UNCHANGED <<lock, data, target, ret>>

PutCommit(t) ==
    /\ pc[t] = "commit_write"
    /\ fifo' = RingBuffer_commit_write(fifo, PacketLen)
    /\ ret' = [ret EXCEPT ![t] = PacketLen]
    /\ pc' = [pc EXCEPT ![t] = "unlock"]
    /\ UNCHANGED <<lock, data, target>>

\* RingBuffer_write's -1 reaches the caller as -4.
PutRefused(t) ==
    /\ pc[t] = "put"
    /\ LET rb == ResetIfDrained(fifo)
       IN  /\ ~HasSpace(rb, PacketLen)
           /\ fifo' = rb
    /\ ret' = [ret EXCEPT ![t] = -4]
    /\ pc' = [pc EXCEPT ![t] = "unlock"]
    /\ UNCHANGED <<lock, data, target>>

-----------------------------------------------------------------------------
(* spidata_pop                                                             *)

PopLock(t) ==
    /\ Lock(t, "pop")
    /\ UNCHANGED <<fifo, data, target, ret>>

PopCopy(t) ==
    /\ pc[t] = "pop"
    /\ RingBuffer_available_data(fifo) >= PacketLen
    /\ target' = [target EXCEPT ![t] = CopyOut(fifo, PacketLen)]
    /\ pc' = [pc EXCEPT ![t] = "commit_read"]
    /\ UNCHANGED <<fifo, lock, data, ret>>

PopCommit(t) ==
    /\ pc[t] = "commit_read"
    /\ fifo' = RingBuffer_commit_read(fifo, PacketLen)
    /\ ret' = [ret EXCEPT ![t] = PacketLen]
    /\ pc' = [pc EXCEPT ![t] = "unlock"]
    /\ UNCHANGED <<lock, data, target>>

\* Nothing to read is 0; a negative or short amount is an error, -4.
PopNothing(t) ==
    /\ pc[t] = "pop"
    /\ RingBuffer_available_data(fifo) < PacketLen
    /\ ret' = [ret EXCEPT ![t] = IF RingBuffer_available_data(fifo) = 0 THEN 0 ELSE -4]
    /\ pc' = [pc EXCEPT ![t] = "unlock"]
    /\ UNCHANGED <<fifo, lock, data, target>>

-----------------------------------------------------------------------------
PutStep(t) ==
    \/ \E p \in Packets : PutLock(t, p)
    \/ PutCopy(t)
    \/ PutCommit(t)
    \/ PutRefused(t)

PopStep(t) ==
    \/ PopLock(t)
    \/ PopCopy(t)
    \/ PopCommit(t)
    \/ PopNothing(t)

Next ==
    \/ \E t \in Producers : PutStep(t)
    \/ \E t \in Consumers : PopStep(t)
    \/ \E t \in Threads : Unlock(t)

Spec == Init /\ [][Next]_vars

-----------------------------------------------------------------------------
(* Properties                                                              *)

\* The read index never passes the write index, and neither reaches the spare
\* cell at `length`: the amounts RingBuffer_read and RingBuffer_write compute
\* by subtraction are never negative (ringbuffer.c:75 and :114 print them as
\* errors), and the % in the two commits never wraps.
IndicesInOrder == 0 <= fifo.start /\ fifo.start <= fifo.end /\ fifo.end <= Capacity

\* What is queued, seen by a caller: a pop takes effect when it has copied the
\* packet out, a put when it commits `end`.
Queue ==
    IF \E t \in Consumers : pc[t] = "commit_read"
      THEN SubSeq(Contents(fifo), PacketLen + 1, Len(Contents(fifo)))
      ELSE Contents(fifo)

Returned == [t \in Threads |-> IF pc[t] = "commit_read" THEN PacketLen ELSE ret[t]]

Fifo == INSTANCE BoundedFifo WITH queue <- Queue, ret <- Returned

\* The channel is a FIFO of whole packets whatever the interleaving of its
\* callers: nothing accepted is lost, torn, duplicated or reordered, a put is
\* refused only while something is queued, and a pop never returns an error.
ImplementsFifo == Fifo!Spec

-----------------------------------------------------------------------------
(* The inductive invariant behind the theorems of SpiProofs.               *)

\* The mutex at work: a thread inside spidata_put or spidata_pop holds the lock,
\* so the two halves of a ring operation are never split by another one.
LockHeld == \A t \in Threads : pc[t] # "idle" => lock = t

\* Only producers put and only consumers pop.
Roles ==
    /\ \A t \in Producers : pc[t] \notin {"pop", "commit_read"}
    /\ \A t \in Consumers : pc[t] \notin {"put", "commit_write"}
    /\ \A t \in Producers : pc[t] \in {"put", "commit_write"} => data[t] \in Packets

\* A packet is queued whole or not at all.
WholePackets == \E n \in 0..Capacity : fifo.end - fifo.start = n * PacketLen

\* A producer between its memcpy and its commit has its packet in place.
PacketInPlace ==
    \A t \in Producers : pc[t] = "commit_write" =>
        /\ fifo.end + PacketLen <= Capacity
        /\ \A i \in 1..PacketLen : fifo.buffer[fifo.end + i - 1] = data[t][i]

\* A consumer between its memcpy and its commit still has its packet queued.
PacketStillQueued ==
    \A t \in Consumers : pc[t] = "commit_read" => fifo.end - fifo.start >= PacketLen

\* What every step keeps: the type, the index order, the mutex, and the packets
\* whole and in place.
IInv ==
    /\ TypeOK
    /\ IndicesInOrder
    /\ LockHeld
    /\ Roles
    /\ WholePackets
    /\ PacketInPlace
    /\ PacketStillQueued
=============================================================================
