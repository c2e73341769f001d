----------------------------- MODULE BoundedFifo ----------------------------
(***************************************************************************)
(* What a channel of the SPI layer promises its callers: put and pop each  *)
(* take effect at one instant, packets come out whole and in the order in  *)
(* which they went in, a put is refused only while something is still      *)
(* queued, and a pop finds nothing only when nothing is queued.            *)
(***************************************************************************)
EXTENDS Integers, Sequences

CONSTANTS Threads,     \* the tasks that use the channel
          Packets,     \* the packets, sequences of PacketLen cells
          PacketLen,   \* SPI_TRAN_SIZE
          Capacity     \* what the channel can hold, in cells

VARIABLES queue,       \* the cells in the channel, oldest first
          ret,         \* ret[t]: result of t's last put or pop
          target       \* target[t]: what t's last successful pop filled

vars == <<queue, ret, target>>

Init ==
    /\ queue = << >>
    /\ ret = [t \in Threads |-> 0]
    /\ target = [t \in Threads |-> << >>]

Put(t, p) ==
    /\ Len(queue) + PacketLen <= Capacity
    /\ queue' = queue \o p
    /\ ret' = [ret EXCEPT ![t] = PacketLen]
    /\ UNCHANGED target

PutRefused(t) ==
    /\ queue # << >>
    /\ ret' = [ret EXCEPT ![t] = -4]
    /\ UNCHANGED <<queue, target>>

Pop(t) ==
    /\ Len(queue) >= PacketLen
    /\ target' = [target EXCEPT ![t] = SubSeq(queue, 1, PacketLen)]
    /\ queue' = SubSeq(queue, PacketLen + 1, Len(queue))
    /\ ret' = [ret EXCEPT ![t] = PacketLen]

PopEmpty(t) ==
    /\ queue = << >>
    /\ ret' = [ret EXCEPT ![t] = 0]
    /\ UNCHANGED <<queue, target>>

Next ==
    \E t \in Threads :
        \/ \E p \in Packets : Put(t, p)
        \/ PutRefused(t)
        \/ Pop(t)
        \/ PopEmpty(t)

Spec == Init /\ [][Next]_vars
=============================================================================
