----------------------------- MODULE RingBuffer -----------------------------
(***************************************************************************)
(* The byte FIFO of ringbuffer/ringbuffer.c as operators on the struct     *)
(* [length, start, end, buffer].                                           *)
(*                                                                         *)
(* The struct is a ring only in name.  `length` is the requested capacity  *)
(* plus one, a write never lets `end` pass the last cell, and the cells    *)
(* before `start` come back only when the buffer drains and both indices   *)
(* return to 0.  A cell stands for a group of bytes that is always moved   *)
(* as one piece.                                                           *)
(*                                                                         *)
(* RingBuffer_write and RingBuffer_read are each given in the two halves   *)
(* their callers' threads could interleave in: the check with its memcpy,  *)
(* and the commit of the index.                                            *)
(***************************************************************************)
EXTENDS Integers, Sequences

CONSTANT NoCell        \* content of a cell nothing was written to yet

RingBuffer_create(n) ==
    [length |-> n + 1,
     start  |-> 0,
     end    |-> 0,
     buffer |-> [i \in 0..n |-> NoCell]]

RingBuffer_available_data(rb) == (rb.end % rb.length) - rb.start

RingBuffer_available_space(rb) == rb.length - rb.end - 1

RingbBuffer_flush(rb) == [rb EXCEPT !.start = 0, !.end = 0]

-----------------------------------------------------------------------------
(* RingBuffer_write                                                        *)

\* The reset a write begins with, when nothing is left to read.
ResetIfDrained(rb) ==
    IF RingBuffer_available_data(rb) = 0 THEN RingbBuffer_flush(rb) ELSE rb

HasSpace(rb, n) ==
    /\ RingBuffer_available_space(rb) >= 0
    /\ RingBuffer_available_space(rb) >= n

\* memcpy to RingBuffer_ends_at.
CopyIn(rb, data) ==
    [rb EXCEPT !.buffer =
        [i \in DOMAIN rb.buffer |->
            IF i \in rb.end .. rb.end + Len(data) - 1
              THEN data[i - rb.end + 1]
              ELSE rb.buffer[i]]]

RingBuffer_commit_write(rb, n) ==
    [rb EXCEPT !.end = (rb.end + n) % rb.length]

-----------------------------------------------------------------------------
(* RingBuffer_read                                                         *)

\* memcpy from RingBuffer_starts_at.
CopyOut(rb, n) == [i \in 1..n |-> rb.buffer[rb.start + i - 1]]

\* Fault: a drained buffer rewinds its read index only.
RewindsStartOnly(rb, n) ==
    LET start == (rb.start + n) % rb.length
    IN  [rb EXCEPT !.start = IF rb.end = start THEN 0 ELSE start]

RingBuffer_commit_read(rb, n) ==
    LET start == (rb.start + n) % rb.length
    IN  IF rb.end = start
          THEN RingbBuffer_flush(rb)
          ELSE [rb EXCEPT !.start = start]

-----------------------------------------------------------------------------
(* What the buffer holds, oldest cell first.                               *)

Contents(rb) == [i \in 1 .. rb.end - rb.start |-> rb.buffer[rb.start + i - 1]]
=============================================================================
