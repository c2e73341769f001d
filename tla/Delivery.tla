------------------------------ MODULE Delivery ------------------------------
(***************************************************************************)
(* What a sender in pieces over a lossy way promises: a piece that has     *)
(* arrived stays there, a piece is taken for confirmed only after it has   *)
(* arrived and never lost sight of again, and the transfer counts as done  *)
(* only when every piece of it is confirmed.  A transfer may be given up   *)
(* at any time and another one begun.                                      *)
(***************************************************************************)
CONSTANT Pieces         \* the pieces a transfer may have

VARIABLES items,        \* the pieces of this transfer
          arrived,      \* those the receiver has
          confirmed,    \* those the sender knows it has
          done          \* the sender takes the transfer for complete

vars == <<items, arrived, confirmed, done>>

Init ==
    /\ items \subseteq Pieces
    /\ arrived = {} /\ confirmed = {}
    /\ done = FALSE

Begin ==
    /\ items = {}
    /\ items' \subseteq Pieces
    /\ UNCHANGED <<arrived, confirmed, done>>

Arrive ==
    /\ arrived \subseteq arrived' /\ arrived' \subseteq items
    /\ UNCHANGED <<items, confirmed, done>>

Confirm ==
    /\ confirmed \subseteq confirmed' /\ confirmed' \subseteq arrived
    /\ UNCHANGED <<items, arrived, done>>

Complete ==
    /\ confirmed = items
    /\ done' = TRUE
    /\ UNCHANGED <<items, arrived, confirmed>>

Abandon ==
    /\ items' = {} /\ arrived' = {} /\ confirmed' = {}
    /\ done' = FALSE

Next == Begin \/ Arrive \/ Confirm \/ Complete \/ Abandon

Spec == Init /\ [][Next]_vars
=============================================================================
