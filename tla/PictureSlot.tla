----------------------------- MODULE PictureSlot ----------------------------
(***************************************************************************)
(* What the snapshot task and the uploader promise about the one picture   *)
(* buffer they share: it is filled only when nobody needs what is in it,   *)
(* sent only once it is whole, and each picture is sent at most once.      *)
(***************************************************************************)
CONSTANTS Pictures,    \* what the camera may see
          NoPicture

VARIABLES slot,        \* "empty", "filling", "full" or "sending"
          picture,     \* what the buffer holds
          sent         \* the picture sent last

vars == <<slot, picture, sent>>

Init ==
    /\ slot = "empty"
    /\ picture = NoPicture
    /\ sent = NoPicture

BeginFill ==
    /\ slot = "empty"
    /\ slot' = "filling"
    /\ UNCHANGED <<picture, sent>>

Fill ==
    /\ slot = "filling"
    /\ picture' \in Pictures
    /\ UNCHANGED <<slot, sent>>

Publish ==
    /\ slot = "filling"
    /\ slot' = "full"
    /\ UNCHANGED <<picture, sent>>

Claim ==
    /\ slot = "full"
    /\ slot' = "sending"
    /\ UNCHANGED <<picture, sent>>

Send ==
    /\ slot = "sending"
    /\ slot' = "empty"
    /\ sent' = picture
    /\ UNCHANGED picture

\* The picture is not sent after all.
Discard ==
    /\ slot = "sending"
    /\ slot' = "empty"
    /\ UNCHANGED <<picture, sent>>

Next == BeginFill \/ Fill \/ Publish \/ Claim \/ Send \/ Discard

Spec == Init /\ [][Next]_vars
=============================================================================
