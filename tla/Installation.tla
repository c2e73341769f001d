---------------------------- MODULE Installation ----------------------------
(***************************************************************************)
(* What the firmware upgrade promises about the kernel the board can       *)
(* start: it is withdrawn before anything else happens to it, and what     *)
(* takes its place is one of the images, whole, at one instant.  A failure *)
(* nobody notices suspends the promise until the next step that withdraws  *)
(* the kernel or puts a whole image in its place.                          *)
(***************************************************************************)
CONSTANTS Images,       \* the images that may be installed
          OldKernel     \* what is installed at first

VARIABLES installed,    \* the kernel that may be started, or none
          failed        \* a failure went unnoticed

Init ==
    /\ installed = {OldKernel}
    /\ failed = FALSE

Withdraw ==
    /\ installed' = {}
    /\ failed' = FALSE

Install ==
    /\ installed = {} \/ failed
    /\ \E img \in Images : installed' = {img}
    /\ failed' = FALSE

Fail ==
    /\ failed' = TRUE

Next == Withdraw \/ Install \/ Fail

Spec == Init /\ [][Next]_<<installed, failed>>
=============================================================================
