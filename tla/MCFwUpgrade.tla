---------------------------- MODULE MCFwUpgrade -----------------------------
(* A short image, a longer one that begins like it, and one that is mixed   *)
(* with the others only by chance.                                          *)
EXTENDS FwUpgrade

CONSTANTS a, b, c

MCImages == {<<a, b>>, <<a, c, b>>, <<b, c, a>>}

MCOneImage == {<<a, b>>}
=============================================================================
