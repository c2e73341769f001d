----------------------------- MODULE MCSettings -----------------------------
(* Two commands that ask for opposite things, one with a value out of      *)
(* range; failing writes mix them.                                         *)
EXTENDS Settings
Swap == {[ud |-> 1, tb |-> 0], [ud |-> Invalid, tb |-> 1]}
=============================================================================
