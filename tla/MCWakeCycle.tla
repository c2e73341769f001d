---------------------------- MODULE MCWakeCycle ----------------------------
(* Three restarts in a row, as in the code, and a status that counts them.  *)
EXTENDS WakeCycle
=============================================================================
