-------------------------- MODULE MCUploadSession ---------------------------
(* Blocks of up to three packets in windows of two, a request of two blocks *)
(* or more, a ring that a window and its repetition do not fit in, an       *)
(* answer of two packets or more, and few enough retries to run out.        *)
EXTENDS UploadSession
=============================================================================
