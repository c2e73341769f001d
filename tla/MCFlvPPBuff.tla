---- MODULE MCFlvPPBuff ----
(* Two producers, halves of two packets, a clip that has room for a few; and the *)
(* parser of the frames they push, over the frames of FlvMuxer.                  *)
EXTENDS FlvPPBuff
MCProducers == {"video", "audio"}
====
