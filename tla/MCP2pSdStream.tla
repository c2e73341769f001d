--------------------------- MODULE MCP2pSdStream ---------------------------
(* Files of one and of two packets, two bits in an ack and room for one packet  *)
(* in the tx ring: what is lost, refused, passed over or repeated already comes *)
(* between two looks at the acks.                                               *)
EXTENDS P2pSdStream
=============================================================================
