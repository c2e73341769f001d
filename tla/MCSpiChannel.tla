---------------------------- MODULE MCSpiChannel ----------------------------
(* Two tasks share a channel with the SPI task, as video and audio share    *)
(* g_spi_data.tx.  Packets are two cells long so that one can be torn.      *)
EXTENDS SpiChannel

MCPackets == {<<"a1", "a2">>, <<"b1", "b2">>}
MCCell == {"a1", "a2", "b1", "b2"}
=============================================================================
