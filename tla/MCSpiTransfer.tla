---------------------------- MODULE MCSpiTransfer ---------------------------
(* The data, command and upload channels with room for a few packets each,  *)
(* the command channel with just enough for spi_task's three first ones.    *)
EXTENDS SpiTransfer

CONSTANT uploader

MCDrainOrder == <<DataChannel, CmdChannel, uploader>>
MCTxCapacity == [c \in Channels |-> IF c = CmdChannel THEN 3 ELSE IF c = DataChannel THEN 2 ELSE 1]
MCRxCapacity == [c \in Channels |-> IF c = CmdChannel THEN 2 ELSE 1]
=============================================================================
