------------------------- MODULE MCTransferPipeline -------------------------
(* Small instances of TransferPipeline for TLC.                             *)
EXTENDS TransferPipeline

CONSTANTS small, large, later   \* two in-band transfers and a large one between them
CONSTANTS P

MCPairOf    == [t \in Transfers |-> P]
MCStamp     == [t \in Transfers |-> IF t = small THEN 1 ELSE IF t = large THEN 3 ELSE 2]
MCInBand    == {small, later} \cap Transfers
MCCompletes == {c \in Transfers \X Transfers : c[1] = large /\ c[2] # large}

=============================================================================
