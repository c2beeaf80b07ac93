--------------------------- MODULE MCCorpusWriter ---------------------------
EXTENDS CorpusWriter

CONSTANTS b1, b2, b3, today, tomorrow

MCBatches == {b1, b2, b3}
MCHasRaw == {b1}
MCPartitions == {today, tomorrow}
MCPartitionOf == [b \in MCBatches |-> IF b = b3 THEN tomorrow ELSE today]
=============================================================================
