---------------------------- MODULE MCSdkTransport ----------------------------
EXTENDS SdkTransport, TLC

CONSTANTS r1, r2, r3

MCRecords == {r1, r2, r3}
MCTwoRecords == {r1, r2}
MCSymmetry == Permutations(MCRecords)
=============================================================================
