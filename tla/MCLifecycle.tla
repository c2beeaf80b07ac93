----------------------------- MODULE MCLifecycle -----------------------------
EXTENDS Lifecycle, TLC

MCSymmetry == Permutations(Pids) \cup Permutations(Commands)
=============================================================================
