------------------------- MODULE MCResponseLifecycle ------------------------
\* ResponseLifecycle for TLC: commands are interchangeable.
EXTENDS ResponseLifecycle, TLC

Symmetry == Permutations(Cmds)
=============================================================================
