--------------------------- MODULE MCStreamServer ---------------------------
EXTENDS StreamServer, TLC

Symmetry == Permutations(Peers) \cup Permutations(Fds)
=============================================================================
