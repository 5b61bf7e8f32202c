--------------------------- MODULE MCSessionPoller ---------------------------
EXTENDS SessionPoller, TLC

PollerSymmetry == Permutations(Servers) \cup Permutations(Uploads) \cup Permutations(Updaters)
=============================================================================
