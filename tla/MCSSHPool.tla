------------------------------ MODULE MCSSHPool ------------------------------
EXTENDS SSHPool, TLC

\* Goroutines, clients and host keys are interchangeable.
PoolSymmetry ==
  Permutations(Goroutines) \cup Permutations(Clients) \cup Permutations(HostKeys)
=============================================================================
