----------------------------- MODULE MCAccounts -----------------------------
(* Instances of Accounts for TLC.                                          *)
EXTENDS Accounts, TLC

\* Browsers, requests, names and subjects are interchangeable.
AccountSymmetry ==
  Permutations(Browsers) \cup Permutations(Requests) \cup Permutations(Names) \cup Permutations(Subjects)
=============================================================================
