---------------------------- MODULE MCServerKeys ----------------------------
(* Instances of ServerKeys for TLC.                                        *)
EXTENDS ServerKeys, TLC

CONSTANTS s1, r1, r2, k1, k2, e1, e2
=============================================================================
