---------------------------- MODULE MCRateLimiter ----------------------------
EXTENDS RateLimiter, TLC

LimiterSymmetry == Permutations(Requests) \cup Permutations(IPs)
=============================================================================
