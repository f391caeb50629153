---------------------------- MODULE MCRateLimiter ----------------------------
(* Small instances of RateLimiter for TLC.  No action orders the threads or  *)
(* the clients, and the property is a refinement without fairness.           *)
EXTENDS RateLimiter, TLC

Symmetry == Permutations(Threads) \cup Permutations(Clients)
=============================================================================
