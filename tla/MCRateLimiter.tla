---------------------------- MODULE MCRateLimiter ----------------------------
(* An instance of RateLimiter for TLC: the clock stops after MaxTicks. *)
EXTENDS RateLimiter, TLC

CONSTANT MaxTicks

ClockBound == now <= MaxTicks

RequestSymmetry == Permutations(Requests)
=============================================================================
