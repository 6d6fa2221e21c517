----------------------------- MODULE MCRateLimiter -----------------------------
(***************************************************************************)
(* RateLimiter for TLC: callers are interchangeable.                       *)
(***************************************************************************)
EXTENDS RateLimiter, TLC

CallerSymmetry == Permutations(Callers)
===============================================================================
