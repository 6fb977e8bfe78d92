----------------------------- MODULE MCLimiter ------------------------------
(* A small instance of Limiter: two calls that compete for one user.       *)
EXTENDS Limiter, TLC

CONSTANTS c1, c2

MCCalls == {c1, c2}
=============================================================================
