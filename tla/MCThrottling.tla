------------------------------ MODULE MCThrottling ------------------------------
(* Instance of Throttling for TLC. *)
EXTENDS Throttling
CONSTANTS w1, w2, w3
MCRetryAfter == {None, 4}
=============================================================================
