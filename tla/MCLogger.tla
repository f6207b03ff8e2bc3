------------------------------ MODULE MCLogger ------------------------------
(***************************************************************************)
(* Two threads, two streams.                                               *)
(***************************************************************************)
EXTENDS Logger, TLC

Threads == Permutations(Thread)
=============================================================================
