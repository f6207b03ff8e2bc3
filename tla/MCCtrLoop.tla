------------------------------ MODULE MCCtrLoop ------------------------------
(***************************************************************************)
(* Counters of 3 binary digits and blocks of 2 bytes: a call of 5 bytes    *)
(* carries through all the digits from several starting values.            *)
(***************************************************************************)
EXTENDS CtrLoop

MCInput == {[i \in 1..n |-> IF i % 2 = 1 THEN {"one"} ELSE {}] : n \in 0..5}
=============================================================================
