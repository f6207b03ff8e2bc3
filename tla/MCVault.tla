------------------------------- MODULE MCVault -------------------------------
(***************************************************************************)
(* No plaintext and one of two bytes, two keys, 64 bits scaled down to 3. *)
(* Timestamps are a moment, one below zero, one past the range and none.   *)
(* A damaged number is any other small number or no number written by the  *)
(* code; any other cell is xored with ONE.                                 *)
(***************************************************************************)
EXTENDS Vault

ONE == <<"one">>

MCPlain == {<< >>, <<{}, {ONE}>>}
MCKey == {{<<"key", "a">>}, {<<"key", "b">>}}
MCTime == {-1, 1, 9, NaN}
MCReading == {-1, 0, 1, 3, NaN}
MCIterations == {2, NaN}
MCSalt == {{<<"salt", "s">>}}

MCVariants(cell) ==
  IF \E n \in 0..7 : cell = Number(n)
  THEN ({Number(n) : n \in 0..3} \cup {{ONE}}) \ {cell}
  ELSE {Xor(cell, {ONE})}
=============================================================================
