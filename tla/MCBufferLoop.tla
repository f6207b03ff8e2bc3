---------------------------- MODULE MCBufferLoop ----------------------------
(***************************************************************************)
(* Buffers up to two chunks and a byte; chunks of two cipher blocks of 2   *)
(* bytes; hash blocks of 4 bytes.  On its way a buffer may lose its tail   *)
(* or have one byte xored with ONE, which turns one plaintext byte of the  *)
(* model into the other.                                                   *)
(***************************************************************************)
EXTENDS BufferLoop

ONE == <<"one">>

MCZero == {}
MCMark == {<<"mark">>}
MCField(n) == <<{<<"length", n>>}>>
MCByte == SUBSET ({ONE, <<"mark">>} \cup ({"length"} \X Nat) \cup (Key \X Nat \X Nat))

Text(n) == [i \in 1..n |-> IF i % 3 = 1 THEN {ONE} ELSE {}]
MCPlain == {Text(n) : n \in {0, 1, 3, 4, 5, 8, 9}}

MCReceived(body) ==
  {Take(body, n) : n \in 0..Len(body)}
    \cup {[body EXCEPT ![i] = Xor(@, {ONE})] : i \in DOMAIN body}
=============================================================================
