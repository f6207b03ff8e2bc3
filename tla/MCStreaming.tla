----------------------------- MODULE MCStreaming -----------------------------
(***************************************************************************)
(* Streams over two plaintext bytes, {} and {ONE}, with cipher blocks of 2 *)
(* bytes and hash blocks of 4.  A flipped byte turns one plaintext into    *)
(* another, so damage is seen by the digest alone.                         *)
(***************************************************************************)
EXTENDS StreamingEngine

ONE == <<"one">>

MCZero == {}
MCMark == {<<"mark">>}
MCFlip == {ONE}
\* The length field, free of any other byte: a bit count in one byte.
MCField(n) == <<{<<"length", n>>}>>

\* Every byte is a set of such atoms.
MCByte == SUBSET ({ONE, <<"mark">>} \cup ({"length"} \X Nat) \cup (Key \X Nat \X Nat))

Text(n) == [i \in 1..n |-> IF i % 2 = 1 THEN {ONE} ELSE {}]

MCChunks == {Text(n) : n \in 1..3}
=============================================================================
