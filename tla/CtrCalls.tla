------------------------------ MODULE CtrCalls ------------------------------
(***************************************************************************)
(* What one AES256 object promises its caller: the counter is a number,    *)
(* and processCTR() is one step that returns the input xored with the      *)
(* keystream and leaves the counter past the blocks it began.              *)
(***************************************************************************)
EXTENDS AesCtr

CONSTANTS
  Key, Input,    \* keys, and what processCTR() may be given
  None           \* no call is running

VARIABLES
  aes,      \* key and counter_, as a number
  call,     \* the input of the call that is running
  out       \* what the last call returned

vars == <<aes, call, out>>

Init ==
  /\ \E key \in Key, iv \in 0..(CTR_MOD - 1) : aes = Cipher(key, iv)
  /\ call = None
  /\ out = << >>

SetCounter(iv) ==
  /\ call = None
  /\ aes' = [aes EXCEPT !.ctr = iv]
  /\ UNCHANGED <<call, out>>

Start(in) ==
  /\ call = None
  /\ call' = in
  /\ out' = << >>
  /\ UNCHANGED aes

Return ==
  /\ call # None
  /\ out' = ProcessCTR(aes, call)
  /\ aes' = Advance(aes, Len(call))
  /\ call' = None

Next == \/ \E iv \in 0..(CTR_MOD - 1) : SetCounter(iv)
        \/ \E in \in Input : Start(in)
        \/ Return

\* A running call is a loop on the caller's thread: it goes on to its end.
Spec == Init /\ [][Next]_vars /\ WF_vars(Return)
=============================================================================
