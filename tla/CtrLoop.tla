------------------------------- MODULE CtrLoop -------------------------------
(***************************************************************************)
(* AES256::processCTR and AES256::incrementCounter as the code runs them:  *)
(* block after block, the counter an array of WIDTH digits whose carry     *)
(* travels up from the last one.  Between two steps of a call the array is *)
(* neither the counter before the block nor the one after it.              *)
(***************************************************************************)
EXTENDS AesCtr, SequencesExt

CONSTANTS
  Key, Input,
  None,
  BASE,     \* the values of a digit of counter_: 256
  WIDTH     \* its digits: 16

ASSUME CtrLoopAssumption ==
  /\ BASE \in Nat \ {0, 1}
  /\ WIDTH \in Nat \ {0}
  /\ CTR_MOD = BASE ^ WIDTH

VARIABLES
  key,       \* the expanded key
  counter,   \* counter_, the most significant digit first
  call,      \* the input of the running call, or None
  buf,       \* the caller's output buffer, as far as it is written
  carry      \* the digit incrementCounter() is about to increment; 0: none

vars == <<key, counter, call, buf, carry>>

Digits == 0..(BASE - 1)

\* What a big-endian array of digits stands for.
Value(c) == FoldLeft(LAMBDA n, d : n * BASE + d, 0, c)

Init ==
  /\ key \in Key
  /\ counter \in [1..WIDTH -> Digits]
  /\ call = None
  /\ buf = << >>
  /\ carry = 0

SetCounter(iv) ==
  /\ call = None
  /\ counter' = iv
  /\ UNCHANGED <<key, call, buf, carry>>

Start(in) ==
  /\ call = None
  /\ call' = in
  /\ buf' = << >>
  /\ UNCHANGED <<key, counter, carry>>

\* The loop condition, offset < len.
MoreToDo == call # None /\ carry = 0 /\ Len(buf) < Len(call)

BlockLen ==
  IF Len(call) - Len(buf) < CIPHER_BLOCK THEN Len(call) - Len(buf) ELSE CIPHER_BLOCK

\* encryptBlock(counter_) xored over the next block of the input.
XorBlock ==
  /\ MoreToDo
  /\ buf' = buf \o [i \in 1..BlockLen |->
                      Xor(call[Len(buf) + i], Keystream(key, Value(counter), i - 1))]
  /\ carry' = WIDTH
  /\ UNCHANGED <<key, counter, call>>

\* Mutant of CarriesOn: the digit is tested before it is incremented.
CarriesOnBefore(digit) == digit = BASE - 2

\* ++counter_[i] came to zero: the digit wrapped.
CarriesOn(digit) == digit = BASE - 1

\* One turn of the loop of incrementCounter().
Increment ==
  /\ carry > 0
  /\ counter' = [counter EXCEPT ![carry] = (@ + 1) % BASE]
  /\ carry' = IF CarriesOn(counter[carry]) THEN carry - 1 ELSE 0
  /\ UNCHANGED <<key, call, buf>>

Return ==
  /\ call # None /\ carry = 0 /\ ~MoreToDo
  /\ call' = None
  /\ UNCHANGED <<key, counter, buf, carry>>

Loop == XorBlock \/ Increment \/ Return

Next == \/ \E iv \in [1..WIDTH -> Digits] : SetCounter(iv)
        \/ \E in \in Input : Start(in)
        \/ Loop

\* The loop runs on the caller's thread, which goes on to the return.
Spec == Init /\ [][Next]_vars /\ WF_vars(Loop)

-----------------------------------------------------------------------------
\* What the increment that is under way still has to add.
Pending == IF carry = 0 THEN 0 ELSE BASE ^ (WIDTH - carry)

\* The counter when the running call began.
EntryCounter == ((Value(counter) + Pending) - BlocksOf(Len(buf))) % CTR_MOD

Calls == INSTANCE CtrCalls WITH
  aes <- Cipher(key, IF call = None THEN Value(counter) ELSE EntryCounter),
  out <- IF call = None THEN buf ELSE << >>

\* aes256.cpp:181-206.  The block loop and the carry chain, step by step, are
\* the one-step call on a numeric counter: also when the carry runs through
\* every digit and the counter wraps, for empty inputs and for inputs that end
\* inside a block; and every call returns.
Implements == Calls!Spec
=============================================================================
