------------------------------- MODULE AesCtr -------------------------------
(***************************************************************************)
(* The counter mode of src/aes256.cpp, as operators over one AES256        *)
(* object.  The block cipher is left abstract: encryptBlock(counter_)      *)
(* under a key is a block of bytes that no other key and counter produce.  *)
(* A byte is a set of atoms and xor is symmetric difference, so that two   *)
(* bytes are equal exactly when the same terms went into them.             *)
(***************************************************************************)
EXTENDS Integers, Sequences

CONSTANTS
  CIPHER_BLOCK,   \* 16 in the code
  CTR_MOD         \* the counter is 16 bytes: 2^128

ASSUME AesCtrAssumption ==
  /\ CIPHER_BLOCK \in Nat \ {0}
  /\ CTR_MOD \in Nat \ {0}

Xor(a, b) == (a \ b) \cup (b \ a)

\* setKey() and setCounter(): the object is its key and the next counter.
Cipher(key, iv) == [key |-> key, ctr |-> iv]

\* Byte i of encryptBlock(ctr) under key.
Keystream(key, ctr, i) == {<<key, ctr, i>>}

\* Mutant of KeystreamAt: incrementCounter() is never reached.
KeystreamAtFixedCounter(aes, p) == Keystream(aes.key, aes.ctr, p % CIPHER_BLOCK)

\* The keystream byte that meets position p, counted from 0, of one call.
KeystreamAt(aes, p) ==
  Keystream(aes.key, (aes.ctr + (p \div CIPHER_BLOCK)) % CTR_MOD, p % CIPHER_BLOCK)

\* Mutant of BlocksOf: a final partial block does not advance the counter.
BlocksOfWhole(n) == n \div CIPHER_BLOCK

\* The loop of processCTR advances the counter once per block it starts, the
\* last one included when it is partial: what is left of its keystream is lost.
BlocksOf(n) == (n + CIPHER_BLOCK - 1) \div CIPHER_BLOCK

\* processCTR(in): its output, and the object afterwards.
ProcessCTR(aes, in) == [i \in 1..Len(in) |-> Xor(in[i], KeystreamAt(aes, i - 1))]

\* Mutant of Advance: the carry out of the last byte is kept.
AdvanceUnbounded(aes, n) == [aes EXCEPT !.ctr = @ + BlocksOf(n)]

Advance(aes, n) == [aes EXCEPT !.ctr = (@ + BlocksOf(n)) % CTR_MOD]
=============================================================================
