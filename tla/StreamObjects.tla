---------------------------- MODULE StreamObjects ----------------------------
(***************************************************************************)
(* The Encryptor and the Decryptor of src/streaming_engine.cpp, as         *)
(* operators over the value of one object: what each call makes of it and  *)
(* what it returns.                                                        *)
(***************************************************************************)
EXTENDS Sha256, AesCtr

CONSTANT None     \* what a field holds that nothing has written

NewEncryptor ==
  [aes |-> Cipher(None, 0), hash |-> Reset, total |-> 0, initialized |-> FALSE]

NewDecryptor ==
  [aes |-> Cipher(None, 0), hash |-> Reset, total |-> 0, initialized |-> FALSE,
   computed |-> None, finalized |-> FALSE]

\* Encryptor::init.  The chunk size it stores is read nowhere.
EncryptorInit(e, key, iv) ==
  [e EXCEPT !.aes = Cipher(key, iv), !.hash = Reset, !.total = 0, !.initialized = TRUE]

\* Encryptor::processChunk: the object afterwards, and the bytes it writes.
EncryptorChunk(e, in) ==
  IF e.initialized
  THEN [e EXCEPT !.hash = Update(@, in), !.aes = Advance(@, Len(in)), !.total = @ + Len(in)]
  ELSE e

EncryptorOut(e, in) == IF e.initialized THEN ProcessCTR(e.aes, in) ELSE << >>

\* Encryptor::finalize: the digest is the hash state it leaves.
EncryptorFinalize(e) == [e EXCEPT !.hash = Finalize(@)]

\* Mutant of DecryptorInit: finalized_ keeps its value.
DecryptorInitKeepingVerdict(d, key, iv) ==
  [d EXCEPT !.aes = Cipher(key, iv), !.hash = Reset, !.total = 0, !.initialized = TRUE]

\* Mutant of DecryptorInit: the counter restarts at 0.
DecryptorInitWithoutCounter(d, key, iv) ==
  [d EXCEPT !.aes = Cipher(key, 0), !.hash = Reset, !.total = 0,
            !.initialized = TRUE, !.finalized = FALSE]

\* Decryptor::init.  computedDigest_ keeps its value.
DecryptorInit(d, key, iv) ==
  [d EXCEPT !.aes = Cipher(key, iv), !.hash = Reset, !.total = 0,
            !.initialized = TRUE, !.finalized = FALSE]

DecryptorOut(d, in) == IF d.initialized THEN ProcessCTR(d.aes, in) ELSE << >>

\* Mutant of DecryptorChunk: the ciphertext is hashed.
DecryptorChunkHashingInput(d, in) ==
  IF d.initialized
  THEN [d EXCEPT !.aes = Advance(@, Len(in)), !.hash = Update(@, in), !.total = @ + Len(in)]
  ELSE d

\* Decryptor::processChunk: finalized_ and computedDigest_ keep their values.
DecryptorChunk(d, in) ==
  IF d.initialized
  THEN [d EXCEPT !.aes = Advance(@, Len(in)), !.hash = Update(@, DecryptorOut(d, in)),
                 !.total = @ + Len(in)]
  ELSE d

\* Decryptor::finalize.
DecryptorFinalize(d) ==
  [d EXCEPT !.hash = Finalize(@), !.computed = Finalize(d.hash).state, !.finalized = TRUE]

\* Decryptor::verify, which changes nothing.
Verify(d, expected) == d.finalized /\ d.computed = expected
=============================================================================
