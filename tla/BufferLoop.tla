----------------------------- MODULE BufferLoop -----------------------------
(***************************************************************************)
(* encryptBuffer() and decryptBuffer() as the code runs them: an object on *)
(* the stack, a loop that hands it DEFAULT_CHUNK_SIZE bytes at a time, and *)
(* the finalize() that takes the digest.                                   *)
(***************************************************************************)
EXTENDS StreamObjects

CONSTANTS
  Key, IV,
  Plain,
  Received(_),
  CHUNK          \* DEFAULT_CHUNK_SIZE: 65536 in the code

\* Chunks that do not fill their cipher blocks would lose keystream.
ASSUME BufferLoopAssumption ==
  /\ CHUNK \in Nat \ {0}
  /\ CHUNK % CIPHER_BLOCK = 0

VARIABLES
  call, answer, box,
  obj,      \* the Encryptor or Decryptor of the running call
  buf       \* the caller's output buffer up to the loop's offset

vars == <<call, answer, box, obj, buf>>

Init ==
  /\ call = None /\ answer = None /\ box = None
  /\ obj = None
  /\ buf = << >>

Invoke(c, object) ==
  /\ call = None
  /\ call' = c
  /\ obj' = object
  /\ buf' = << >>
  /\ answer' = None
  /\ UNCHANGED box

InvokeEncrypt ==
  \E data \in Plain, key \in Key, iv \in IV :
    Invoke([op |-> "encrypt", data |-> data, key |-> key, iv |-> iv],
           EncryptorInit(NewEncryptor, key, iv))

InvokeDecrypt ==
  /\ box # None
  /\ \E data \in Received(box.sealed.data), key \in Key, iv \in IV :
       Invoke([op |-> "decrypt", data |-> data, key |-> key, iv |-> iv,
               expected |-> box.sealed.digest],
              DecryptorInit(NewDecryptor, key, iv))

\* Mutant of MoreToDo: a final chunk that is not full is left out.
MoreToDoFull(c, offset) == offset + CHUNK <= Len(c.data)

\* The loop condition, offset < inLen.
MoreToDo(c, offset) == offset < Len(c.data)

\* The next chunkLen bytes of the input.
NextChunk ==
  SubSeq(call.data, Len(buf) + 1,
         IF Len(call.data) - Len(buf) < CHUNK THEN Len(call.data) ELSE Len(buf) + CHUNK)

EncryptChunk ==
  /\ call # None /\ call.op = "encrypt" /\ MoreToDo(call, Len(buf))
  /\ obj' = EncryptorChunk(obj, NextChunk)
  /\ buf' = buf \o EncryptorOut(obj, NextChunk)
  /\ UNCHANGED <<call, answer, box>>

DecryptChunk ==
  /\ call # None /\ call.op = "decrypt" /\ MoreToDo(call, Len(buf))
  /\ obj' = DecryptorChunk(obj, NextChunk)
  /\ buf' = buf \o DecryptorOut(obj, NextChunk)
  /\ UNCHANGED <<call, answer, box>>

\* finalize() and return; the object goes out of scope.
ReturnEncrypt ==
  /\ call # None /\ call.op = "encrypt" /\ ~MoreToDo(call, Len(buf))
  /\ answer' = [data |-> buf, digest |-> EncryptorFinalize(obj).hash.state]
  /\ box' = [plain |-> call.data, key |-> call.key, iv |-> call.iv, sealed |-> answer']
  /\ call' = None /\ obj' = None
  /\ UNCHANGED buf

ReturnDecrypt ==
  /\ call # None /\ call.op = "decrypt" /\ ~MoreToDo(call, Len(buf))
  /\ answer' = [data |-> buf, verified |-> Verify(DecryptorFinalize(obj), call.expected)]
  /\ call' = None /\ obj' = None
  /\ UNCHANGED <<box, buf>>

Loop == EncryptChunk \/ DecryptChunk \/ ReturnEncrypt \/ ReturnDecrypt

Next == InvokeEncrypt \/ InvokeDecrypt \/ Loop

\* The loop runs on the caller's thread, which goes on to the return.
Spec == Init /\ [][Next]_vars /\ WF_vars(Loop)

-----------------------------------------------------------------------------
Calls == INSTANCE BufferCalls

\* streaming_engine.cpp:103-154.  The chunked loops are the one-shot calls:
\* the same ciphertext, digest, plaintext and verdict for every length around
\* the chunk and block sizes, and every call returns.
Implements == Calls!Spec

\* streaming_engine.cpp:128-154.  decryptBuffer() reports true exactly when it
\* gave back the bytes that were sealed, whatever reached it and whichever key
\* and counter it was given.
VerifiedIffRestored ==
  answer # None /\ "verified" \in DOMAIN answer =>
    (answer.verified <=> answer.data = box.plain)
=============================================================================
