----------------------------- MODULE BufferCalls -----------------------------
(***************************************************************************)
(* What encryptBuffer() and decryptBuffer() of src/streaming_engine.cpp    *)
(* promise: one call of either is one application of the cipher to the     *)
(* whole buffer and one hash of the whole plaintext.  A writer seals       *)
(* buffers; a reader opens what has reached it of the last one.            *)
(***************************************************************************)
EXTENDS Sha256, AesCtr

CONSTANTS
  Key, IV,
  Plain,         \* the buffers the writer may seal
  Received(_),   \* what may reach the reader of a sealed buffer
  None

VARIABLES
  call,     \* the arguments of the running call, or None
  answer,   \* what the last call returned, or None
  box       \* the last sealed buffer: its arguments and its answer

vars == <<call, answer, box>>

\* encryptBuffer(): ciphertext and digest.
Sealed(c) == [data   |-> ProcessCTR(Cipher(c.key, c.iv), c.data),
              digest |-> Hash(c.data)]

\* decryptBuffer(): plaintext and verdict.
Restored(c) ==
  LET plain == ProcessCTR(Cipher(c.key, c.iv), c.data)
  IN [data |-> plain, verified |-> Hash(plain) = c.expected]

Init ==
  /\ call = None
  /\ answer = None
  /\ box = None

Invoke(c) ==
  /\ call = None
  /\ call' = c
  /\ answer' = None
  /\ UNCHANGED box

InvokeEncrypt ==
  \E data \in Plain, key \in Key, iv \in IV :
    Invoke([op |-> "encrypt", data |-> data, key |-> key, iv |-> iv])

\* The key and the counter may be wrong; the digest is the sealed buffer's.
InvokeDecrypt ==
  /\ box # None
  /\ \E data \in Received(box.sealed.data), key \in Key, iv \in IV :
       Invoke([op |-> "decrypt", data |-> data, key |-> key, iv |-> iv,
               expected |-> box.sealed.digest])

ReturnEncrypt ==
  /\ call # None /\ call.op = "encrypt"
  /\ answer' = Sealed(call)
  /\ box' = [plain |-> call.data, key |-> call.key, iv |-> call.iv, sealed |-> answer']
  /\ call' = None

ReturnDecrypt ==
  /\ call # None /\ call.op = "decrypt"
  /\ answer' = Restored(call)
  /\ call' = None
  /\ UNCHANGED box

Return == ReturnEncrypt \/ ReturnDecrypt

Next == InvokeEncrypt \/ InvokeDecrypt \/ Return

\* A running call is a loop on the caller's thread: it goes on to its end.
Spec == Init /\ [][Next]_vars /\ WF_vars(Return)
=============================================================================
