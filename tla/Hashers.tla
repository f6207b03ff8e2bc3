------------------------------- MODULE Hashers -------------------------------
(***************************************************************************)
(* SHA256 objects under any sequence of calls their owners may make.  The  *)
(* class refuses nothing: update(), finalize() and reset() are accepted in *)
(* every state, also after finalize(), which is how the streaming engine   *)
(* can drive it.                                                           *)
(***************************************************************************)
EXTENDS Sha256

CONSTANTS
  Hasher,      \* the objects
  Inputs,      \* what one update() call may be given
  MaxBytes,    \* bound on the bytes an object is fed between resets, counting
               \* those its last digest covered
  MaxFinals    \* bound on the finalize() calls between resets

ASSUME HashersAssumption ==
  /\ Inputs \subseteq Seq(Byte)
  /\ MaxBytes \in Nat
  /\ MaxFinals \in Nat \ {0}

VARIABLES
  ctx,      \* the object's fields
  msg,      \* history: the bytes fed since reset() or the last finalize()
  finals,   \* history: finalize() calls since reset()
  digest,   \* the digest written by the last finalize() since reset()
  said      \* history: the value of msg when that digest was written

vars == <<ctx, msg, finals, digest, said>>

Init ==
  /\ ctx    = [h \in Hasher |-> Reset]
  /\ msg    = [h \in Hasher |-> << >>]
  /\ finals = [h \in Hasher |-> 0]
  /\ digest = [h \in Hasher |-> << >>]
  /\ said   = [h \in Hasher |-> << >>]

DoUpdate(h, data) ==
  /\ Len(said[h]) + Len(msg[h]) + Len(data) <= MaxBytes
  /\ ctx' = [ctx EXCEPT ![h] = Update(@, data)]
  /\ msg' = [msg EXCEPT ![h] = @ \o data]
  /\ UNCHANGED <<finals, digest, said>>

DoFinalize(h) ==
  /\ finals[h] < MaxFinals
  /\ ctx'    = [ctx EXCEPT ![h] = Finalize(@)]
  /\ digest' = [digest EXCEPT ![h] = Finalize(ctx[h]).state]
  /\ said'   = [said EXCEPT ![h] = msg[h]]
  /\ msg'    = [msg EXCEPT ![h] = << >>]
  /\ finals' = [finals EXCEPT ![h] = @ + 1]

\* Mutant of DoReset: bufferLen_ keeps its value.
DoResetKeepingBuffer(h) ==
  /\ ctx'    = [ctx EXCEPT ![h] = [Reset EXCEPT !.buffer = ctx[h].buffer]]
  /\ msg'    = [msg EXCEPT ![h] = << >>]
  /\ finals' = [finals EXCEPT ![h] = 0]
  /\ digest' = [digest EXCEPT ![h] = << >>]
  /\ said'   = [said EXCEPT ![h] = << >>]

DoReset(h) ==
  /\ ctx'    = [ctx EXCEPT ![h] = Reset]
  /\ msg'    = [msg EXCEPT ![h] = << >>]
  /\ finals' = [finals EXCEPT ![h] = 0]
  /\ digest' = [digest EXCEPT ![h] = << >>]
  /\ said'   = [said EXCEPT ![h] = << >>]

Next == \E h \in Hasher : \/ \E data \in Inputs : DoUpdate(h, data)
                          \/ DoFinalize(h)
                          \/ DoReset(h)

Spec == Init /\ [][Next]_vars

-----------------------------------------------------------------------------
\* The fields keep their types, and the buffer never outgrows buffer_[64].
TypeOK ==
  /\ ctx \in [Hasher -> Hashed]
  /\ msg \in [Hasher -> Seq(Byte)]
  /\ finals \in [Hasher -> Nat]
  /\ digest \in [Hasher -> Seq(Byte)]
  /\ said \in [Hasher -> Seq(Byte)]
  /\ \A h \in Hasher : Len(ctx[h].buffer) <= BLOCK_SIZE

\* sha256.cpp:83-113.  However the input was cut into update() calls, the
\* blocks compressed so far followed by the buffered bytes are the input: no
\* byte lost, repeated or moved, only whole blocks compressed, no full block
\* left waiting, and the bit counter agrees modulo its width.
NothingLost ==
  \A h \in Hasher : finals[h] = 0 => StandsFor(ctx[h], msg[h])

\* sha256.cpp:115-147.  The first digest after a reset is the compression of
\* the standard's padded message, whatever the split, for the lengths whose
\* padding fits the last block and for those that need one more.
DigestIsStandard ==
  \A h \in Hasher : finals[h] = 1 => digest[h] = Padded(said[h])

\* Two objects used once after reset() agree exactly when they were given the
\* same bytes: what verify() and the integrity checks rely on.  Messages whose
\* bit count wraps are left out, as the standard does.
EqualDigestsEqualMessages ==
  \A g, h \in Hasher :
    /\ finals[g] = 1 /\ finals[h] = 1
    /\ 8 * Len(said[g]) < BIT_MOD /\ 8 * Len(said[h]) < BIT_MOD
    => (digest[g] = digest[h] <=> said[g] = said[h])

\* sha256.h:63 says of finalize(): "After calling, the hasher state is reset."
\* Then every digest is the digest of the bytes fed since the previous one.
FinalizeStartsAfresh ==
  \A h \in Hasher : finals[h] > 0 => digest[h] = Padded(said[h])
=============================================================================
