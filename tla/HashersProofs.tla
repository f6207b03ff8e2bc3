--------------------------- MODULE HashersProofs ---------------------------
(***************************************************************************)
(* TypeOK, NothingLost, DigestIsStandard and EqualDigestsEqualMessages     *)
(* hold of every SHA256 object for every block size, length-field size,    *)
(* counter width and input.                                                *)
(***************************************************************************)
EXTENDS Hashers, OperatorProofs

-----------------------------------------------------------------------------
(* The specification                                                       *)

\* TypeOK fixes the widths, NothingLost says what an object that has not been
\* finalized stands for; DigestIsStandard needs both at the step that writes
\* the digest.  Together the three are inductive.
IInv == TypeOK /\ NothingLost /\ DigestIsStandard

\* New objects satisfy the inductive invariant.
LEMMA InitIInv == Init => IInv
<1> SUFFICES ASSUME Init PROVE IInv
  OBVIOUS
<1>1. /\ BLOCK_SIZE \in Nat /\ BLOCK_SIZE > 0 /\ BIT_MOD \in Nat /\ BIT_MOD > 0
  BY Sha256Assumption
<1>2. << >> \in Seq(Byte) /\ Len(<< >>) = 0 /\ << >> \o << >> = << >>
  BY Empty
<1>3. Reset \in Hashed /\ Len(Reset.buffer) = 0
  BY <1>1, <1>2 DEF Reset, Hashed
<1>4. StandsFor(Reset, << >>)
  <2>1. 0 % BLOCK_SIZE = 0 /\ (8 * 0) % BIT_MOD = 0
    BY <1>1
  <2> QED BY <1>1, <1>2, <2>1 DEF StandsFor, Reset, InBlocks
<1>5. TypeOK
  BY <1>1, <1>2, <1>3 DEF TypeOK, Init
<1>6. NothingLost
  BY <1>4 DEF NothingLost, Init
<1>7. DigestIsStandard
  BY DEF DigestIsStandard, Init
<1> QED BY <1>5, <1>6, <1>7 DEF IInv

\* Every call of every object keeps it.
LEMMA NextIInv == IInv /\ [Next]_vars => IInv'
<1> SUFFICES ASSUME IInv, [Next]_vars PROVE IInv'
  OBVIOUS
<1> USE DEF IInv
<1>1. CASE UNCHANGED vars
  BY <1>1 DEF vars, TypeOK, NothingLost, DigestIsStandard
<1>2. ASSUME NEW h \in Hasher, NEW data \in Inputs, DoUpdate(h, data)
      PROVE  IInv'
  <2> DEFINE new == Update(ctx[h], data)
  <2>1. ctx[h] \in Hashed /\ Len(ctx[h].buffer) <= BLOCK_SIZE /\ msg[h] \in Seq(Byte)
    BY DEF TypeOK
  <2>2. data \in Seq(Byte)
    BY HashersAssumption
  <2>3. /\ new \in Hashed /\ Len(new.buffer) <= BLOCK_SIZE
        /\ msg[h] \o data \in Seq(Byte)
    BY <2>1, <2>2, UpdateType, Joined
  <2>4. finals[h] = 0 => StandsFor(new, msg[h] \o data)
    BY <2>1, <2>2, UpdateStandsFor DEF NothingLost
  <2> HIDE DEF new
  <2>5. /\ ctx' = [ctx EXCEPT ![h] = new]
        /\ msg' = [msg EXCEPT ![h] = msg[h] \o data]
        /\ finals' = finals /\ digest' = digest /\ said' = said
    BY <1>2 DEF DoUpdate, new
  <2>6. TypeOK'
    BY <2>3, <2>5 DEF TypeOK
  <2>7. NothingLost'
    BY <2>4, <2>5 DEF TypeOK, NothingLost
  <2>8. DigestIsStandard'
    BY <2>5 DEF DigestIsStandard
  <2> QED BY <2>6, <2>7, <2>8
<1>3. ASSUME NEW h \in Hasher, DoFinalize(h)
      PROVE  IInv'
  <2> DEFINE new == Finalize(ctx[h])
  <2>1. /\ ctx[h] \in Hashed /\ Len(ctx[h].buffer) <= BLOCK_SIZE
        /\ msg[h] \in Seq(Byte) /\ finals[h] \in Nat
    BY DEF TypeOK
  <2>2. new \in Hashed /\ Len(new.buffer) <= BLOCK_SIZE
    <3>1. new \in Hashed /\ Len(new.buffer) = BLOCK_SIZE
      BY <2>1, FinalizeType
    <3> QED BY <3>1, Sha256Assumption
  <2>3. new.state \in Seq(Byte)
    BY <2>2 DEF Hashed
  <2>4. finals[h] = 0 => new.state = Padded(msg[h])
    BY <2>1, FinalizeStandard DEF NothingLost
  <2> HIDE DEF new
  <2>5. /\ ctx'    = [ctx EXCEPT ![h] = new]
        /\ digest' = [digest EXCEPT ![h] = new.state]
        /\ said'   = [said EXCEPT ![h] = msg[h]]
        /\ msg'    = [msg EXCEPT ![h] = << >>]
        /\ finals' = [finals EXCEPT ![h] = finals[h] + 1]
    BY <1>3 DEF DoFinalize, new
  <2>6. TypeOK'
    BY <2>1, <2>2, <2>3, <2>5, Empty DEF TypeOK
  <2>7. NothingLost'
    BY <2>1, <2>5 DEF TypeOK, NothingLost
  <2>8. DigestIsStandard'
    BY <2>1, <2>4, <2>5 DEF TypeOK, DigestIsStandard
  <2> QED BY <2>6, <2>7, <2>8
<1>4. ASSUME NEW h \in Hasher, DoReset(h)
      PROVE  IInv'
  <2>1. /\ BLOCK_SIZE \in Nat /\ BLOCK_SIZE > 0 /\ BIT_MOD \in Nat /\ BIT_MOD > 0
    BY Sha256Assumption
  <2>2. << >> \in Seq(Byte) /\ Len(<< >>) = 0 /\ << >> \o << >> = << >>
    BY Empty
  <2>3. Reset \in Hashed /\ Len(Reset.buffer) <= BLOCK_SIZE
    BY <2>1, <2>2 DEF Reset, Hashed
  <2>4. StandsFor(Reset, << >>)
    <3>1. 0 % BLOCK_SIZE = 0 /\ (8 * 0) % BIT_MOD = 0
      BY <2>1
    <3> QED BY <2>1, <2>2, <3>1 DEF StandsFor, Reset, InBlocks
  <2>5. TypeOK'
    BY <1>4, <2>2, <2>3 DEF TypeOK, DoReset
  <2>6. NothingLost'
    BY <1>4, <2>4 DEF TypeOK, NothingLost, DoReset
  <2>7. DigestIsStandard'
    BY <1>4 DEF TypeOK, DigestIsStandard, DoReset
  <2> QED BY <2>5, <2>6, <2>7
<1> QED BY <1>1, <1>2, <1>3, <1>4 DEF Next

\* Every reachable state satisfies the inductive invariant.
THEOREM Invariance == Spec => []IInv
  BY InitIInv, NextIInv, PTL DEF Spec

\* The fields keep their widths and the buffer stays within buffer_[64]
\* (sha256.cpp:83-147), for every block size, counter width and input.
THEOREM TypeCorrect == Spec => []TypeOK
<1>1. IInv => TypeOK
  BY DEF IInv
<1> QED BY <1>1, Invariance, PTL

\* However the input is cut into update() calls, what is compressed and what is
\* buffered is the input, in order (sha256.cpp:83-113).
THEOREM SplitsDoNotMatter == Spec => []NothingLost
<1>1. IInv => NothingLost
  BY DEF IInv
<1> QED BY <1>1, Invariance, PTL

\* The digest that follows a reset is the compression of the standard's
\* padding of the input (sha256.cpp:115-147).
THEOREM DigestsAreStandard == Spec => []DigestIsStandard
<1>1. IInv => DigestIsStandard
  BY DEF IInv
<1> QED BY <1>1, Invariance, PTL

\* Two objects used once after a reset hold the same digest exactly when they
\* were given the same bytes: what verify() (streaming_engine.cpp:96-99) and
\* the integrity checks (encryption_engine.cpp:151, 205) rely on.
THEOREM DigestsTellApart == Spec => []EqualDigestsEqualMessages
<1>1. IInv => EqualDigestsEqualMessages
  <2> SUFFICES ASSUME IInv, NEW g \in Hasher, NEW h \in Hasher,
                      finals[g] = 1, finals[h] = 1,
                      8 * Len(said[g]) < BIT_MOD, 8 * Len(said[h]) < BIT_MOD
               PROVE  digest[g] = digest[h] <=> said[g] = said[h]
    BY DEF EqualDigestsEqualMessages
  <2>1. digest[g] = Padded(said[g]) /\ digest[h] = Padded(said[h])
    BY DEF IInv, DigestIsStandard
  <2>2. said[g] \in Seq(Byte) /\ said[h] \in Seq(Byte)
    BY DEF IInv, TypeOK
  <2>3. digest[g] = digest[h] => said[g] = said[h]
    BY <2>1, <2>2, PaddedInjective
  <2> QED BY <2>1, <2>3
<1> QED BY <1>1, Invariance, PTL
=============================================================================
