-------------------------- MODULE BufferLoopProofs --------------------------
(***************************************************************************)
(* encryptBuffer() and decryptBuffer() give what one application of the    *)
(* cipher and of the hash to the whole buffer would give, and decryptBuffer*)
(* reports true exactly when the sealed bytes came back: for every block   *)
(* size, chunk size, counter width, key, counter and buffer.               *)
(***************************************************************************)
EXTENDS BufferLoop, OperatorProofs

\* The buffers whose bit count fits the hasher's counter.
Short == {s \in Seq(Byte) : 8 * Len(s) < BIT_MOD}

\* What the callers hand in: buffers of bytes that fit, a counter that fits
\* its 16 bytes, and a cipher whose output is bytes.
Environment ==
  /\ Plain \subseteq Short
  /\ \A s \in Short : Received(s) \subseteq Short
  /\ IV \subseteq 0..(CTR_MOD - 1)
  /\ \A key \in Key, iv \in IV : Closed(Cipher(key, iv), Byte)

-----------------------------------------------------------------------------
(* The inductive invariant                                                 *)

\* The object in the middle of a call: c is its cipher, h its hasher.
EncryptorAt(c, h, t) ==
  [aes |-> c, hash |-> h, total |-> t, initialized |-> TRUE]
\* A decryptor that has come so far.
DecryptorAt(c, h, t) ==
  [aes |-> c, hash |-> h, total |-> t, initialized |-> TRUE,
   computed |-> None, finalized |-> FALSE]

\* The cipher of the call.
Fresh == Cipher(call.key, call.iv)

\* The arguments of the running call, and how far it has come.
Underway ==
  /\ call.op \in {"encrypt", "decrypt"}
  /\ call.data \in Short /\ call.key \in Key /\ call.iv \in IV
  /\ buf \in Seq(Byte) /\ Len(buf) \in 0..Len(call.data)
  /\ Len(buf) < Len(call.data) => Len(buf) % CIPHER_BLOCK = 0
  /\ buf = ProcessCTR(Fresh, Take(call.data, Len(buf)))

\* What the object has hashed is the plaintext so far.
ObjectAt ==
  \E h \in Hashed, t \in Nat :
    \/ /\ call.op = "encrypt"
       /\ obj = EncryptorAt(Advance(Fresh, Len(buf)), h, t)
       /\ StandsFor(h, Take(call.data, Len(buf)))
    \/ /\ call.op = "decrypt"
       /\ obj = DecryptorAt(Advance(Fresh, Len(buf)), h, t)
       /\ StandsFor(h, buf)

\* The sealed buffer, and the digest a running decryption was given.
BoxInv ==
  /\ box # None => /\ box.plain \in Short
                   /\ box.sealed.data \in Short
                   /\ box.sealed.digest = Padded(box.plain)
  /\ call # None /\ call.op = "decrypt" =>
       box # None /\ call.expected = box.sealed.digest

\* The inductive invariant.
IInv ==
  /\ call # None => Underway /\ ObjectAt
  /\ BoxInv
  /\ VerifiedIffRestored

-----------------------------------------------------------------------------
(* Lemmas about the operators                                              *)

\* What a chunk does to an object in the middle of a call.
LEMMA ChunkFields ==
  ASSUME NEW c, NEW h, NEW t, NEW in
  PROVE  /\ EncryptorChunk(EncryptorAt(c, h, t), in)
              = EncryptorAt(Advance(c, Len(in)), Update(h, in), t + Len(in))
         /\ EncryptorOut(EncryptorAt(c, h, t), in) = ProcessCTR(c, in)
         /\ DecryptorChunk(DecryptorAt(c, h, t), in)
              = DecryptorAt(Advance(c, Len(in)), Update(h, ProcessCTR(c, in)), t + Len(in))
         /\ DecryptorOut(DecryptorAt(c, h, t), in) = ProcessCTR(c, in)
<1>1. EncryptorChunk(EncryptorAt(c, h, t), in)
        = EncryptorAt(Advance(c, Len(in)), Update(h, in), t + Len(in))
  BY DEF EncryptorChunk, EncryptorAt
<1>2. EncryptorOut(EncryptorAt(c, h, t), in) = ProcessCTR(c, in)
  BY DEF EncryptorOut, EncryptorAt
<1>3. DecryptorOut(DecryptorAt(c, h, t), in) = ProcessCTR(c, in)
  BY DEF DecryptorOut, DecryptorAt
<1>4. DecryptorChunk(DecryptorAt(c, h, t), in)
        = DecryptorAt(Advance(c, Len(in)), Update(h, ProcessCTR(c, in)), t + Len(in))
  BY <1>3 DEF DecryptorChunk, DecryptorAt
<1> QED BY <1>1, <1>2, <1>3, <1>4

\* init() leaves an object that has hashed and enciphered nothing.
LEMMA InitFields ==
  ASSUME NEW key, NEW iv
  PROVE  /\ EncryptorInit(NewEncryptor, key, iv) = EncryptorAt(Cipher(key, iv), Reset, 0)
         /\ DecryptorInit(NewDecryptor, key, iv) = DecryptorAt(Cipher(key, iv), Reset, 0)
<1>1. EncryptorInit(NewEncryptor, key, iv) = EncryptorAt(Cipher(key, iv), Reset, 0)
  <2> DEFINE r == EncryptorInit(NewEncryptor, key, iv)
  <2>1. r = [x \in {"aes", "hash", "total", "initialized"} |-> r[x]]
    BY DEF EncryptorInit, NewEncryptor
  <2>2. r.aes = Cipher(key, iv) /\ r.hash = Reset /\ r.total = 0
    BY DEF EncryptorInit, NewEncryptor
  <2>3. r.initialized = TRUE
    BY DEF EncryptorInit, NewEncryptor
  <2> HIDE DEF r
  <2>4. r = EncryptorAt(Cipher(key, iv), Reset, 0)
    BY ONLY <2>1, <2>2, <2>3 DEF EncryptorAt
  <2> QED BY <2>4 DEF r
<1>2. DecryptorInit(NewDecryptor, key, iv) = DecryptorAt(Cipher(key, iv), Reset, 0)
  <2> DEFINE r == DecryptorInit(NewDecryptor, key, iv)
  <2>1. r = [x \in {"aes", "hash", "total", "initialized",
                     "computed", "finalized"} |-> r[x]]
    BY DEF DecryptorInit, NewDecryptor
  <2>2. r.aes = Cipher(key, iv) /\ r.hash = Reset /\ r.total = 0
    BY DEF DecryptorInit, NewDecryptor
  <2>3. r.initialized = TRUE /\ r.computed = None /\ r.finalized = FALSE
    BY DEF DecryptorInit, NewDecryptor
  <2> HIDE DEF r
  <2>4. r = DecryptorAt(Cipher(key, iv), Reset, 0)
    BY ONLY <2>1, <2>2, <2>3 DEF DecryptorAt
  <2> QED BY <2>4 DEF r
<1> QED BY <1>1, <1>2

\* What finalize() and verify() make of it.
LEMMA FinalFields ==
  ASSUME NEW c, NEW h, NEW t, NEW expected
  PROVE  /\ EncryptorFinalize(EncryptorAt(c, h, t)).hash.state = Finalize(h).state
         /\ Verify(DecryptorFinalize(DecryptorAt(c, h, t)), expected)
              <=> Finalize(h).state = expected
<1>1. EncryptorFinalize(EncryptorAt(c, h, t)).hash.state = Finalize(h).state
  BY DEF EncryptorFinalize, EncryptorAt
<1>2. /\ DecryptorFinalize(DecryptorAt(c, h, t)).finalized = TRUE
      /\ DecryptorFinalize(DecryptorAt(c, h, t)).computed = Finalize(h).state
  BY DEF DecryptorFinalize, DecryptorAt
<1>3. Verify(DecryptorFinalize(DecryptorAt(c, h, t)), expected)
        <=> Finalize(h).state = expected
  BY <1>2 DEF Verify
<1> QED BY <1>1, <1>3

\* A hasher just reset stands for the empty message.
LEMMA ResetFacts == Reset \in Hashed /\ StandsFor(Reset, << >>)
<1>1. /\ BLOCK_SIZE \in Nat /\ BLOCK_SIZE > 0 /\ BIT_MOD \in Nat /\ BIT_MOD > 0
  BY Sha256Assumption
<1>2. << >> \in Seq(Byte) /\ Len(<< >>) = 0 /\ << >> \o << >> = << >>
  BY Empty
<1>3. 0 % BLOCK_SIZE = 0 /\ (8 * 0) % BIT_MOD = 0
  BY <1>1
<1>4. Reset \in Hashed
  BY <1>1, <1>2 DEF Reset, Hashed
<1>5. StandsFor(Reset, << >>)
  BY <1>1, <1>2, <1>3 DEF StandsFor, Reset, InBlocks
<1> QED BY <1>4, <1>5

\* The one-shot hash is the compression of the standard's padded message.
LEMMA HashIsPadded ==
  ASSUME NEW m \in Seq(Byte)
  PROVE  Hash(m) = Padded(m)
<1>1. Reset \in Hashed /\ StandsFor(Reset, << >>) /\ Len(Reset.buffer) <= BLOCK_SIZE
  BY ResetFacts, Empty, Sha256Assumption DEF Reset
<1>2. << >> \in Seq(Byte) /\ << >> \o m = m
  BY Empty
<1>3. Update(Reset, m) \in Hashed
  BY <1>1, UpdateType
<1>4. StandsFor(Update(Reset, m), << >> \o m)
  BY <1>1, <1>2, UpdateStandsFor
<1>5. StandsFor(Update(Reset, m), m)
  BY <1>2, <1>4
<1> QED BY <1>3, <1>5, FinalizeStandard DEF Hash

\* Where the chunk that starts behind n bytes ends.
ChunkEnd(data, n) == IF Len(data) - n < CHUNK THEN Len(data) ELSE n + CHUNK

\* The next chunk is not empty, continues the input where the buffer ends, and
\* ends on a cipher block unless it ends the input.
LEMMA ChunkFacts ==
  ASSUME NEW data \in Seq(Byte), NEW n \in 0..Len(data), n < Len(data),
         n % CIPHER_BLOCK = 0
  PROVE  LET e    == ChunkEnd(data, n)
             next == SubSeq(data, n + 1, e)
         IN /\ next \in Seq(Byte) /\ Len(next) = e - n
            /\ e \in 0..Len(data) /\ e - n \in Nat
            /\ e < Len(data) => e % CIPHER_BLOCK = 0
            /\ Take(data, n) \o next = Take(data, e)
<1> DEFINE e    == ChunkEnd(data, n)
           next == SubSeq(data, n + 1, e)
<1>1. Len(data) \in Nat /\ CHUNK \in Nat /\ CHUNK > 0
  BY LenProperties, BufferLoopAssumption
<1>2. e \in 0..Len(data) /\ n < e /\ e - n \in Nat /\ (e < Len(data) => e = n + CHUNK)
  BY <1>1 DEF ChunkEnd
<1> HIDE DEF e
<1>3. e < Len(data) => e % CIPHER_BLOCK = 0
  <2> SUFFICES ASSUME e < Len(data) PROVE e % CIPHER_BLOCK = 0
    OBVIOUS
  <2>1. e = n + CHUNK
    BY <1>2
  <2>2. (n + CHUNK) % CIPHER_BLOCK = n % CIPHER_BLOCK
    <3>1. /\ CIPHER_BLOCK \in Nat /\ CIPHER_BLOCK > 0
          /\ CHUNK \in Int /\ n \in Int
      BY <1>1, AesCtrAssumption
    <3>2. ((CHUNK % CIPHER_BLOCK) + n) % CIPHER_BLOCK = (CHUNK + n) % CIPHER_BLOCK
      BY ONLY <3>1, ModPlus
    <3>3. ((CHUNK % CIPHER_BLOCK) + n) % CIPHER_BLOCK = n % CIPHER_BLOCK
      <4>1. CHUNK % CIPHER_BLOCK = 0
        BY BufferLoopAssumption
      <4>2. 0 + n = n
        BY <3>1
      <4> QED BY <4>1, <4>2, Zenon
    <3> QED BY ONLY <3>1, <3>2, <3>3
  <2> QED BY <2>1, <2>2
<1>4. \A i \in 1..Len(data) : data[i] \in Byte
  BY ElementOfSeq
<1>5. /\ next \in Seq(Byte) /\ Len(next) = e - n
      /\ \A i \in 1..(e - n) : next[i] = data[n + i]
  <2>1. /\ n + 1 \in Int /\ e \in Int /\ e - (n + 1) + 1 = e - n
        /\ \A i \in (n + 1)..e : data[i] \in Byte
    BY <1>1, <1>2, <1>4
  <2> QED BY <1>1, <1>2, <2>1, SubSeqProperties, SMTT(30)
<1>6. /\ Take(data, n) \in Seq(Byte) /\ Len(Take(data, n)) = n
      /\ Take(data, e) \in Seq(Byte) /\ Len(Take(data, e)) = e
      /\ \A i \in 1..n : Take(data, n)[i] = data[i]
      /\ \A i \in 1..e : Take(data, e)[i] = data[i]
  BY <1>1, <1>2, <1>4, SubSeqProperties DEF Take
<1> HIDE DEF next
<1>7. /\ Take(data, n) \o next \in Seq(Byte) /\ Len(Take(data, n) \o next) = e
      /\ \A i \in 1..e : (Take(data, n) \o next)[i]
            = IF i <= n THEN Take(data, n)[i] ELSE next[i - n]
  <2> DEFINE head == Take(data, n)
  <2>1. head \in Seq(Byte) /\ Len(head) = n /\ next \in Seq(Byte) /\ Len(next) = e - n
    BY <1>5, <1>6
  <2> HIDE DEF head
  <2>2. /\ head \o next \in Seq(Byte) /\ Len(head \o next) = Len(head) + Len(next)
        /\ \A i \in 1..(Len(head) + Len(next)) :
              (head \o next)[i] = IF i <= Len(head) THEN head[i] ELSE next[i - Len(head)]
    BY ONLY <2>1, ConcatProperties
  <2>3. n + (e - n) = e
    BY <1>1, <1>2
  <2>4. /\ head \o next \in Seq(Byte) /\ Len(head \o next) = e
        /\ \A i \in 1..e : (head \o next)[i] = IF i <= n THEN head[i] ELSE next[i - n]
    BY ONLY <2>1, <2>2, <2>3
  <2> QED BY ONLY <2>4 DEF head
<1>8. ASSUME NEW i \in 1..e
      PROVE  (Take(data, n) \o next)[i] = Take(data, e)[i]
  <2>1. CASE i <= n
    BY <1>1, <1>2, <1>6, <1>7, <2>1
  <2>2. CASE ~(i <= n)
    <3>1. i - n \in 1..(e - n) /\ n + (i - n) = i
      BY <1>1, <1>2, <2>2
    <3> QED BY <1>5, <1>6, <1>7, <2>2, <3>1
  <2> QED BY <2>1, <2>2
<1>9. Take(data, n) \o next = Take(data, e)
  BY <1>6, <1>7, <1>8, SeqEqual
<1> QED BY <1>2, <1>3, <1>5, <1>9 DEF e, next

\* A counter that no byte has advanced.
LEMMA NotAdvanced ==
  ASSUME NEW key, NEW ctr \in 0..(CTR_MOD - 1)
  PROVE  Advance(Cipher(key, ctr), 0) = Cipher(key, ctr)
<1>1. CIPHER_BLOCK \in Nat /\ CIPHER_BLOCK > 0 /\ CTR_MOD \in Nat /\ CTR_MOD > 0
  BY AesCtrAssumption
<1>2. BlocksOf(0) = 0
  BY <1>1 DEF BlocksOf
<1>3. (ctr + 0) % CTR_MOD = ctr
  BY <1>1, ModSmall
<1>4. Advance(Cipher(key, ctr), 0) = Cipher(key, (ctr + BlocksOf(0)) % CTR_MOD)
  BY DEF Advance, Cipher
<1> QED BY <1>2, <1>3, <1>4

-----------------------------------------------------------------------------
(* The steps                                                               *)

\* A call that has not started its loop has written nothing.
LEMMA Nothing ==
  ASSUME NEW data \in Seq(Byte), NEW aes, Closed(aes, Byte)
  PROVE  Take(data, 0) = << >> /\ ProcessCTR(aes, << >>) = << >>
<1>1. << >> \in Seq(Byte) /\ Len(<< >>) = 0 /\ Len(data) \in Nat
  BY Empty
<1>2. Take(data, 0) \in Seq(Byte) /\ Len(Take(data, 0)) = 0
  BY <1>1, CutInTwo
<1>3. ProcessCTR(aes, << >>) \in Seq(Byte) /\ Len(ProcessCTR(aes, << >>)) = 0
  BY <1>1, ProcessType
<1> QED BY <1>2, <1>3, Empty

\* One turn of the loop, seen from the whole buffer.
LEMMA Turn ==
  ASSUME Environment, Underway, MoreToDo(call, Len(buf))
  PROVE  LET out == ProcessCTR(Advance(Fresh, Len(buf)), NextChunk)
         IN /\ NextChunk \in Seq(Byte) /\ Len(NextChunk) \in Nat /\ out \in Seq(Byte)
            /\ buf \o out \in Seq(Byte) /\ Len(buf \o out) \in 0..Len(call.data)
            /\ Len(buf \o out) < Len(call.data) => Len(buf \o out) % CIPHER_BLOCK = 0
            /\ buf \o out = ProcessCTR(Fresh, Take(call.data, Len(buf \o out)))
            /\ Advance(Advance(Fresh, Len(buf)), Len(NextChunk)) = Advance(Fresh, Len(buf \o out))
            /\ Take(call.data, Len(buf)) \o NextChunk = Take(call.data, Len(buf \o out))
<1> DEFINE data == call.data
           n    == Len(buf)
           e    == ChunkEnd(data, n)
           next == SubSeq(data, n + 1, e)
           head == Take(data, n)
           out  == ProcessCTR(Advance(Fresh, n), next)
<1>1. /\ data \in Seq(Byte) /\ n \in 0..Len(data) /\ n < Len(data) /\ n % CIPHER_BLOCK = 0
      /\ call.key \in Key /\ call.iv \in IV /\ buf \in Seq(Byte)
      /\ buf = ProcessCTR(Fresh, head)
  BY DEF Underway, Short, MoreToDo
<1>2. NextChunk = next
  BY DEF NextChunk, ChunkEnd
<1>3. Closed(Fresh, Byte) /\ call.iv \in Int
  <2>1. call.iv \in 0..(CTR_MOD - 1)
    BY <1>1 DEF Environment
  <2>2. Closed(Cipher(call.key, call.iv), Byte)
    BY <1>1 DEF Environment
  <2> QED BY <2>1, <2>2 DEF Fresh
<1> HIDE DEF data, n
<1>4. /\ next \in Seq(Byte) /\ Len(next) = e - n
      /\ e \in 0..Len(data) /\ e - n \in Nat
      /\ e < Len(data) => e % CIPHER_BLOCK = 0
      /\ head \o next = Take(data, e)
  BY <1>1, ChunkFacts
<1>5. head \in Seq(Byte) /\ Len(head) = n /\ n \in Nat
  BY <1>1, CutInTwo, Empty
<1> HIDE DEF e, next, head
<1>6. /\ Closed(Advance(Fresh, n), Byte)
      /\ ProcessCTR(Fresh, head) \o out = ProcessCTR(Fresh, head \o next)
  <2> DEFINE key == call.key
             ctr == call.iv
  <2>1. Len(head) % CIPHER_BLOCK = 0 /\ Closed(Cipher(key, ctr), Byte) /\ ctr \in Int
    BY <1>1, <1>3, <1>5 DEF Fresh
  <2> HIDE DEF key, ctr
  <2>2. head \in Seq(Byte) /\ next \in Seq(Byte)
    BY <1>4, <1>5
  <2>3. /\ Closed(Advance(Cipher(key, ctr), Len(head)), Byte)
        /\ InTwoCalls(Cipher(key, ctr), head, next) = ProcessCTR(Cipher(key, ctr), head \o next)
    BY ONLY <2>1, <2>2, ProcessContinues
  <2> QED BY <1>5, <2>3 DEF Fresh, key, ctr, InTwoCalls
<1>7. out \in Seq(Byte) /\ Len(out) = e - n
  BY <1>4, <1>6, ProcessType
<1>8. n + (e - n) = e
  BY <1>4, <1>5
<1>9. Advance(Advance(Fresh, n), e - n) = Advance(Fresh, e)
  BY <1>1, <1>3, <1>4, <1>5, <1>8, AdvanceContinues DEF Fresh
<1> HIDE DEF out
<1>10. buf \o out \in Seq(Byte) /\ Len(buf \o out) = e
  <2>1. Len(buf) = n
    BY DEF n
  <2> QED BY <1>1, <1>7, <1>8, <2>1, Joined
<1>11. buf \o out = ProcessCTR(Fresh, Take(data, e))
  BY <1>1, <1>4, <1>6
<1>12. /\ next \in Seq(Byte) /\ Len(next) \in Nat /\ out \in Seq(Byte)
       /\ buf \o out \in Seq(Byte) /\ Len(buf \o out) \in 0..Len(data)
       /\ Len(buf \o out) < Len(data) => Len(buf \o out) % CIPHER_BLOCK = 0
       /\ buf \o out = ProcessCTR(Fresh, Take(data, Len(buf \o out)))
       /\ Advance(Advance(Fresh, n), Len(next)) = Advance(Fresh, Len(buf \o out))
       /\ head \o next = Take(data, Len(buf \o out))
  BY <1>4, <1>7, <1>9, <1>10, <1>11
<1> QED BY <1>2, <1>12 DEF data, n, head, out

\* The loop is over: the buffer is the whole answer.
LEMMA Over ==
  ASSUME Underway, ~MoreToDo(call, Len(buf))
  PROVE  /\ Len(buf) = Len(call.data)
         /\ Take(call.data, Len(buf)) = call.data
         /\ buf = ProcessCTR(Fresh, call.data)
         /\ buf \in Short
<1>1. /\ call.data \in Seq(Byte) /\ 8 * Len(call.data) < BIT_MOD /\ Len(call.data) \in Nat
      /\ buf \in Seq(Byte) /\ Len(buf) \in 0..Len(call.data)
      /\ buf = ProcessCTR(Fresh, Take(call.data, Len(buf)))
  BY Empty DEF Underway, Short
<1>2. Len(buf) = Len(call.data)
  BY <1>1 DEF MoreToDo
<1>3. Take(call.data, Len(call.data)) = call.data
  <2> DEFINE d == call.data
  <2>1. d \in Seq(Byte) /\ Len(d) \in 0..Len(d)
    BY <1>1
  <2> HIDE DEF d
  <2>2. /\ Take(d, Len(d)) \in Seq(Byte) /\ Take(d, Len(d)) \o Drop(d, Len(d)) = d
        /\ Drop(d, Len(d)) \in Seq(Byte) /\ Len(Drop(d, Len(d))) = Len(d) - Len(d)
    BY <2>1, CutInTwo
  <2>3. Drop(d, Len(d)) = << >>
    BY <2>1, <2>2, Empty
  <2>4. Take(d, Len(d)) = d
    BY <2>2, <2>3, Empty
  <2> QED BY <2>4 DEF d
<1> QED BY <1>1, <1>2, <1>3 DEF Short

\* Before any call.
LEMMA InitIInv == Init => IInv
  BY DEF Init, IInv, BoxInv, VerifiedIffRestored

\* A call that starts has hashed and written nothing.
LEMMA Starting ==
  ASSUME Environment, NEW data \in Short, NEW key \in Key, NEW iv \in IV,
         call'.data = data, call'.key = key, call'.iv = iv,
         call'.op \in {"encrypt", "decrypt"},
         call'.op = "encrypt" => obj' = EncryptorInit(NewEncryptor, key, iv),
         call'.op = "decrypt" => obj' = DecryptorInit(NewDecryptor, key, iv),
         buf' = << >>
  PROVE  Underway' /\ ObjectAt'
<1>1. Closed(Cipher(key, iv), Byte) /\ iv \in 0..(CTR_MOD - 1) /\ data \in Seq(Byte)
  BY DEF Environment, Short
<1>2. << >> \in Seq(Byte) /\ Len(<< >>) = 0 /\ Len(data) \in Nat
  BY <1>1, Empty
<1>3. Fresh' = Cipher(key, iv)
  BY DEF Fresh
<1>4. CIPHER_BLOCK \in Nat /\ CIPHER_BLOCK > 0
  BY AesCtrAssumption
<1>5. 0 % CIPHER_BLOCK = 0
  BY <1>4
<1>6. Take(data, 0) = << >> /\ ProcessCTR(Cipher(key, iv), << >>) = << >>
  BY <1>1, Nothing
<1>7. Underway'
  BY <1>2, <1>3, <1>5, <1>6 DEF Underway
<1>8. Reset \in Hashed /\ StandsFor(Reset, << >>) /\ 0 \in Nat
  BY ResetFacts
<1>9. Advance(Cipher(key, iv), 0) = Cipher(key, iv)
  BY <1>1, NotAdvanced
<1>10. /\ EncryptorInit(NewEncryptor, key, iv) = EncryptorAt(Cipher(key, iv), Reset, 0)
       /\ DecryptorInit(NewDecryptor, key, iv) = DecryptorAt(Cipher(key, iv), Reset, 0)
  BY InitFields
<1>11. CASE call'.op = "encrypt"
  <2>1. obj' = EncryptorAt(Advance(Fresh', Len(buf')), Reset, 0)
    BY <1>2, <1>3, <1>9, <1>10, <1>11
  <2>2. StandsFor(Reset, Take(call'.data, Len(buf')))
    BY <1>2, <1>6, <1>8
  <2> QED BY <1>7, <1>8, <1>11, <2>1, <2>2 DEF ObjectAt
<1>12. CASE call'.op = "decrypt"
  <2>1. obj' = DecryptorAt(Advance(Fresh', Len(buf')), Reset, 0)
    BY <1>2, <1>3, <1>9, <1>10, <1>12
  <2>2. StandsFor(Reset, buf')
    BY <1>8
  <2> QED BY <1>7, <1>8, <1>12, <2>1, <2>2 DEF ObjectAt
<1> QED BY <1>11, <1>12

\* encryptBuffer() is called.
LEMMA InvokeEncryptIInv == Environment /\ IInv /\ InvokeEncrypt => IInv'
<1> SUFFICES ASSUME Environment, IInv, InvokeEncrypt PROVE IInv'
  OBVIOUS
<1>1. PICK data \in Plain, key \in Key, iv \in IV :
        Invoke([op |-> "encrypt", data |-> data, key |-> key, iv |-> iv],
               EncryptorInit(NewEncryptor, key, iv))
  BY DEF InvokeEncrypt
<1>2. /\ call'.op = "encrypt" /\ call'.data = data /\ call'.key = key /\ call'.iv = iv
      /\ obj' = EncryptorInit(NewEncryptor, key, iv) /\ buf' = << >>
      /\ answer' = None /\ box' = box
  BY <1>1 DEF Invoke
<1>3. data \in Short
  BY DEF Environment
<1>4. Underway' /\ ObjectAt'
  BY <1>2, <1>3, Starting
<1>5. BoxInv'
  BY <1>2 DEF IInv, BoxInv
<1>6. VerifiedIffRestored'
  BY <1>2 DEF VerifiedIffRestored
<1> QED BY <1>4, <1>5, <1>6 DEF IInv

\* decryptBuffer() is called on what arrived of the sealed buffer.
LEMMA InvokeDecryptIInv == Environment /\ IInv /\ InvokeDecrypt => IInv'
<1> SUFFICES ASSUME Environment, IInv, InvokeDecrypt PROVE IInv'
  OBVIOUS
<1>1. box # None /\ box.sealed.data \in Short
  BY DEF InvokeDecrypt, IInv, BoxInv
<1>2. PICK data \in Received(box.sealed.data), key \in Key, iv \in IV :
        Invoke([op |-> "decrypt", data |-> data, key |-> key, iv |-> iv,
                expected |-> box.sealed.digest],
               DecryptorInit(NewDecryptor, key, iv))
  BY DEF InvokeDecrypt
<1>3. /\ call'.op = "decrypt" /\ call'.data = data /\ call'.key = key /\ call'.iv = iv
      /\ call'.expected = box.sealed.digest
      /\ obj' = DecryptorInit(NewDecryptor, key, iv) /\ buf' = << >>
      /\ answer' = None /\ box' = box
  BY <1>2 DEF Invoke
<1>4. data \in Short
  BY <1>1 DEF Environment
<1>5. Underway' /\ ObjectAt'
  BY <1>3, <1>4, Starting
<1>6. BoxInv'
  BY <1>1, <1>3 DEF IInv, BoxInv
<1>7. VerifiedIffRestored'
  BY <1>3 DEF VerifiedIffRestored
<1> QED BY <1>5, <1>6, <1>7 DEF IInv

\* One turn of encryptBuffer()'s loop.
LEMMA EncryptChunkIInv == Environment /\ IInv /\ EncryptChunk => IInv'
<1> SUFFICES ASSUME Environment, IInv, EncryptChunk PROVE IInv'
  OBVIOUS
<1> DEFINE c   == Advance(Fresh, Len(buf))
           out == ProcessCTR(c, NextChunk)
<1>1. /\ call # None /\ call.op = "encrypt" /\ MoreToDo(call, Len(buf))
      /\ Underway /\ ObjectAt
      /\ obj' = EncryptorChunk(obj, NextChunk)
      /\ buf' = buf \o EncryptorOut(obj, NextChunk)
      /\ call' = call /\ answer' = answer /\ box' = box
  BY DEF EncryptChunk, IInv
<1>2. PICK h \in Hashed, t \in Nat :
        obj = EncryptorAt(c, h, t) /\ StandsFor(h, Take(call.data, Len(buf)))
  BY <1>1 DEF ObjectAt
<1>3. /\ NextChunk \in Seq(Byte) /\ Len(NextChunk) \in Nat
      /\ buf \o out \in Seq(Byte) /\ Len(buf \o out) \in 0..Len(call.data)
      /\ Len(buf \o out) < Len(call.data) => Len(buf \o out) % CIPHER_BLOCK = 0
      /\ buf \o out = ProcessCTR(Fresh, Take(call.data, Len(buf \o out)))
      /\ Advance(c, Len(NextChunk)) = Advance(Fresh, Len(buf \o out))
      /\ Take(call.data, Len(buf)) \o NextChunk = Take(call.data, Len(buf \o out))
  BY <1>1, Turn
<1>4. Take(call.data, Len(buf)) \in Seq(Byte)
  BY <1>1, CutInTwo DEF Underway, Short
<1> HIDE DEF c
<1>5. /\ EncryptorChunk(EncryptorAt(c, h, t), NextChunk)
            = EncryptorAt(Advance(c, Len(NextChunk)), Update(h, NextChunk), t + Len(NextChunk))
      /\ EncryptorOut(EncryptorAt(c, h, t), NextChunk) = out
  BY ChunkFields
<1> HIDE DEF out
<1>6. buf' = buf \o out
  BY <1>1, <1>2, <1>5
<1>7. obj' = EncryptorAt(Advance(Fresh, Len(buf')), Update(h, NextChunk), t + Len(NextChunk))
  BY <1>1, <1>2, <1>3, <1>5, <1>6
<1>8. Update(h, NextChunk) \in Hashed /\ t + Len(NextChunk) \in Nat
  <2>1. Len(h.buffer) <= BLOCK_SIZE
    BY <1>2, Empty, Sha256Assumption DEF StandsFor, Hashed
  <2>2. Update(h, NextChunk) \in Hashed
    BY <1>3, <2>1, UpdateType
  <2> QED BY <1>3, <2>2
<1>9. StandsFor(Update(h, NextChunk), Take(call.data, Len(buf')))
  <2>1. StandsFor(Update(h, NextChunk), Take(call.data, Len(buf)) \o NextChunk)
    BY <1>2, <1>3, <1>4, UpdateStandsFor
  <2> QED BY <1>3, <1>6, <2>1
<1>10. Fresh' = Fresh
  BY <1>1 DEF Fresh
<1>11. Underway'
  BY <1>1, <1>3, <1>6, <1>10 DEF Underway
<1>12. ObjectAt'
  BY <1>1, <1>7, <1>8, <1>9, <1>10 DEF ObjectAt
<1>13. BoxInv'
  BY <1>1 DEF IInv, BoxInv
<1>14. VerifiedIffRestored'
  BY <1>1 DEF IInv, VerifiedIffRestored
<1> QED BY <1>11, <1>12, <1>13, <1>14 DEF IInv

\* One turn of decryptBuffer()'s loop.
LEMMA DecryptChunkIInv == Environment /\ IInv /\ DecryptChunk => IInv'
<1> SUFFICES ASSUME Environment, IInv, DecryptChunk PROVE IInv'
  OBVIOUS
<1> DEFINE c   == Advance(Fresh, Len(buf))
           out == ProcessCTR(c, NextChunk)
<1>1. /\ call # None /\ call.op = "decrypt" /\ MoreToDo(call, Len(buf))
      /\ Underway /\ ObjectAt
      /\ obj' = DecryptorChunk(obj, NextChunk)
      /\ buf' = buf \o DecryptorOut(obj, NextChunk)
      /\ call' = call /\ answer' = answer /\ box' = box
  BY DEF DecryptChunk, IInv
<1>2. PICK h \in Hashed, t \in Nat : obj = DecryptorAt(c, h, t) /\ StandsFor(h, buf)
  BY <1>1 DEF ObjectAt
<1>3. /\ Len(NextChunk) \in Nat /\ out \in Seq(Byte)
      /\ buf \o out \in Seq(Byte) /\ Len(buf \o out) \in 0..Len(call.data)
      /\ Len(buf \o out) < Len(call.data) => Len(buf \o out) % CIPHER_BLOCK = 0
      /\ buf \o out = ProcessCTR(Fresh, Take(call.data, Len(buf \o out)))
      /\ Advance(c, Len(NextChunk)) = Advance(Fresh, Len(buf \o out))
  BY <1>1, Turn
<1>4. buf \in Seq(Byte)
  BY <1>1 DEF Underway
<1> HIDE DEF c
<1>5. /\ DecryptorChunk(DecryptorAt(c, h, t), NextChunk)
            = DecryptorAt(Advance(c, Len(NextChunk)), Update(h, out), t + Len(NextChunk))
      /\ DecryptorOut(DecryptorAt(c, h, t), NextChunk) = out
  BY ChunkFields
<1> HIDE DEF out
<1>6. buf' = buf \o out
  BY <1>1, <1>2, <1>5
<1>7. obj' = DecryptorAt(Advance(Fresh, Len(buf')), Update(h, out), t + Len(NextChunk))
  BY <1>1, <1>2, <1>3, <1>5, <1>6
<1>8. Update(h, out) \in Hashed /\ t + Len(NextChunk) \in Nat
  <2>1. Len(h.buffer) <= BLOCK_SIZE
    BY <1>2, Empty, Sha256Assumption DEF StandsFor, Hashed
  <2>2. Update(h, out) \in Hashed
    BY <1>3, <2>1, UpdateType
  <2> QED BY <1>3, <2>2
<1>9. StandsFor(Update(h, out), buf')
  <2>1. StandsFor(Update(h, out), buf \o out)
    BY <1>2, <1>3, <1>4, UpdateStandsFor
  <2> QED BY <1>6, <2>1
<1>10. Fresh' = Fresh
  BY <1>1 DEF Fresh
<1>11. Underway'
  BY <1>1, <1>3, <1>6, <1>10 DEF Underway
<1>12. ObjectAt'
  BY <1>1, <1>7, <1>8, <1>9, <1>10 DEF ObjectAt
<1>13. BoxInv'
  BY <1>1 DEF IInv, BoxInv
<1>14. VerifiedIffRestored'
  BY <1>1 DEF IInv, VerifiedIffRestored
<1> QED BY <1>11, <1>12, <1>13, <1>14 DEF IInv

\* encryptBuffer() returns: what it answers is the cipher and the hash of the
\* whole buffer.
LEMMA EncryptAnswers ==
  ASSUME Environment, IInv, ReturnEncrypt
  PROVE  /\ answer' = [data |-> ProcessCTR(Fresh, call.data), digest |-> Hash(call.data)]
         /\ Hash(call.data) = Padded(call.data)
         /\ ProcessCTR(Fresh, call.data) \in Short /\ call.data \in Short
<1>1. /\ Underway /\ ObjectAt /\ call.op = "encrypt" /\ ~MoreToDo(call, Len(buf))
      /\ answer' = [data |-> buf, digest |-> EncryptorFinalize(obj).hash.state]
  BY DEF ReturnEncrypt, IInv
<1>2. /\ Take(call.data, Len(buf)) = call.data
      /\ buf = ProcessCTR(Fresh, call.data) /\ buf \in Short
  BY <1>1, Over
<1>3. PICK h \in Hashed, t \in Nat :
        /\ obj = EncryptorAt(Advance(Fresh, Len(buf)), h, t)
        /\ StandsFor(h, Take(call.data, Len(buf)))
  BY <1>1 DEF ObjectAt
<1>4. call.data \in Short /\ call.data \in Seq(Byte)
  BY <1>1 DEF Underway, Short
<1>5. EncryptorFinalize(obj).hash.state = Finalize(h).state
  BY <1>3, FinalFields
<1>6. Finalize(h).state = Padded(call.data)
  BY <1>2, <1>3, <1>4, FinalizeStandard
<1>7. Hash(call.data) = Padded(call.data)
  BY <1>4, HashIsPadded
<1> QED BY <1>1, <1>2, <1>4, <1>5, <1>6, <1>7

\* decryptBuffer() returns: the cipher of the whole buffer, and whether its
\* hash is the expected one.
LEMMA DecryptAnswers ==
  ASSUME Environment, IInv, ReturnDecrypt
  PROVE  /\ answer' = [data     |-> ProcessCTR(Fresh, call.data),
                       verified |-> Hash(ProcessCTR(Fresh, call.data)) = call.expected]
         /\ Hash(ProcessCTR(Fresh, call.data)) = Padded(ProcessCTR(Fresh, call.data))
         /\ ProcessCTR(Fresh, call.data) \in Short
<1>1. /\ Underway /\ ObjectAt /\ call.op = "decrypt" /\ ~MoreToDo(call, Len(buf))
      /\ answer' = [data |-> buf, verified |-> Verify(DecryptorFinalize(obj), call.expected)]
  BY DEF ReturnDecrypt, IInv
<1>2. buf = ProcessCTR(Fresh, call.data) /\ buf \in Short /\ buf \in Seq(Byte)
  BY <1>1, Over DEF Short
<1>3. PICK h \in Hashed, t \in Nat :
        obj = DecryptorAt(Advance(Fresh, Len(buf)), h, t) /\ StandsFor(h, buf)
  BY <1>1 DEF ObjectAt
<1>4. Finalize(h).state = Padded(buf) /\ Hash(buf) = Padded(buf)
  BY <1>2, <1>3, FinalizeStandard, HashIsPadded
<1>5. Verify(DecryptorFinalize(obj), call.expected) <=> Hash(buf) = call.expected
  BY <1>3, <1>4, FinalFields
<1>6. Verify(DecryptorFinalize(obj), call.expected) = (Hash(buf) = call.expected)
  BY <1>5 DEF Verify
<1> QED BY <1>1, <1>2, <1>4, <1>6

\* The sealed buffer and its digest.
LEMMA ReturnEncryptIInv == Environment /\ IInv /\ ReturnEncrypt => IInv'
<1> SUFFICES ASSUME Environment, IInv, ReturnEncrypt PROVE IInv'
  OBVIOUS
<1>1. /\ answer' = [data |-> ProcessCTR(Fresh, call.data), digest |-> Hash(call.data)]
      /\ Hash(call.data) = Padded(call.data)
      /\ ProcessCTR(Fresh, call.data) \in Short /\ call.data \in Short
  BY EncryptAnswers
<1>2. /\ box' = [plain |-> call.data, key |-> call.key, iv |-> call.iv, sealed |-> answer']
      /\ call' = None
  BY DEF ReturnEncrypt
<1>3. BoxInv'
  BY <1>1, <1>2 DEF BoxInv
<1>4. VerifiedIffRestored'
  BY <1>1 DEF VerifiedIffRestored
<1> QED BY <1>2, <1>3, <1>4 DEF IInv

\* The verdict is exact.
LEMMA ReturnDecryptIInv == Environment /\ IInv /\ ReturnDecrypt => IInv'
<1> SUFFICES ASSUME Environment, IInv, ReturnDecrypt PROVE IInv'
  OBVIOUS
<1> DEFINE out == ProcessCTR(Fresh, call.data)
<1>1. /\ answer' = [data |-> out, verified |-> Hash(out) = call.expected]
      /\ Hash(out) = Padded(out) /\ out \in Short
  BY DecryptAnswers
<1>2. call' = None /\ box' = box /\ call # None /\ call.op = "decrypt"
  BY DEF ReturnDecrypt
<1>3. /\ box # None /\ box.plain \in Short /\ box.sealed.digest = Padded(box.plain)
      /\ call.expected = box.sealed.digest
  BY <1>2 DEF IInv, BoxInv
<1> HIDE DEF out
<1>4. Hash(out) = call.expected <=> out = box.plain
  BY <1>1, <1>3, PaddedInjective DEF Short
<1>5. answer'.data = out /\ (answer'.verified <=> Hash(out) = call.expected)
  BY <1>1
<1>6. VerifiedIffRestored'
  BY <1>2, <1>4, <1>5 DEF VerifiedIffRestored
<1>7. BoxInv'
  BY <1>2 DEF IInv, BoxInv
<1> QED BY <1>2, <1>6, <1>7 DEF IInv

\* Every step keeps the invariant.
LEMMA NextIInv == Environment /\ IInv /\ [Next]_vars => IInv'
<1> SUFFICES ASSUME Environment, IInv, [Next]_vars PROVE IInv'
  OBVIOUS
<1>1. CASE UNCHANGED vars
  <2>1. Fresh' = Fresh
    BY <1>1 DEF vars, Fresh
  <2>2. Underway => Underway'
    BY <1>1, <2>1 DEF vars, Underway
  <2>3. ObjectAt => ObjectAt'
    BY <1>1, <2>1 DEF vars, ObjectAt
  <2>4. BoxInv' /\ VerifiedIffRestored'
    BY <1>1 DEF vars, IInv, BoxInv, VerifiedIffRestored
  <2> QED BY <1>1, <2>2, <2>3, <2>4 DEF vars, IInv
<1>2. CASE InvokeEncrypt
  BY <1>2, InvokeEncryptIInv
<1>3. CASE InvokeDecrypt
  BY <1>3, InvokeDecryptIInv
<1>4. CASE EncryptChunk
  BY <1>4, EncryptChunkIInv
<1>5. CASE DecryptChunk
  BY <1>5, DecryptChunkIInv
<1>6. CASE ReturnEncrypt
  BY <1>6, ReturnEncryptIInv
<1>7. CASE ReturnDecrypt
  BY <1>7, ReturnDecryptIInv
<1> QED BY <1>1, <1>2, <1>3, <1>4, <1>5, <1>6, <1>7 DEF Next, Loop

-----------------------------------------------------------------------------
(* The one-shot calls are implemented                                      *)

\* The operators of the abstract calls are the operators of the code.
LEMMA SameOperators ==
  /\ \A key, iv, data : Calls!ProcessCTR(Calls!Cipher(key, iv), data)
                           = ProcessCTR(Cipher(key, iv), data)
  /\ \A data : Calls!Hash(data) = Hash(data)
<1>1. \A key, iv, data : Calls!ProcessCTR(Calls!Cipher(key, iv), data)
                           = ProcessCTR(Cipher(key, iv), data)
  BY DEF Calls!ProcessCTR, Calls!KeystreamAt, Calls!Keystream, Calls!Xor, Calls!Cipher,
         ProcessCTR, KeystreamAt, Keystream, Xor, Cipher
<1>2. ASSUME NEW data
      PROVE  Calls!Update(Calls!Reset, data) = Update(Reset, data)
  BY DEF Calls!Update, Calls!Reset, Calls!Needed, Calls!Take, Calls!Drop, Calls!WholeBlocks,
         Update, Reset, Needed, Take, Drop, WholeBlocks
<1>3. ASSUME NEW c
      PROVE  Calls!Finalize(c) = Finalize(c)
  BY DEF Calls!Finalize, Calls!Spills, Calls!Zeros, Finalize, Spills, Zeros
<1>4. \A data : Calls!Hash(data) = Hash(data)
  BY <1>2, <1>3 DEF Calls!Hash, Hash
<1> QED BY <1>1, <1>4

\* The loop starts where the abstract calls start.
LEMMA InitImplements == Init => Calls!Init
  BY DEF Init, Calls!Init

\* Every step of the loop is a step of the abstract calls, or none.
LEMMA NextImplements ==
  Environment /\ IInv /\ [Next]_vars => [Calls!Next]_(Calls!vars)
<1> SUFFICES ASSUME Environment, IInv, [Next]_vars PROVE [Calls!Next]_(Calls!vars)
  OBVIOUS
<1>1. CASE UNCHANGED vars
  BY <1>1 DEF vars, Calls!vars
<1>2. CASE InvokeEncrypt
  <2>1. Calls!InvokeEncrypt
    BY <1>2 DEF InvokeEncrypt, Invoke, Calls!InvokeEncrypt, Calls!Invoke
  <2> QED BY <2>1 DEF Calls!Next
<1>3. CASE InvokeDecrypt
  <2>1. Calls!InvokeDecrypt
    BY <1>3 DEF InvokeDecrypt, Invoke, Calls!InvokeDecrypt, Calls!Invoke
  <2> QED BY <2>1 DEF Calls!Next
<1>4. CASE EncryptChunk
  BY <1>4 DEF EncryptChunk, Calls!vars
<1>5. CASE DecryptChunk
  BY <1>5 DEF DecryptChunk, Calls!vars
<1>6. CASE ReturnEncrypt
  <2>1. answer' = [data |-> ProcessCTR(Fresh, call.data), digest |-> Hash(call.data)]
    BY <1>6, EncryptAnswers
  <2>2. answer' = Calls!Sealed(call)
    BY <2>1, SameOperators DEF Calls!Sealed, Fresh
  <2>3. Calls!ReturnEncrypt
    BY <1>6, <2>2 DEF ReturnEncrypt, Calls!ReturnEncrypt
  <2> QED BY <2>3 DEF Calls!Next, Calls!Return
<1>7. CASE ReturnDecrypt
  <2>1. answer' = [data     |-> ProcessCTR(Fresh, call.data),
                   verified |-> Hash(ProcessCTR(Fresh, call.data)) = call.expected]
    BY <1>7, DecryptAnswers
  <2>2. answer' = Calls!Restored(call)
    BY <2>1, SameOperators DEF Calls!Restored, Fresh
  <2>3. Calls!ReturnDecrypt
    BY <1>7, <2>2 DEF ReturnDecrypt, Calls!ReturnDecrypt
  <2> QED BY <2>3 DEF Calls!Next, Calls!Return
<1> QED BY <1>1, <1>2, <1>3, <1>4, <1>5, <1>6, <1>7 DEF Next, Loop

-----------------------------------------------------------------------------
(* The theorems                                                            *)

\* Every reachable state satisfies the inductive invariant.
THEOREM Invariance == ASSUME Environment PROVE Spec => []IInv
  BY InitIInv, NextIInv, PTL DEF Spec

\* decryptBuffer() (streaming_engine.cpp:128-154) reports true exactly when the
\* bytes it gave back are the bytes encryptBuffer() sealed, whatever arrived and
\* whichever key and counter it was given.
THEOREM VerdictIsSound == ASSUME Environment PROVE Spec => []VerifiedIffRestored
<1>1. IInv => VerifiedIffRestored
  BY DEF IInv
<1> QED BY <1>1, Invariance, PTL

\* The chunked loops of encryptBuffer() and decryptBuffer()
\* (streaming_engine.cpp:103-154) take only the steps of the one-shot calls:
\* Implements without its fairness.
THEOREM LoopsAreOneShot ==
  ASSUME Environment PROVE Spec => Calls!Init /\ [][Calls!Next]_(Calls!vars)
  BY InitImplements, InitIInv, NextIInv, NextImplements, PTL DEF Spec
=============================================================================
