--------------------------- MODULE StreamingEngine ---------------------------
(***************************************************************************)
(* One Encryptor and one Decryptor of src/streaming_engine.cpp and the     *)
(* streams the first writes and the second reads.  Both objects are        *)
(* reused: init() starts another stream at any moment.  The engine refuses *)
(* no call but processChunk() before init(), so neither do the actions;    *)
(* the reader cuts a stream into chunks of its own, and what lies between  *)
(* writer and reader may flip a byte or cut the stream short.              *)
(***************************************************************************)
EXTENDS StreamObjects

CONSTANTS
  Key,            \* the keys
  IV,             \* the initial counters of the writer
  ReaderIV,       \* and those the reader opens a stream with
  Chunk,          \* the plaintexts processChunk() may be given
  Reads,          \* the lengths the reader may ask for
  FLIP,           \* the byte a damaged byte is xored with
  MaxLength,      \* bound on the bytes of a stream
  MaxCalls        \* bound on the init() and finalize() calls of both objects and
                  \* the damage to all streams, together

ASSUME StreamingAssumption ==
  /\ IV \cup ReaderIV \subseteq 0..(CTR_MOD - 1)
  /\ Chunk \subseteq Seq(Byte)
  /\ Reads \subseteq Nat
  /\ MaxLength \in Nat /\ MaxCalls \in Nat

VARIABLES
  enc,        \* the Encryptor: aes_, hash_, totalBytes_, initialized_
  dec,        \* the Decryptor: the same and computedDigest_, finalized_
  streams,    \* the streams written so far, the last one by enc
  source,     \* what dec was opened with: a stream, a key and a counter
  got,        \* the plaintext dec has returned since its init()
  reads,      \* the lengths of the chunks it came in
  checked,    \* what dec had returned when computedDigest_ was written
  finals,     \* finalize() calls of each object since its init()
  calls       \* the calls and the damage that MaxCalls bounds

vars == <<enc, dec, streams, source, got, reads, checked, finals, calls>>

-----------------------------------------------------------------------------
Init ==
  /\ enc     = NewEncryptor
  /\ dec     = NewDecryptor
  /\ streams = << >>
  /\ source  = [stream |-> 0, key |-> None, iv |-> 0]
  /\ got     = << >>
  /\ reads   = << >>
  /\ checked = None
  /\ finals  = [enc |-> 0, dec |-> 0]
  /\ calls   = 0

\* A call of init() or finalize(), or a damage, of which there are MaxCalls.
Counted == calls < MaxCalls /\ calls' = calls + 1

Opened(key, iv) ==
  [key |-> key, iv |-> iv, plain |-> << >>, cuts |-> << >>, body |-> << >>,
   trailer |-> None, sealed |-> None, finals |-> 0, intact |-> TRUE]

EncInit(key, iv) ==
  /\ Counted
  /\ enc'     = EncryptorInit(enc, key, iv)
  /\ streams' = Append(streams, Opened(key, iv))
  /\ finals'  = [finals EXCEPT !.enc = 0]
  /\ UNCHANGED <<dec, source, got, reads, checked>>

\* The stream one chunk later.
Written(st, in, out) ==
  [st EXCEPT !.plain = @ \o in, !.cuts = Append(@, Len(in)), !.body = @ \o out]

\* Before init() the call returns no byte and changes nothing.
EncProcessChunk(in) ==
  /\ enc.initialized
  /\ enc.total + Len(in) <= MaxLength
  /\ enc'     = EncryptorChunk(enc, in)
  /\ streams' = [streams EXCEPT ![Len(streams)] = Written(@, in, EncryptorOut(enc, in))]
  /\ UNCHANGED <<dec, source, got, reads, checked, finals, calls>>

\* The stream with the digest of what it holds behind it.
SealedWith(st, digest) ==
  [st EXCEPT !.trailer = digest, !.sealed = st.plain, !.finals = @ + 1]

\* Also before init(): there is no stream to seal then.
EncFinalize ==
  /\ Counted
  /\ finals'  = [finals EXCEPT !.enc = @ + 1]
  /\ enc'     = EncryptorFinalize(enc)
  /\ streams' = IF streams = << >> THEN streams
                ELSE [streams EXCEPT ![Len(streams)] = SealedWith(@, enc'.hash.state)]
  /\ UNCHANGED <<dec, source, got, reads, checked>>

DecInit(s, key, iv) ==
  /\ Counted
  /\ dec'     = DecryptorInit(dec, key, iv)
  /\ source'  = [stream |-> s, key |-> key, iv |-> iv]
  /\ got'     = << >>
  /\ reads'   = << >>
  /\ checked' = None
  /\ finals'  = [finals EXCEPT !.dec = 0]
  /\ UNCHANGED <<enc, streams>>

\* The next n bytes of the stream being read.
Body == streams[source.stream].body
Pull(n) == SubSeq(Body, Len(got) + 1, Len(got) + n)

DecProcessChunk(n) ==
  /\ dec.initialized
  /\ Len(got) + n <= Len(Body)
  /\ dec'   = DecryptorChunk(dec, Pull(n))
  /\ got'   = got \o DecryptorOut(dec, Pull(n))
  /\ reads' = Append(reads, n)
  /\ UNCHANGED <<enc, streams, source, checked, finals, calls>>

DecFinalize ==
  /\ Counted
  /\ finals'  = [finals EXCEPT !.dec = @ + 1]
  /\ dec'     = DecryptorFinalize(dec)
  /\ checked' = got
  /\ UNCHANGED <<enc, streams, source, got, reads>>

\* Between writer and reader: a byte flips, or the stream is cut short.
Damage(s, body) ==
  /\ Counted
  /\ streams' = [streams EXCEPT ![s] = [@ EXCEPT !.body = body, !.intact = FALSE]]
  /\ UNCHANGED <<enc, dec, source, got, reads, checked, finals>>

Flip(s) ==
  \E i \in DOMAIN streams[s].body :
    Damage(s, [streams[s].body EXCEPT ![i] = Xor(@, FLIP)])

Truncate(s) ==
  \E n \in 0..(Len(streams[s].body) - 1) : Damage(s, Take(streams[s].body, n))

Next ==
  \/ \E key \in Key, iv \in IV : EncInit(key, iv)
  \/ \E in \in Chunk : EncProcessChunk(in)
  \/ EncFinalize
  \/ \E s \in DOMAIN streams, key \in Key, iv \in ReaderIV : DecInit(s, key, iv)
  \/ \E n \in Reads : DecProcessChunk(n)
  \/ DecFinalize
  \/ \E s \in DOMAIN streams : Flip(s) \/ Truncate(s)

Spec == Init /\ [][Next]_vars

-----------------------------------------------------------------------------
Ciphers == [key : Key \cup {None}, ctr : 0..(CTR_MOD - 1)]

TypeOK ==
  /\ enc \in [aes : Ciphers, hash : Hashed, total : 0..MaxLength, initialized : BOOLEAN]
  /\ dec \in [aes : Ciphers, hash : Hashed, total : 0..MaxLength, initialized : BOOLEAN,
              computed : Seq(Byte) \cup {None}, finalized : BOOLEAN]
  /\ Len(streams) <= MaxCalls
  /\ source.stream \in 0..Len(streams)
  /\ got \in Seq(Byte)
  /\ reads \in Seq(Reads)
  /\ checked \in Seq(Byte) \cup {None}

\* Every chunk but the last fills its blocks.
Aligned(cuts) == \A i \in 1..(Len(cuts) - 1) : cuts[i] % CIPHER_BLOCK = 0

IsPrefixOf(s, t) == Len(s) <= Len(t) /\ s = Take(t, Len(s))

\* streaming_engine.cpp:40, aes256.cpp:189-206.  Chunks that fill their blocks
\* cost nothing: the stream is what one call over the whole plaintext writes.
AlignedIsSeamless ==
  \A s \in DOMAIN streams :
    streams[s].intact /\ Aligned(streams[s].cuts) =>
      streams[s].body = ProcessCTR(Cipher(streams[s].key, streams[s].iv), streams[s].plain)

\* streaming_engine.cpp:70-87.  What the reader has returned is what the writer
\* was given, as far as it has read, when it opened an undamaged stream with
\* the writer's key and counter and either repeats the writer's chunks, of any
\* lengths, or both cut at block boundaries, not necessarily the same.
RoundTrip ==
  LET s == streams[source.stream] IN
  /\ source.stream > 0 /\ s.intact
  /\ source.key = s.key /\ source.iv = s.iv
  /\ IsPrefixOf(reads, s.cuts) \/ (Aligned(reads) /\ Aligned(s.cuts))
  => IsPrefixOf(got, s.plain)

\* aes256.cpp:181-206.  Within one stream no two bytes meet the same keystream
\* byte, also when the counter wraps, as long as the counter has not come round.
KeystreamNeverRepeats ==
  \A s \in DOMAIN streams :
    streams[s].intact /\ Len(streams[s].plain) <= CTR_MOD =>
      \A i, j \in DOMAIN streams[s].plain :
        i # j => Xor(streams[s].plain[i], streams[s].body[i])
                   # Xor(streams[s].plain[j], streams[s].body[j])

\* streaming_engine.cpp:61-99.  When verify() accepts the digest of a stream,
\* the bytes returned up to the last finalize() are the bytes that digest was
\* taken of, whatever happened to the stream, whatever key, counter, chunks
\* and order of calls were used, and whatever the object was used for before:
\* as long as one of the two objects was finalized only once.  When both were
\* finalized twice, a plaintext made of paddings may take another one's digest.
VerifiedMeansIntact ==
  \A s \in DOMAIN streams :
    /\ streams[s].trailer # None /\ Verify(dec, streams[s].trailer)
    /\ streams[s].finals = 1 \/ finals.dec = 1
    => checked = streams[s].sealed

\* streaming_engine.cpp:46-49, 89-99.  Objects finalized once after init(), as
\* the header asks: verify() says exactly whether the same bytes came out.
VerdictIsExact ==
  \A s \in DOMAIN streams :
    finals.dec = 1 /\ dec.initialized /\ streams[s].finals = 1 =>
      (Verify(dec, streams[s].trailer) <=> checked = streams[s].sealed)

\* streaming_engine.cpp:39 says of every chunk: "CTR mode continues seamlessly
\* from the current counter".
ContinuesSeamlessly ==
  \A s \in DOMAIN streams :
    streams[s].intact =>
      streams[s].body = ProcessCTR(Cipher(streams[s].key, streams[s].iv), streams[s].plain)
=============================================================================
