# Secure Vault cryptography engine: models and proofs

TLA+ models of the C++ engine, its node addon and its command line, the TLC
configurations that check them, and TLAPS proofs about the hasher, the counter
mode, the streaming engine and its buffer loops, the payload format and its time
lock, the command line, the logger and the random generator. Paths below are relative to the repository root, so
`src/sha256.cpp` here is `src/src/sha256.cpp` in PROJECT.json.

The models keep the control of the code: buffers, lengths, counters and their
widths, guards, early returns, error codes, the order of steps. They come in two
layers. The primitives (AES rounds, SHA-256 compression, random generator) are
modelled on real words and compared with their standards. Everything above them
replaces a primitive by an injective operator: two results are equal exactly when
the same inputs went in. What is shown there is how the program uses its
primitives, "short of a collision".

## 1. The system

| Component | Source | State | Operations |
|---|---|---|---|
| SHA-256 hasher | `src/sha256.cpp/.h` | chaining value, bit counter (64 bits), 64-byte buffer and its fill | `reset`, `update`, `finalize`, `hash` |
| SHA-256 compression | `src/sha256.cpp:5-81`, `sha256.h` | 16 to 64 schedule words, 8 working variables | `processBlock` |
| AES-256 block cipher | `src/aes256.cpp:7-167` | 60 round-key words, 16-byte state | `keyExpansion`, `encryptBlock` |
| AES-256 counter mode | `src/aes256.cpp/.h` | round keys, 16-byte big-endian counter | `setKey`, `setCounter`, `incrementCounter`, `processCTR` |
| Streaming engine | `src/streaming_engine.cpp/.h` | an AES and a SHA256 object, byte total, `initialized_`; the Decryptor also `computedDigest_`, `finalized_` | `init`, `processChunk`, `finalize`, `verify`; `encryptBuffer`, `decryptBuffer` |
| Time lock | `src/time_lock.cpp/.h` | none (pure over a 72-byte lock) | `lock`, `unlock`, `getUnlockTimestamp`, `getIterations`, `estimateIterations` |
| Encryption engine | `src/encryption_engine.cpp/.h` | none (pure over a payload) | `encrypt`, `encryptWithTimeLock`, `decrypt`, `decryptTimeLocked`, `isTimeLocked`, `getUnlockTimestamp` |
| Node addon | `src/addon.cpp` | none | checks of types and lengths, conversion of numbers, then the engine; codes become exceptions |
| JavaScript library | `lib/index.js` | none | password layer over the addon |
| Command line | `bin/cli.js` | files, clock, the run's own variables | `encrypt`, `decrypt`, `hash`, `info`, `benchmark` |
| Logger | `src/logger.cpp/.h` | minimum level, output stream, timestamps flag; stdio's buffer | `log`, `setLevel`, `setOutput`, `enableTimestamps` |
| Random bytes | `src/addon.cpp:349-375` | none kept | a generator seeded from the clock per call |

How they interact: the command line calls the library, the library calls the
addon, the addon calls the engine or the streaming loops; the engine calls the
time lock, AES and SHA-256 objects that live on its stack. Nothing in C++ is
shared between calls except the logger singleton. Processes of the command
line share the file system and the clock, and nothing else.

What is hard, and where:

- **Buffering and padding** (`sha256.cpp:83-147`): the input arrives in any
  split; lengths 56..63 mod 64 need one more block; the counter wraps.
- **Objects reused or called out of order** (`streaming_engine.cpp`,
  `sha256.cpp:115`): nothing refuses `update` after `finalize`, a second
  `finalize`, `verify` before or after more chunks, or a second `init`.
- **Partial blocks in counter mode** (`aes256.cpp:189-206`): each call starts a
  new block, so where a stream is cut matters.
- **Damaged, short or mismatched payloads** (`encryption_engine.cpp`,
  `time_lock.cpp`): the plaintext is written before it is verified, and the
  engine's own length check covers only its own header.
- **Numbers of JavaScript as integers of C++** (`addon.cpp:173`,
  `time_lock.cpp:160`, `cli.js:160-161`): negative, fractional, huge and none.
- **Command lines read word by word** (`cli.js:371-399`): which word is a value.
- **Arithmetic that is wrong in a way no round trip shows** (`aes256.cpp:7-144`):
  counter mode never decrypts a block.
- **Crashes, torn writes, overlapping runs** (`cli.js:134-257`).
- **Threads in the logger** (`logger.cpp:48-91`).

What makes each component correct, in short: the hasher's digest is that of the
standard's padding whatever the split; counter mode is an involution and uses
no keystream byte twice; a positive verdict of the streaming engine means the
sealed bytes came back; the engine gives out what was sealed or nothing, and
nothing before its time; the command line invents nothing after any crash; the
logger loses nothing that it reported written.

## 2. Modules

| Module | What it is | Lines of code it stands for |
|---|---|---|
| `Bits` | unsigned integers as sets of bit positions | operators of C++ |
| `Aes256Block` | table, rounds and key schedule on bytes; the reference of FIPS 197 | `aes256.cpp:7-167` |
| `Sha256Block` | constants, schedule and rounds on words; the reference of FIPS 180-4 | `sha256.cpp:5-81`, `sha256.h` |
| `RandomBytes` | one turn of the generator | `addon.cpp:366-371` |
| `Primitives` | calls of these, a turn of a loop at a time | the same, and their loops |
| `Sha256` | a SHA256 object as a value: `Reset`, `Update`, `Finalize`, `Hash`; the reference `Padded` (FIPS 180-4, 5.1.1) | `sha256.cpp:25-43, 83-153` |
| `Hashers` | objects under any sequence of calls | the class's public interface |
| `AesCtr` | counter mode as operators, the block cipher abstract | `aes256.cpp:169-206` |
| `CtrCalls` | abstract: one call is one step on a numeric counter | `aes256.h` |
| `CtrLoop` | the same block by block, counter digits with a travelling carry; implements `CtrCalls` | `aes256.cpp:173-206` |
| `StreamObjects` | Encryptor and Decryptor as values | `streaming_engine.cpp:8-101` |
| `StreamingEngine` | a reused pair of them over streams that may be damaged | same, and the header's fields |
| `BufferCalls` | abstract: a buffer call is one cipher application and one hash | `streaming_engine.h` |
| `BufferLoop` | the chunk loops; implements `BufferCalls` | `streaming_engine.cpp:103-154`, `addon.cpp` |
| `TimeLock` | the 72-byte lock and its hash chain | `time_lock.cpp` |
| `EncryptionEngine` | the payload format and the addon's checks on top | `encryption_engine.cpp`, `addon.cpp` |
| `Vault` | composes both: one payload sealed, damaged, cut and opened | its callers |
| `Logger` | threads inside `log()` and the setters | `logger.cpp` |
| `Cli` | runs of every command over shared files; composes `EncryptionEngine` | `cli.js`, `lib/index.js` |
| `OperatorProofs` | lemmas about `Sha256`, `AesCtr` and `RandomBytes`, and about numbers | |
| `EngineProofs` | lemmas about `TimeLock` and `EncryptionEngine`: chains of digests, where a payload's cells are, what opens it | |
| `HashersProofs`, `BufferLoopProofs`, `StreamingProofs`, `VaultProofs`, `CliProofs`, `LoggerProofs` | theorems about each component, with its inductive invariant | |
| `MC*` | the small instances | |

Layers: `BufferLoop` and `StreamingEngine` use `StreamObjects`, which uses
`Sha256` and `AesCtr`. `Cli` and `Vault` use `EncryptionEngine`, `TimeLock` and
`AesCtr`. The engine takes `SHA256::hash` as injective (`Digest`); the hasher's
theorem `DigestsTellApart` is what justifies that, given a collision-free
compression function. `Primitives` hashes through `Sha256` too: the padding comes
from the same `Hash`, instantiated on bytes of eight bits.

### State and actions against the code

**Bits, Primitives.** A word is the set of the positions of its set bits, so xor
is symmetric difference and a shift moves the positions: 32 and 64 bits fit
where TLC's integers would not. `job` is the call under way, `pc` the loop it is
in, `turn` that loop's counter and `mem` what it works on: `ExpandKey`,
`AddFirstKey`, `EncryptRound`, `EncryptFinalRound`; `LoadBlock`, `ExtendSchedule`,
`StartRounds`, `CompressRound`, `Chain`, `HashEnds`; `ReadClock`, `Draw`,
`ReturnBytes`, `RandomEnds`. `basis` is history: the answers of `RandomBytes` so
far, in echelon form, with an empty row as soon as one of them depends on the others.

**Sha256, Hashers.** `state` holds the bytes `processBlock` has been given, in
order; `bitCount` is `bitCount_` modulo `BIT_MOD`; `buffer` is
`buffer_[0..bufferLen_)`. `Update` is the three parts of `update()` (top up,
whole blocks, rest) and `Finalize` the two of `finalize()` (spill, last block).
After a first `finalize()` the buffer is full; a second one stores the 0x80 byte
behind `buffer_`, on `bufferLen_` itself, whose value then exceeds the limit for the
length field in every outcome, so the old block is compressed again. `Hashers` has `DoUpdate`, `DoFinalize`, `DoReset`; `msg`,
`said` and `finals` are history.

**AesCtr, CtrLoop.** A byte is a set of atoms and xor is symmetric difference;
`Keystream` is one atom per key, counter and position. `ProcessCTR` and
`Advance` are one call. `CtrLoop` has `XorBlock` (one turn of the loop),
`Increment` (one turn of the carry loop) and `Return`.

**StreamObjects, StreamingEngine.** The records have the objects' fields.
`EncInit`, `EncProcessChunk`, `EncFinalize`, `DecInit`, `DecProcessChunk`,
`DecFinalize` are the public functions, in any order; `verify()` changes nothing
and is the operator `Verify`. `Flip` and `Truncate` are what lies between writer
and reader.

**BufferLoop.** `obj` is the object on the stack and `buf` the output up to
`offset`; one action per turn of each loop and one for its return.

**TimeLock, EncryptionEngine, Vault.** Every field of a header is one cell;
`HEADER = 5` and `LOCK_SIZE = 8` cells stand for 55 and 72 bytes. `HashChain` is
the loop of `deriveKey`. `Unsigned` is `Int64Value` and the cast to `uint64_t`;
`U64` is 2^64. `EstimateIterations` is a set: one count where the conversion of
the double is defined, any of `Undefined` where it is not. `ReadNumber` is `readU64BE`
of any eight bytes: of a cell that was written as a number that number, of any other
`Garbled`, which is some number. `reach` is how
far a call has read. `Seal` and `SealWithTimeLock` are `Encrypt` and
`EncryptWithTimeLock`; `Open` and `OpenTimeLocked` are the exported `Decrypt` and
`DecryptTimeLocked`, checks of the addon included; `Damage` and `Cut` are storage.

**Logger.** `pc` is the place inside `log()`: time stamp, prefix, text, end of
line, flush; each reads `output_` again. `buffered` is stdio's buffer.

**Cli.** A command line is a sequence of words with the dashes before them;
`Option` and `FirstPositional` are `parseArgs`, `OrElse` is `||`. A run goes through
`Launch` (`main`, `existsSync`), `Prompt`, `Read` (`readFileSync`), `Report`
(`hash`, `info`), `Seal` or `Unseal` (all the work in memory), `OpenOutput`
(`writeFileSync` truncates) and `WriteSome`/`WriteRest`. `WriteFails` is an
exception of the file system, `Kill` the end of the process at any point,
`Tick` the clock. What throws on the way, a password or an output that is `true`, a
duration without a date, ends the run as the code's `catch` does. `Salt` gives each run
the salts that it may draw: 32 random bytes in the code, which two runs do not have in common.
`NeverEarly` asks that what a run gives out *begins* a plaintext whose time has come: a
file that was cut off behind the digest of a shorter plaintext opens to that one.
`InputSurvives` compares what a run has read with what is in its input's file now: at the moments
when only the run itself could have changed it, and for every output but the input's own name.

## 3. Runs

| Run | Checks | Bounds |
|---|---|---|
| `hashers` | `NothingLost`, `DigestIsStandard`, `EqualDigestsEqualMessages`, `TypeOK` | two objects; blocks of 4, length field 1; inputs of 0, 1, 3, 4 and 9 bytes up to 9 per object, some made of the padding bytes; counter modulo 64, so it wraps at 8 bytes; one finalize per reset |
| `ctr_loop` | `Implements` | 3 binary digits, blocks of 2, calls of 0..5 bytes from every counter |
| `primitives` | `StepsAreStandard`, `AnswersAsPublished`, `ConstantsAreRoots`, `ClocksTellApart`, `TypeOK` | FIPS 197 C.3 and 16 blocks that hold every byte once; three messages, one of two blocks; 64 clock readings, 16 bytes each |
| `stream` | `AlignedIsSeamless`, `RoundTrip`, `KeystreamNeverRepeats`, `VerifiedMeansIntact`, `VerdictIsExact`, `TypeOK` | streams of up to 3 bytes (2 blocks), written and read in pieces of several sizes; the reader's counter right or wrong; 5 calls of `init()` and `finalize()` or damages in all |
| `buffer_loop` | `VerifiedIffRestored`, `Implements` | chunk of 2 cipher blocks; buffers of 0,1,3,4,5,8,9 bytes; 2 keys, 2 counters; any truncation or one flipped byte |
| `vault` | `OpensToWhatWasSealed`, `UndamagedOpens`, `NeverEarly`, `NeverReadsPastEnd`, `TypeOK` | 2 plaintexts, 2 keys, integers of 3 bits; timestamps and readings below zero, in range, at its end, past it and no number; up to 2 damaged cells, any cut; a damaged number becomes another one or none |
| `logger` | `ReturnedIsFlushed`, `AloneIsWhole`, `TypeOK` | 2 threads, 3 messages, 1 setter call, 2 streams |
| `cli` | `NothingInvented`, `RoundTrip`, `CompleteFilesOpen`, `NeverEarly`, `InputSurvives`, `LocksAsAsked`, `TypeOK` | 3 runs; an encryption into a box, a time-locked one into the same box and a decryption from there, an encryption under the default name, where an old file is, and its decryption, and nine command lines that ask for what cannot be done or change nothing; writes torn after 8 or 15 cells; a salt of its own for each run; keystream counter modulo 16 |

Why these bounds are enough. *Hashers*: with blocks of 4 and a length field of
1, a fill of 0..2 leaves room for the padding and 3 does not; 9 bytes cross two
blocks, and inputs of 1, 3 and 4 bytes reach each fill and each branch of
`update()`; the counter wraps at 8. A second `finalize()` is in `hashers_afresh`
and `stream`. *Counter mode*: 3 digits let the carry stop at each place and run
out of the top; 5 bytes are two and a half blocks. *Streams*: with
blocks of 2, pieces of 1 to 3 bytes end inside, on and across a block; counter 3 of 4 wraps in the
second block; 5 calls are two openings on one side and one on the other, their `finalize()`
calls or a damage, which a verdict left over from an earlier stream needs.
*Primitives*: the 16 blocks under the zero key look the whole table up in the first
round, and every round of 17 blocks and every word of two schedules is compared with
FIPS 197; the SHA-256 constants are all compared with the roots they come from.
The generator is linear (`OperatorProofs!GeneratorIsLinear`) and the 64 readings are
the powers of two, so that their independence speaks for all 2^64 readings.
*Buffers*: the lengths are nothing, less than a chunk, a chunk, one
more, two chunks, one more. *Vault*: two damaged cells are what a forged
timestamp with a repaired digest, or a damaged pair of fields, needs; three bits give a negative
number, a largest one and numbers between. *Cli*:
a file begins with salt and counter, 2 cells, and then has the payload. A tear after 8 leaves
one byte of the ciphertext of an unlocked output, or a part of the lock; one after 15 leaves a
locked output up to its wrapped key, with no ciphertext. A third run is needed to overwrite a file
between the write of one run and the read of another. The box has no `.enc` in its name and
`doc.enc` has, so both forms of a decryption's default name occur, and an encryption replaces the
`doc.enc` that was there. Tears fall between fields; a field that is
half written is damage to its cell, which `Vault` covers.

Symmetry is declared for `Hasher`, `Thread` and `Run`: no action or property names
one, and these runs have no liveness property.

`CHECK_DEADLOCK FALSE` is set for the streaming, logger and command line runs:
their callers may stop calling, and every run of the command ends. In the other
runs some call is always possible. In `cli` the iteration count and the
rounds of the password's key are scaled down with the chain they drive: 2 rounds, 2
iterations to the second; `1e30` is the duration with an undefined count, for which
this instance takes 3.

### Four runs that refute a sentence of the repository

| Run | What is said | What the code does |
|---|---|---|
| `hashers_afresh` | `sha256.h:63`: after `finalize()` "the hasher state is reset" | it is not: the chaining value, the full buffer and the bit count stay |
| `stream_split` | `streaming_engine.cpp:39`: "CTR mode continues seamlessly from the current counter" | a chunk that ends inside a cipher block drops the rest of its keystream |
| `cli_args` | `cli.js:48, 62`: `<command> [options] [arguments]`, and `-v` without a value | `securevault encrypt -v secret.txt` takes the file for the value of `-v` |
| `logger_lines` | `logger.h:37`: "Thread-safe." | pieces of two lines mix |

Each is accompanied by a property that does hold: `DigestIsStandard` for one
`finalize()` per `reset`, `VerifiedMeansIntact` when one of the two objects was
finalized once, `AlignedIsSeamless`
and `RoundTrip` for chunks that fill blocks or are repeated, `LocksAsAsked` for the options
that take a value, `ReturnedIsFlushed` and `AloneIsWhole` for the lines.

### Fairness

Only `CtrLoop` and `BufferLoop` (and the specifications they implement) assume
any: weak fairness of the loop of a call that is running. The loop runs on the
caller's thread, waits for nobody, and is preempted at most; it is what makes
"every call returns" hold. The callers' own actions, `SetCounter`, `Start`,
`InvokeEncrypt`, `InvokeDecrypt`, have none. The other modules have no liveness
property and no fairness: a run of the command may be killed, a prompt may never
be answered, a thread may stay inside `log()`.

## 4. Proofs

All hold for every value of the constants that meets the named assumptions of the
modules and the hypotheses of the last column. Hypotheses are operators of the proof
module, written where they are used; the small instances meet each of them.

| Theorem | Says | Hypotheses |
|---|---|---|
| `HashersProofs!TypeCorrect` | `Spec => []TypeOK`: fields keep their widths, the buffer never outgrows a block | |
| `HashersProofs!SplitsDoNotMatter` | `[]NothingLost` | |
| `HashersProofs!DigestsAreStandard` | `[]DigestIsStandard` | |
| `HashersProofs!DigestsTellApart` | `[]EqualDigestsEqualMessages` | |
| `OperatorProofs!ProcessContinues` | two calls of `processCTR`, the first filling its blocks, write what one call writes | |
| `OperatorProofs!KeystreamDoesNotRepeat` | two positions below `CIPHER_BLOCK * CTR_MOD` have different keystream bytes under one key and counter | |
| `BufferLoopProofs!VerdictIsSound` | `[]VerifiedIffRestored` | `Environment` |
| `BufferLoopProofs!LoopsAreOneShot` | the loops' steps are the one-shot calls' steps or none | `Environment` |
| `StreamingProofs!VerifiedStreams` | `[]VerifiedMeansIntact` | `Bytes` |
| `StreamingProofs!ExactVerdicts` | `[]VerdictIsExact` | `Bytes` |
| `StreamingProofs!AlignedStreams` | `[]AlignedIsSeamless` | `Bytes` |
| `StreamingProofs!KeystreamsUsedOnce` | `[]KeystreamNeverRepeats` | `Bytes` |
| `StreamingProofs!StreamsComeBack` | `[]RoundTrip` | `Bytes` |
| `StreamingProofs!TypeCorrect` | `[]TypeOK` | `Bytes` |
| `VaultProofs!NothingElseComesOut` | `[]OpensToWhatWasSealed` | `Blind` |
| `VaultProofs!NeverBeforeItsTime` | `[]NeverEarly` | `Blind` |
| `VaultProofs!UndamagedPayloadsOpen` | `[]UndamagedOpens` | |
| `VaultProofs!ReadsWithinPayload` | `[]NeverReadsPastEnd` | |
| `VaultProofs!TypeCorrect` | `[]TypeOK` | `Blind` |
| `CliProofs!NothingElseIsWritten` | `[]NothingInvented` | `NoForgedDigests` |
| `CliProofs!FilesComeBack` | `[]RoundTrip` | `NoForgedDigests` |
| `CliProofs!CompleteFilesDoOpen` | `[]CompleteFilesOpen` | |
| `CliProofs!LocksAreAsAsked` | `[]LocksAsAsked` | |
| `CliProofs!NothingOpensEarly` | `[](InputsWithinPeriod => NeverEarly)` | `NoForgedDigests`, `FreshKeys`, `NoneIsNoFile` |
| `CliProofs!InputsSurvive` | `[]InputSurvives` | |
| `CliProofs!TypeCorrect` | `[]TypeOK` | `NamesAreKnown`, `NoneIsNoFile` |
| `LoggerProofs!NothingStaysBehind` | `[]ReturnedIsFlushed` | |
| `LoggerProofs!LonelyLinesAreWhole` | `[]AloneIsWhole` | |
| `LoggerProofs!TypeCorrect` | `[]TypeOK` | |
| `OperatorProofs!GeneratorIsLinear` | one turn of the generator, and the byte it gives, commute with exclusive or | |
| `OperatorProofs!StatesNeverMeet` | two different states are different after a turn | |

The modules' assumptions: a length field fits a block and is injective on bit counts,
the padding bytes are bytes (`Sha256Assumption`); block sizes and the counter's
modulus are positive (`AesCtrAssumption`); inputs are sequences of bytes; a chunk of
the buffer loops fills whole cipher blocks (`BufferLoopAssumption`); files are
sequences of cells and paths sequences of names, a duration's readings are numbers or NaN, counters and moments are
natural numbers, the key is derived in at least one round, and no date that
JavaScript has is beyond 2^63 seconds (`CliAssumption`); eight bytes that nobody wrote as a
number are some unsigned number (`Garbled`).

The hypotheses:

- `Environment` (buffer loops) and `Bytes` (streams): buffers and streams are short
  enough for their bit count not to wrap, which is true below 2^61 bytes, and bytes
  are closed under exclusive or with the keystream and with a flip. A byte of
  the instances is any set of atoms, which makes the second part true.
- `Blind` (vault): damage does not produce a digest or a keystream byte that was not
  there. It is done by a disk or by somebody who does not have the keys and cannot
  find a preimage. `MCVariants` exchanges a number for another one or for `ONE`, which is no
  number, and adds `ONE` to anything else.
- `NoForgedDigests` (command line): no file that exists at the beginning and no salt
  holds a digest atom. A file from an encryption that the model has not seen would
  be an "invented" plaintext. In `MCCli` the first files are plain documents.
- `NamesAreKnown`: every name that a command line gives its output is one
  of the paths of the model. `NoneIsNoFile`: `None` is no sequence.
- `FreshKeys`: no file of the beginning and no salt holds a byte of keystream, and no two
  runs draw the same salt. The second part is needed: in an instance where two runs lock two
  documents to one output under one salt and password, and so under one key, TLC finds
  a file with the lock of one and the text of the other, which opens at the
  wrong moment. With a salt for each run the same instance passes.
- `InputsWithinPeriod`: no input is longer than the keystream of one counter, 2^132 bytes.
  It is a predicate on the state, and the theorem holds as long as it does.

**Numbers and induction.** The arithmetic of `%` and `\div` with an unknown
divisor is at the beginning of `OperatorProofs`. The library's induction theorems take
an operator, which the provers cannot instantiate; `OperatorProofs!Induction` says the
same of a set of numbers (a set that holds 0 and the successor of each of its
elements holds every number), proved from the well-foundedness of `<`, and is what
the lemmas about hash chains and about sequences of chunks use.

**The hasher.** The inductive invariant `HashersProofs!IInv` is `TypeOK`,
`NothingLost` and `DigestIsStandard` together, and none of the three will do
alone: the lengths of `NothingLost` need the types, the bound of the buffer after
`finalize()` needs the fill before it, and a digest is the standard's only because
the object stood for its message when `finalize()` was called. The step `DoUpdate` rests on
`UpdateStandsFor`: `Update` takes an object that stands for `m` to one that stands for
`m \o data`. `DoFinalize` rests on `FinalizeStandard`: `Finalize` of an object that
stands for `m` is `Padded(m)`, as the zeros the code writes, in one block or two,
are as many as the standard's. That a padded message determines the message,
used by `DigestsTellApart`, goes through the length field and not through
the 0x80 byte: equal fields give equal lengths below the counter's limit, and
then a prefix of equal sequences is equal.

**Counter mode.** `KeystreamContinues` says that position `p` after a call of
`n` bytes meets the keystream of position `n + p` of one call, when the
cipher block divides `n`; it needs `(a % m + b) % m = (a + b) % m`
(`ReducedSum`) for the counter and `BlockShift` for the position. `KeystreamDoesNotRepeat` is
the converse: equal keystream bytes have equal places within their blocks and equal counters, two block
numbers below `CTR_MOD` that give one counter are equal (`CounterApart`), and so are the positions.

**Buffer loops.** `BufferLoopProofs!IInv` relates the object on the stack to the
part of the input that the loop has consumed: its hash stands for that part,
or for what came out of it when decrypting, and its cipher is the entry cipher
advanced by that part's blocks (`ObjectAt`); `buf` is `ProcessCTR` of that part,
and `offset` is a whole number of blocks unless it is the end (`Underway`). The last clause is why the chunk size
must be a multiple of the cipher block; without it the invariant is false after a
short chunk. `BoxInv` says that the sealed digest is the hash of the sealed
plaintext. At the return, `offset` is the end, and the hasher's facts turn
the object's digest into `Hash(data)`: this gives both theorems. For
`LoopsAreOneShot` the refinement mapping is the identity on
`call`, `answer` and `box`: a chunk step is a stutter and a return is the call.

**Streams.** `StreamingProofs!IInv` has a part for the writer, one for the finished
streams and one for the reader. Each says of a sequence of chunks where they
begin in the stream and in the keystream (`Laid`: two functions of the chunk's number, so
that no recursive sum is needed), that the cipher stands behind the last one, and
that byte `i` of chunk `c` is the plaintext's under the keystream of that place
(`Ciphered`). The hash of each object counts bits and bytes also through `update()`
after `finalize()` (`UpdateCounts`, `FinalizeCounts`): this is why the theorems need no
assumption on how the objects are used. `VerifiedMeansIntact` asks that one of the two objects was finalized
once. If both are finalized twice it is false: the second `finalize()` compresses the
full buffer of the first again, and plaintext bytes that spell a padded block can take
its place, so that two different texts give one digest. `KeystreamNeverRepeats` is about places:
two chunks start in different blocks, and a block counter below its modulus
determines the block.

**Payloads.** `VaultProofs!IInv` says that what is stored is the sealed payload with
any cells at `damaged` exchanged and perhaps cut, and that the last answer is
the answer to it. That much holds by construction; the work is what a call can make of such
a payload. A cell that holds the digest of some text, after
blind damage, holds the digest that was sealed (`DigestSurvives`), so an answer with data is
the plaintext. `NeverEarly` needs more, because a damaged timestamp makes `unlock()` go
on. But what is decrypted with a key that is not the right one has keystream atoms left and
fails the digest, so the key that was unwrapped is the right one, and then the two chains
of digests ended in the same value. Chains with different beginnings never meet
(`ChainsMeet`, `WrapKeyInjective`), so the timestamp is the sealed one. `UndamagedOpens` is an
evaluation of the code for a payload whose cells are known, with the conversions of
JavaScript's numbers that `EngineProofs` compares.

**Command line.** `CliProofs!IInv` (`Good`) has to say what is in every file although any
number of runs write and any of them may be dead. *Honest cells*: if the digest atoms of a
cell are those of one plaintext, that plaintext was encrypted. This survives
torn and mixed writes, because it is about single cells, and gives `NothingInvented`.
*Files*: with a single writer a file is a beginning of what that run writes, all of it
once the run has ended well; without a writer it is as it was. *Inputs* (`Provenance`):
what a run has read is told by who had opened its file for writing before: nobody, or one run,
whose beginning it then is. *Outputs* (`Envelope`): what an encryption has in memory is the
payload of its input, its password and its lock. There is one lemma for each action; `Settled`
collects what one run's step leaves true for the others. `RoundTrip` and
`CompleteFilesOpen` then follow from `EngineProofs`' lemma that an undamaged payload opens.

*Inputs survive* (`InputsSurvive`). The default name of an output is never that of the input
(`DefaultNameIsNew`, for every name, with or without `.enc`), and writers are those that name a
file: so the run is not among its input's writers, and the file's one writer, if any, has ended
well and left there what the run has read. Nothing is said of other files of the output's name.

*Before its time* (`NothingOpensEarly`). Files may hold the cells of several payloads, and
outputs that were encrypted again, so no single payload is behind an answer. The invariant
`Traced` stands on top of `IInv` and is again about single cells, each with its place
(`Placed`). A keystream byte is only found behind the place where an encryption used it first;
in that very place the whole cell is that of the encryption's output. What a password's key
can unwrap is nowhere in front of cell 15, and in cell 15 it is the wrapped key of a locked
output. No digest is the first cell. Each step keeps this because an encryption moves its
input backwards: what it reads at `p` it writes at `p + 7` or `p + 15`. A run that
decrypts to something checks a digest, so no keystream is left in what it gives out
(the key and counter are those of some encryption, `KeystreamDoesNotRepeat` and the
salts tell which one), and the cells are that output's from the first on (`SamePlain`): the
answer begins its plaintext. If that output was locked, the wrapping key that `unlock()`
computed is the one in its cell 15, and the chains of digests, as for one payload, give
the moment (`LockedTold`). TLC cannot evaluate `Placed`, which quantifies over all
passwords; the property itself is what `cli` checks.

**Logger.** The property speaks of what has been written; its invariant speaks of what has been
written and what stdio still holds, together (`Sent`), because `fflush()` of one thread
sends the pieces of all. A call under way whose stream was not exchanged has put the first
`PutBefore` pieces of its line there, in order and once; a call that is alone has them
at the very end; a call that has returned has nothing in the buffer. Numbers of
messages are distinct, so a piece of one line disturbs no other.

**Random generator.** A shift of a symmetric difference is the symmetric
difference of the shifts, which gives `GeneratorIsLinear` for the three shift-and-xor
steps in turn. For `StatesNeverMeet` it is then enough that no word but the empty one is sent
to the empty one: if `x` equals `x` shifted, the bits of `x` march out of the word,
because each set bit has another one a fixed distance below (or above) it. The
clock's readings seed the generator, so no two readings give the same states.

**Model-checked only**

- Liveness: the fairness half of `Implements` in both refinements. The provers
  do not treat `ENABLED`.
- The refinement of `CtrLoop`: the value of the counter is a `FoldLeft` over its digits,
  whose definition takes an operator that the provers cannot instantiate.
- The agreement of the AES and SHA-256 steps with their standards, on the keys and
  messages of `primitives`, and the rest of that run: it is about particular words.

That equal bytes in the model are equal bytes in the code rests on the injective
operators and is not proved anywhere.

## 5. Not modelled, and why

- `TimeLock::getIterations`: it reads a field, and nothing calls it.
- The addon's checks of the types of its arguments and of the lengths of keys,
  counters and salts: they throw before anything is done. The check of the payload's
  length is modelled.
- How long a hash chain takes. The count is in the model, the time is not: that a
  damaged count keeps `unlock()` hashing (`time_lock.cpp:19`) is no property.
- On the command line: words that are a lone `-`, negative durations (their dash makes
  them an option), fractions of a timestamp, and everything printed. An output replaces any file
  of its name, without asking: that is in the model, and no property forbids it, as no text of the
  repository does. `benchmark` changes nothing and reads nothing.
- A clock before 1970: `vault` reads negative clocks, and `NeverEarly` leaves them out,
  because the cast turns them into the far future.
- Two calls of `randomBytes` within one tick of the clock: they return the same bytes, as
  `Primitives` shows by construction. `ClocksTellApart` is about different ticks.
- The order of the setters' stores as other cores may see it: `minLevel_`,
  `output_` and `timestamps_` are plain fields, and a read that races a store is
  taken to give the old or the new value.
- The Python demonstration (a separate port), tests, fuzzers, benchmarks, examples,
  the build: no behaviour of the engine.

## 6. Plan

Done: the primitives, the hasher, counter mode, the streaming engine and its buffer
loops, the payload format with its time lock and the conversions of its numbers, the
logger, the command line with its argument parsing; the proofs of section 4, which state
every safety invariant of the runs but those listed at its end.

Left:

1. The step half of `CtrLoop`'s refinement, with the value of a counter restated as
   a recursive function, whose existence and equations follow from
   `OperatorProofs!Induction`.
2. An abstract envelope (a sealed value, its key and its time) that `Vault` implements:
   it would say in one place what its four invariants say.

## 7. Running

    tlc -config MCHashers.cfg MCHashers
    tlapm CliProofs.tla
