----------------------------- MODULE Primitives -----------------------------
(***************************************************************************)
(* Calls of the primitives on real words, one turn of a loop at a time:    *)
(* setKey() and encryptBlock() of src/aes256.cpp, a message hashed block   *)
(* by block by processBlock() of src/sha256.cpp, and RandomBytes of        *)
(* src/addon.cpp called at one clock reading after the other.  A call      *)
(* works on its own memory alone, so one is under way at a time.           *)
(***************************************************************************)
EXTENDS Aes256Block, Sha256Block, RandomBytes, TLC

CONSTANTS
  Job,         \* [fn |-> "aes", key, block], [fn |-> "sha", message] or
               \* [fn |-> "random", length, clocks]
  Published(_) \* what a job must answer where that is published, else << >>

VARIABLES
  job,      \* the call under way
  pc,       \* the loop it is in
  turn,     \* the loop's counter
  mem       \* its working storage

vars == <<job, pc, turn, mem>>

Idle == [fn |-> "none"]

Init == job = Idle /\ pc = "idle" /\ turn = 0 /\ mem = << >>

\* The padding of the hasher's model, on bytes of 8 bits.
LengthBytes(n) == [i \in 1..8 |-> IF i = 7 THEN Shr(BitsOf(n), 8)
                                  ELSE IF i = 8 THEN BitsOf(n) \cap 0..7 ELSE {}]
Hasher == INSTANCE Sha256 WITH BLOCK_SIZE <- 64, LENGTH_SIZE <- 8, BIT_MOD <- 65536,
                               Byte <- Bytes, MARK <- {7}, ZERO <- {},
                               LengthField <- LengthBytes

Begin(j) ==
  /\ pc = "idle"
  /\ job' = j
  /\ CASE j.fn = "aes" ->
            /\ pc' = "expand" /\ turn' = Nk
            /\ mem' = [rk |-> [i \in 0..7 |-> [b \in 0..3 |-> j.key[(4 * i) + b]]],
                       state |-> j.block]
       [] j.fn = "sha" ->
            /\ pc' = "blocks" /\ turn' = 0
            /\ mem' = [left |-> Hasher!Hash(j.message), h |-> InitialState,
                       w |-> << >>, v |-> << >>]
       [] j.fn = "random" ->
            /\ pc' = "clock" /\ turn' = 0
            /\ mem' = [clocks |-> j.clocks, s |-> {}, bytes |-> << >>, basis |-> {}]

Go(place, n, store) == pc' = place /\ turn' = n /\ mem' = store /\ UNCHANGED job

-----------------------------------------------------------------------------
(* keyExpansion and encryptBlock.                                          *)

ExpandKey ==
  /\ pc = "expand" /\ turn < TotalWords
  /\ Go("expand", turn + 1, [mem EXCEPT !.rk = @ @@ (turn :> NextWord(@, turn))])

AddFirstKey ==
  /\ pc = "expand" /\ turn = TotalWords
  /\ Go("rounds", 1, [mem EXCEPT !.state = AddRoundKey(@, mem.rk, 0)])

EncryptRound ==
  /\ pc = "rounds" /\ turn < ROUNDS
  /\ Go("rounds", turn + 1, [mem EXCEPT !.state = Round(@, mem.rk, turn)])

EncryptFinalRound ==
  /\ pc = "rounds" /\ turn = ROUNDS
  /\ Go("done", turn, [mem EXCEPT !.state = FinalRound(@, mem.rk)])

-----------------------------------------------------------------------------
(* processBlock, for each block of the padded message.                     *)

LoadBlock ==
  /\ pc = "blocks" /\ mem.left # << >>
  /\ Go("extend", 16, [mem EXCEPT !.left = Hasher!Drop(@, 64),
                                  !.w = Load(ZeroBased(Hasher!Take(mem.left, 64)))])

ExtendSchedule ==
  /\ pc = "extend" /\ turn < 64
  /\ Go("extend", turn + 1, [mem EXCEPT !.w = @ @@ (turn :> Extended(@, turn))])

StartRounds ==
  /\ pc = "extend" /\ turn = 64
  /\ Go("compress", 0, [mem EXCEPT !.v = mem.h])

CompressRound ==
  /\ pc = "compress" /\ turn < 64
  /\ Go("compress", turn + 1, [mem EXCEPT !.v = Compressed(@, mem.w, turn)])

Chain ==
  /\ pc = "compress" /\ turn = 64
  /\ Go("blocks", 0, [mem EXCEPT !.h = Chained(@, mem.v)])

HashEnds == pc = "blocks" /\ mem.left = << >> /\ Go("done", 0, mem)

-----------------------------------------------------------------------------
(* RandomBytes.                                                            *)

ReadClock ==
  /\ pc = "clock" /\ mem.clocks # << >>
  /\ Go("draw", 0, [mem EXCEPT !.s = Head(mem.clocks), !.clocks = Tail(@), !.bytes = << >>])

Draw ==
  /\ pc = "draw" /\ turn < job.length
  /\ Go("draw", turn + 1, [mem EXCEPT !.s = Stirred(@),
                                      !.bytes = Append(@, LowByte(Stirred(mem.s)))])

\* History: answers as words of 8 * length bits, brought to echelon form: no two
\* rows of basis have the same highest bit.
AnswerBits(bytes) == UNION {Shl(bytes[i], 8 * (i - 1), 8 * Len(bytes)) : i \in DOMAIN bytes}

Remainder(row, basis) ==
  LET rest[bit \in 0..(8 * job.length)] ==
        IF bit = 8 * job.length THEN row
        ELSE LET was    == rest[bit + 1]
                 pivots == {other \in basis : bit \in other /\ Max(other) = bit}
             IN IF bit \in was /\ pivots # {} THEN was ## (CHOOSE q \in pivots : TRUE) ELSE was
  IN rest[0]

ReturnBytes ==
  /\ pc = "draw" /\ turn = job.length
  /\ Go("clock", 0, [mem EXCEPT !.basis = @ \cup {Remainder(AnswerBits(mem.bytes), @)}])

RandomEnds == pc = "clock" /\ mem.clocks = << >> /\ Go("done", 0, mem)

-----------------------------------------------------------------------------
Return == pc = "done" /\ job' = Idle /\ pc' = "idle" /\ turn' = 0 /\ mem' = << >>

Next ==
  \/ \E j \in Job : Begin(j)
  \/ ExpandKey \/ AddFirstKey \/ EncryptRound \/ EncryptFinalRound
  \/ LoadBlock \/ ExtendSchedule \/ StartRounds \/ CompressRound \/ Chain \/ HashEnds
  \/ ReadClock \/ Draw \/ ReturnBytes \/ RandomEnds
  \/ Return

Spec == Init /\ [][Next]_vars

-----------------------------------------------------------------------------
Answer ==
  CASE job.fn = "aes"    -> mem.state
    [] job.fn = "sha"    -> DigestBytes(mem.h)
    [] job.fn = "random" -> mem.bytes

\* The storage has the widths of uint8_t, uint32_t and uint64_t.
TypeOK ==
  /\ job \in Job \cup {Idle}
  /\ turn \in 0..64
  /\ job.fn = "aes" =>
       /\ mem.state \in [0..15 -> Bytes]
       /\ \A i \in DOMAIN mem.rk : mem.rk[i] \in [0..3 -> Bytes]
  /\ job.fn = "sha" =>
       /\ mem.h \in [0..7 -> Words(32)]
       /\ \A i \in DOMAIN mem.w : mem.w[i] \in Words(32)
       /\ \A i \in DOMAIN mem.v : mem.v[i] \in Words(32)
  /\ job.fn = "random" => mem.s \in Words(64) /\ mem.bytes \in Seq(Bytes)

\* aes256.cpp:98-167, sha256.cpp:44-81.  A key, a block or a message whose answer
\* is published gets that answer: rounds, words and blocks are run through in the
\* right number and order.
AnswersAsPublished ==
  pc = "done" /\ Published(job) # << >> => Answer = Published(job)

\* aes256.cpp:7-167.  Every word of a key schedule and every round is that of
\* FIPS 197, computed there with inverses and products of polynomials in place
\* of the table and the shifts of gmul.  Counter mode never decrypts a block, so a
\* wrong table, shift or product gives back every plaintext all the same.
StepsAreStandard ==
  [][/\ ExpandKey => mem'.rk[turn] = StandardWord(mem.rk, turn)
     /\ EncryptRound \/ EncryptFinalRound =>
          mem'.state = StandardRound(mem.state, mem.rk, turn)]_vars

\* sha256.cpp:5-23, 29-37.  The constants are the first 32 bits of the fractional
\* parts of cube roots and square roots of the first primes.
ConstantsAreRoots ==
  /\ pc = "compress" /\ turn < 64 => IsRoot(K[turn], Prime(turn), 3)
  /\ pc = "blocks" => \A i \in 0..7 : IsRoot(InitialState[i], Prime(i), 2)

\* addon.cpp:362-372.  Two calls answer the same bytes only when they read the
\* same clock: the answers to the readings so far are linearly independent, and
\* every answer is a linear function of the reading.  A salt and a counter drawn
\* by two runs of the command differ as soon as a nanosecond lies between them.
ClocksTellApart ==
  job.fn = "random" => {} \notin mem.basis
=============================================================================
