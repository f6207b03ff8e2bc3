---------------------------- MODULE LoggerProofs ----------------------------
(***************************************************************************)
(* The logger, for any number of threads, streams and calls: a line whose  *)
(* call has returned has left in order and once, and it is whole if no     *)
(* other call overlapped it.  The invariant follows each line from the     *)
(* first piece on, in what is written and what stdio still holds together. *)
(***************************************************************************)
EXTENDS Logger, SequenceTheorems, TLAPS

-----------------------------------------------------------------------------
(* Logger: the lines of the messages in the streams.                       *)

\* The messages and the pieces of the first n calls.
MessagesOf(n) ==
  [id : 1..n, stamped : BOOLEAN, alone : BOOLEAN, stream : Stream, moved : BOOLEAN]
PiecesOf(n) == [id : 1..n, part : Parts]

\* A stream ends with the first n pieces of m's line.
Ends(pieces, m, n) ==
  /\ n <= Len(pieces)
  /\ \A k \in 1..n : pieces[Len(pieces) - n + k] = Line(m)[k]

\* m's line lies in a stream in one piece.
Inside(pieces, m) ==
  \E i \in Nat :
    /\ i + Len(Line(m)) <= Len(pieces)
    /\ \A k \in 1..Len(Line(m)) : pieces[i + k] = Line(m)[k]

\* The first n pieces of m's line are in a stream, at its end if m is alone.
Standing(pieces, m, n) ==
  HasPieces(pieces, m, n) /\ (m.alone => Ends(pieces, m, n))

\* A line is three or four pieces of its message.
LEMMA LineFacts ==
  ASSUME NEW m, NEW c \in Nat, m \in MessagesOf(c)
  PROVE  /\ Len(Line(m)) = IF m.stamped THEN 4 ELSE 3
         /\ Line(m) \in Seq(PiecesOf(c))
         /\ \A k \in 1..Len(Line(m)) : Line(m)[k] \in PiecesOf(c) /\ Line(m)[k].id = m.id
         /\ m.stamped => Line(m)[1] = [id |-> m.id, part |-> "stamp"]
         /\ Line(m)[Len(Line(m)) - 2] = [id |-> m.id, part |-> "prefix"]
         /\ Line(m)[Len(Line(m)) - 1] = [id |-> m.id, part |-> "text"]
         /\ Line(m)[Len(Line(m))] = [id |-> m.id, part |-> "end"]
<1> DEFINE size == IF m.stamped THEN 4 ELSE 3
           parts == IF m.stamped THEN <<"stamp", "prefix", "text", "end">>
                                 ELSE <<"prefix", "text", "end">>
<1>1. m.stamped \in BOOLEAN /\ m.id \in 1..c /\ size \in {3, 4}
  BY DEF MessagesOf
<1>2. \A k \in 1..size : parts[k] \in Parts
  BY <1>1 DEF Parts
<1>3. Line(m) = [k \in 1..size |-> [id |-> m.id, part |-> parts[k]]]
  BY <1>1 DEF Line
<1>4. /\ m.stamped => parts[1] = "stamp"
      /\ parts[size - 2] = "prefix"
      /\ parts[size - 1] = "text"
      /\ parts[size] = "end"
  BY <1>1
<1> HIDE DEF size, parts
<1>5. \A k \in 1..size : [id |-> m.id, part |-> parts[k]] \in PiecesOf(c)
  BY <1>1, <1>2 DEF PiecesOf
<1>6. Line(m) \in Seq(PiecesOf(c)) /\ Len(Line(m)) = size
  BY <1>1, <1>3, <1>5
<1>7. \A k \in 1..size : Line(m)[k] = [id |-> m.id, part |-> parts[k]]
  BY <1>3
<1>8. m.stamped => Line(m)[1] = [id |-> m.id, part |-> "stamp"]
  BY <1>1, <1>4, <1>7
<1>9. /\ Line(m)[size - 2] = [id |-> m.id, part |-> "prefix"]
      /\ Line(m)[size - 1] = [id |-> m.id, part |-> "text"]
      /\ Line(m)[size] = [id |-> m.id, part |-> "end"]
  BY <1>1, <1>4, <1>7
<1>10. \A k \in 1..size : Line(m)[k] \in PiecesOf(c) /\ Line(m)[k].id = m.id
  <2> SUFFICES ASSUME NEW k \in 1..size
               PROVE  Line(m)[k] \in PiecesOf(c) /\ Line(m)[k].id = m.id
    OBVIOUS
  <2>1. Line(m)[k] = [id |-> m.id, part |-> parts[k]]
    BY <1>7
  <2> QED BY <1>5, <2>1
<1>11. size = IF m.stamped THEN 4 ELSE 3
  BY DEF size
<1> QED BY <1>6, <1>8, <1>9, <1>10, <1>11

\* Nothing of a new message is in a stream.
LEMMA NothingYet ==
  ASSUME NEW c \in Nat, NEW P \in Seq(PiecesOf(c)), NEW m, m.id = c + 1
  PROVE  Standing(P, m, 0)
<1>1. \A i \in DOMAIN P : P[i].id # m.id
  <2> SUFFICES ASSUME NEW i \in DOMAIN P PROVE P[i].id # m.id
    OBVIOUS
  <2>1. P[i] \in PiecesOf(c)
    OBVIOUS
  <2>2. P[i].id \in 1..c
    BY <2>1 DEF PiecesOf
  <2> QED BY <2>2
<1>2. HasPieces(P, m, 0)
  BY <1>1 DEF HasPieces
<1> QED BY <1>2 DEF Standing, Ends

\* A piece of another message does not disturb what is there.
LEMMA OtherPiece ==
  ASSUME NEW c \in Nat, NEW P \in Seq(PiecesOf(c)), NEW piece \in PiecesOf(c),
         NEW m \in MessagesOf(c), NEW n \in 0..Len(Line(m)),
         piece.id # m.id, HasPieces(P, m, n)
  PROVE  HasPieces(Append(P, piece), m, n)
<1> DEFINE Q == Append(P, piece)
<1>1. /\ Q \in Seq(PiecesOf(c)) /\ Len(Q) = Len(P) + 1
      /\ \A i \in 1..Len(P) : Q[i] = P[i]
      /\ Q[Len(P) + 1] = piece
  OBVIOUS
<1> HIDE DEF Q
<1>2. DOMAIN P = 1..Len(P) /\ DOMAIN Q = 1..(Len(P) + 1) /\ Len(P) \in Nat
  BY <1>1
<1>3. \A k \in 1..n : \E i \in DOMAIN Q : Q[i] = Line(m)[k]
  BY <1>1, <1>2 DEF HasPieces
<1>4. \A i \in DOMAIN Q : Q[i].id = m.id => i \in DOMAIN P /\ Q[i] = P[i]
  BY <1>1, <1>2
<1>5. HasPieces(Q, m, n)
  <2>1. ASSUME NEW i \in DOMAIN Q, NEW j \in DOMAIN Q, i <= j, Q[i].id = m.id, Q[j].id = m.id
        PROVE  \E k, l \in 1..n : Q[i] = Line(m)[k] /\ Q[j] = Line(m)[l] /\ (i < j => k < l)
    <3>1. i \in DOMAIN P /\ Q[i] = P[i] /\ j \in DOMAIN P /\ Q[j] = P[j]
      BY <1>4, <2>1
    <3> QED BY <2>1, <3>1 DEF HasPieces
  <2> QED BY <1>3, <2>1 DEF HasPieces
<1> QED BY <1>5 DEF Q

\* Nor do many pieces of others.
LEMMA OtherPieces ==
  ASSUME NEW c \in Nat, NEW P \in Seq(PiecesOf(c)), NEW R \in Seq(PiecesOf(c)),
         NEW m \in MessagesOf(c),
         \A i \in DOMAIN R : R[i].id # m.id
  PROVE  /\ HasPieces(P, m, Len(Line(m))) => HasPieces(P \o R, m, Len(Line(m)))
         /\ Inside(P, m) => Inside(P \o R, m)
<1> DEFINE Q == P \o R
           n == Len(Line(m))
<1>1. /\ Q \in Seq(PiecesOf(c)) /\ Len(Q) = Len(P) + Len(R)
      /\ \A i \in 1..Len(P) : Q[i] = P[i]
      /\ \A i \in (Len(P) + 1)..(Len(P) + Len(R)) : Q[i] = R[i - Len(P)]
  BY ConcatProperties
<1>n. n \in Nat
  BY LineFacts
<1> HIDE DEF Q, n
<1>2. /\ DOMAIN P = 1..Len(P) /\ DOMAIN R = 1..Len(R) /\ DOMAIN Q = 1..(Len(P) + Len(R))
      /\ Len(P) \in Nat /\ Len(R) \in Nat
  BY <1>1
<1>3. HasPieces(P, m, n) => \A k \in 1..n : \E i \in DOMAIN Q : Q[i] = Line(m)[k]
  BY <1>1, <1>2 DEF HasPieces
<1>4. \A i \in DOMAIN Q : Q[i].id = m.id => i \in DOMAIN P /\ Q[i] = P[i]
  <2> SUFFICES ASSUME NEW i \in DOMAIN Q, Q[i].id = m.id, i \notin DOMAIN P PROVE FALSE
    BY <1>1, <1>2
  <2>1. i - Len(P) \in DOMAIN R /\ Q[i] = R[i - Len(P)]
    BY <1>1, <1>2
  <2> QED BY <2>1
<1>5. HasPieces(P, m, n) => HasPieces(Q, m, n)
  <2> SUFFICES ASSUME HasPieces(P, m, n) PROVE HasPieces(Q, m, n)
    OBVIOUS
  <2>1. ASSUME NEW i \in DOMAIN Q, NEW j \in DOMAIN Q, i <= j, Q[i].id = m.id, Q[j].id = m.id
        PROVE  \E k, l \in 1..n : Q[i] = Line(m)[k] /\ Q[j] = Line(m)[l] /\ (i < j => k < l)
    <3>1. i \in DOMAIN P /\ Q[i] = P[i] /\ j \in DOMAIN P /\ Q[j] = P[j]
      BY <1>4, <2>1
    <3> QED BY <2>1, <3>1 DEF HasPieces
  <2> QED BY <1>3, <2>1 DEF HasPieces
<1>6. Inside(P, m) => Inside(Q, m)
  <2> SUFFICES ASSUME Inside(P, m) PROVE Inside(Q, m)
    OBVIOUS
  <2>1. PICK i \in Nat : /\ i + n <= Len(P)
                         /\ \A k \in 1..n : P[i + k] = Line(m)[k]
    BY DEF Inside, n
  <2>2. \A k \in 1..n : i + k \in 1..Len(P)
    BY <1>n, <2>1, <1>2
  <2>3. \A k \in 1..n : Q[i + k] = Line(m)[k]
    BY <2>1, <2>2, <1>1
  <2>4. i + n <= Len(Q)
    BY <1>n, <2>1, <1>1, <1>2
  <2> QED BY <2>3, <2>4 DEF Inside, n
<1> QED BY <1>5, <1>6 DEF Q, n

\* The next piece of a line takes its place.
LEMMA NextPiece ==
  ASSUME NEW c \in Nat, NEW P \in Seq(PiecesOf(c)),
         NEW m \in MessagesOf(c), NEW n \in Nat, n < Len(Line(m)),
         Standing(P, m, n)
  PROVE  Standing(Append(P, Line(m)[n + 1]), m, n + 1)
<1> DEFINE piece == Line(m)[n + 1]
           Q == Append(P, piece)
<1>0. piece \in PiecesOf(c) /\ piece.id = m.id
  <2>1. n + 1 \in 1..Len(Line(m))
    BY LineFacts
  <2> QED BY <2>1, LineFacts
<1>1. /\ Q \in Seq(PiecesOf(c)) /\ Len(Q) = Len(P) + 1
      /\ \A i \in 1..Len(P) : Q[i] = P[i]
      /\ Q[Len(P) + 1] = piece
  <2> HIDE DEF piece
  <2> QED BY <1>0
<1> HIDE DEF Q
<1>2. DOMAIN P = 1..Len(P) /\ DOMAIN Q = 1..(Len(P) + 1) /\ Len(P) \in Nat
  BY <1>1
<1>3. HasPieces(P, m, n)
  BY DEF Standing
<1>4. \A k \in 1..(n + 1) : \E i \in DOMAIN Q : Q[i] = Line(m)[k]
  <2> SUFFICES ASSUME NEW k \in 1..(n + 1) PROVE \E i \in DOMAIN Q : Q[i] = Line(m)[k]
    OBVIOUS
  <2>1. CASE k = n + 1
    BY <2>1, <1>1, <1>2
  <2>2. CASE k \in 1..n
    <3>1. PICK i \in DOMAIN P : P[i] = Line(m)[k]
      BY <2>2, <1>3 DEF HasPieces
    <3>2. i \in DOMAIN Q /\ Q[i] = P[i]
      BY <1>1, <1>2
    <3> QED BY <3>1, <3>2
  <2> QED BY <2>1, <2>2
<1>5. ASSUME NEW i \in DOMAIN Q, NEW j \in DOMAIN Q, i <= j, Q[i].id = m.id, Q[j].id = m.id
      PROVE  \E k, l \in 1..(n + 1) :
               Q[i] = Line(m)[k] /\ Q[j] = Line(m)[l] /\ (i < j => k < l)
  <2>1. CASE j \in DOMAIN P
    <3>1. i \in DOMAIN P /\ Q[i] = P[i] /\ Q[j] = P[j]
      BY <1>1, <1>2, <1>5, <2>1
    <3>2. PICK k, l \in 1..n : P[i] = Line(m)[k] /\ P[j] = Line(m)[l] /\ (i < j => k < l)
      BY <1>3, <1>5, <2>1, <3>1 DEF HasPieces
    <3>3. k \in 1..(n + 1) /\ l \in 1..(n + 1)
      OBVIOUS
    <3> QED BY <3>1, <3>2, <3>3
  <2>2. CASE j = Len(P) + 1 /\ i \in DOMAIN P
    <3>1. Q[i] = P[i] /\ Q[j] = Line(m)[n + 1]
      BY <1>1, <1>2, <2>2
    <3>2. PICK k \in 1..n : P[i] = Line(m)[k]
      BY <1>3, <1>5, <2>2, <3>1 DEF HasPieces
    <3>3. k \in 1..(n + 1) /\ n + 1 \in 1..(n + 1) /\ k < n + 1
      OBVIOUS
    <3> QED BY <3>1, <3>2, <3>3
  <2>3. CASE j = Len(P) + 1 /\ i = j
    <3>1. Q[i] = Line(m)[n + 1] /\ n + 1 \in 1..(n + 1)
      BY <1>1, <2>3
    <3> QED BY <2>3, <3>1
  <2> QED BY <1>2, <1>5, <2>1, <2>2, <2>3
<1>6. HasPieces(Q, m, n + 1)
  BY <1>4, <1>5 DEF HasPieces
<1>7. m.alone => Ends(Q, m, n + 1)
  <2> SUFFICES ASSUME m.alone PROVE Ends(Q, m, n + 1)
    OBVIOUS
  <2>1. n <= Len(P) /\ \A k \in 1..n : P[Len(P) - n + k] = Line(m)[k]
    BY DEF Standing, Ends
  <2>2. ASSUME NEW k \in 1..(n + 1) PROVE Q[Len(Q) - (n + 1) + k] = Line(m)[k]
    <3>1. Len(Q) - (n + 1) + k = Len(P) - n + k
      BY <1>1, <1>2
    <3>2. CASE k = n + 1
      BY <3>1, <3>2, <1>1, <1>2
    <3>3. CASE k \in 1..n
      <4>1. Len(P) - n + k \in 1..Len(P)
        BY <2>1, <3>3, <1>2
      <4> QED BY <4>1, <3>1, <2>1, <3>3, <1>1
    <3> QED BY <3>2, <3>3
  <2>3. n + 1 <= Len(Q)
    BY <1>1, <1>2, <2>1
  <2> QED BY <2>2, <2>3 DEF Ends
<1>8. Standing(Q, m, n + 1)
  BY <1>6, <1>7 DEF Standing
<1> QED BY <1>8 DEF Q

\* What stands for a message stands for one with the same line.
LEMMA SameLine ==
  ASSUME NEW P, NEW n, NEW m, NEW w, m.id = w.id, m.stamped = w.stamped,
         w.alone => m.alone
  PROVE  Line(m) = Line(w) /\ (Standing(P, m, n) => Standing(P, w, n))
<1>1. Line(m) = Line(w)
  BY DEF Line
<1> QED BY <1>1 DEF Standing, HasPieces, Ends

\* A line that stands complete at the end is inside.
LEMMA CompleteLine ==
  ASSUME NEW c \in Nat, NEW P \in Seq(PiecesOf(c)), NEW m \in MessagesOf(c),
         Standing(P, m, Len(Line(m)))
  PROVE  /\ HasPieces(P, m, Len(Line(m)))
         /\ m.alone => Inside(P, m)
<1> DEFINE n == Len(Line(m))
           i == Len(P) - n
<1>1. n \in Nat /\ Len(P) \in Nat
  BY LineFacts
<1>2. ASSUME m.alone PROVE Inside(P, m)
  <2>1. n <= Len(P) /\ \A k \in 1..n : P[i + k] = Line(m)[k]
    BY <1>2 DEF Standing, Ends
  <2> HIDE DEF n
  <2>2. i \in Nat /\ i + n <= Len(P)
    BY <1>1, <2>1
  <2> QED BY <2>1, <2>2 DEF Inside, n
<1> QED BY <1>2 DEF Standing
-----------------------------------------------------------------------------
(* The invariant.                                                          *)

\* What has been written to a stream, with what stdio still holds.
Sent(s) == written[s] \o buffered[s]

\* How many pieces of m's line a call at this place has written.
PutBefore(place, m) ==
  IF place = "stamp" THEN 0
  ELSE Len(Line(m)) - [prefix |-> 3, text |-> 2, end |-> 1, flush |-> 0][place]

Types ==
  /\ minLevel \in Level \cup {WARN} /\ output \in Stream /\ timestamps \in BOOLEAN
  /\ pc \in [Thread -> Parts \cup {"idle", "flush"}]
  /\ calls \in 0..MaxCalls
  /\ msg \in [Thread -> MessagesOf(calls) \cup {None}]
  /\ \A t \in Thread : msg[t] = None <=> ~Busy(t)
  /\ finished \subseteq MessagesOf(calls)
  /\ written \in [Stream -> Seq(PiecesOf(calls))]
  /\ buffered \in [Stream -> Seq(PiecesOf(calls))]

\* No two messages have the same number.
Distinct ==
  /\ \A t, u \in Thread : Busy(t) /\ Busy(u) /\ msg[t].id = msg[u].id => t = u
  /\ \A t \in Thread : Busy(t) => \A m \in finished : m.id # msg[t].id

\* A call under way has written its line so far, to the stream it began with
\* unless that was changed.
UnderWay(t) ==
  Busy(t) =>
    /\ pc[t] = "stamp" => ~msg[t].stamped
    /\ msg[t].alone => \A u \in Thread : Busy(u) => u = t
    /\ ~msg[t].moved => /\ output = msg[t].stream
                        /\ Standing(Sent(output), msg[t], PutBefore(pc[t], msg[t]))

\* A call that has returned has left nothing behind.
Done(m) ==
  ~m.moved =>
    /\ HasPieces(written[m.stream], m, Len(Line(m)))
    /\ \A i \in DOMAIN buffered[m.stream] : buffered[m.stream][i].id # m.id
    /\ m.alone => Inside(written[m.stream], m)

IInv ==
  /\ Types
  /\ Distinct
  /\ \A t \in Thread : UnderWay(t)
  /\ \A m \in finished : Done(m)

-----------------------------------------------------------------------------
(* The steps.                                                              *)

\* What the types say of one thread.
LEMMA OfOneThread ==
  ASSUME Types, NEW t \in Thread, Busy(t)
  PROVE  /\ calls \in Nat
         /\ msg[t] \in MessagesOf(calls)
         /\ msg[t].id \in 1..calls /\ msg[t].stamped \in BOOLEAN /\ msg[t].stream \in Stream
         /\ pc[t] \in Parts \cup {"flush"}
<1>1. calls \in Nat
  BY LoggerAssumption DEF Types
<1>2. msg[t] \in MessagesOf(calls)
  BY DEF Types
<1>3. msg[t].id \in 1..calls /\ msg[t].stamped \in BOOLEAN /\ msg[t].stream \in Stream
  BY <1>2 DEF MessagesOf
<1> QED BY <1>1, <1>2, <1>3 DEF Types, Busy

\* What the types say of a stream.
LEMMA OfOneStream ==
  ASSUME Types, NEW s \in Stream
  PROVE  /\ written[s] \in Seq(PiecesOf(calls))
         /\ buffered[s] \in Seq(PiecesOf(calls))
         /\ Sent(s) \in Seq(PiecesOf(calls))
BY ConcatProperties DEF Types, Sent

\* The first state.
LEMMA InitEstablishes == Init => IInv
<1> SUFFICES ASSUME Init PROVE IInv
  OBVIOUS
<1>1. << >> \in Seq(PiecesOf(0))
  OBVIOUS
<1>2. Types
  BY <1>1, LoggerAssumption DEF Init, Types, Busy
<1>3. \A t \in Thread : ~Busy(t)
  BY DEF Init, Busy
<1> QED BY <1>2, <1>3 DEF Init, IInv, Distinct, UnderWay

\* A later call has a greater number.
LEMMA MoreNumbers ==
  ASSUME NEW c \in Nat
  PROVE  /\ MessagesOf(c) \subseteq MessagesOf(c + 1)
         /\ PiecesOf(c) \subseteq PiecesOf(c + 1)
         /\ Seq(PiecesOf(c)) \subseteq Seq(PiecesOf(c + 1))
<1>1. 1..c \subseteq 1..(c + 1)
  OBVIOUS
<1>2. PiecesOf(c) \subseteq PiecesOf(c + 1)
  BY <1>1 DEF PiecesOf
<1>3. MessagesOf(c) \subseteq MessagesOf(c + 1)
  BY <1>1 DEF MessagesOf
<1>4. Seq(PiecesOf(c)) \subseteq Seq(PiecesOf(c + 1))
  BY <1>2
<1> QED BY <1>2, <1>3, <1>4

\* A message is never None.
LEMMA NoneIsNoMessage ==
  ASSUME NEW c \in Nat
  PROVE  None \notin MessagesOf(c)
<1>1. MessagesOf(c) \subseteq
        [id : Nat, stamped : BOOLEAN, alone : BOOLEAN, stream : Stream, moved : BOOLEAN]
  BY DEF MessagesOf
<1> QED BY <1>1, LoggerAssumption

\* log() begins.
LEMMA LogKeeps ==
  ASSUME IInv, NEW t \in Thread, NEW level \in Level, Log(t, level)
  PROVE  IInv'
<1> DEFINE alone == \A u \in Thread : ~Busy(u)
           new == [id |-> calls + 1, stamped |-> FALSE, alone |-> alone,
                   stream |-> output, moved |-> FALSE]
<1>0. Types /\ Distinct /\ (\A u \in Thread : UnderWay(u)) /\ (\A m \in finished : Done(m))
  BY DEF IInv
<1>1. /\ ~Busy(t) /\ calls < MaxCalls /\ calls' = calls + 1
      /\ pc' = [pc EXCEPT ![t] = "stamp"]
      /\ msg' = [u \in Thread |->
                   IF u = t THEN new
                   ELSE IF Busy(u) THEN [msg[u] EXCEPT !.alone = FALSE] ELSE msg[u]]
      /\ UNCHANGED <<settings, buffered, written, finished, sets>>
  BY DEF Log
<1>2. calls \in Nat /\ output \in Stream
  BY <1>0, LoggerAssumption DEF Types
<1>3. new \in MessagesOf(calls + 1)
  BY <1>2 DEF MessagesOf
<1>4. /\ new.id = calls + 1 /\ ~new.stamped /\ new.alone = alone
      /\ new.stream = output /\ ~new.moved
  OBVIOUS
<1> HIDE DEF new
<1>5. ASSUME NEW u \in Thread, u # t, Busy(u)
      PROVE  /\ msg'[u] \in MessagesOf(calls + 1)
             /\ msg'[u].id = msg[u].id /\ msg'[u].stamped = msg[u].stamped
             /\ ~msg'[u].alone
             /\ msg'[u].moved = msg[u].moved /\ msg'[u].stream = msg[u].stream
  <2>1. msg[u] \in MessagesOf(calls) /\ msg'[u] = [msg[u] EXCEPT !.alone = FALSE]
    BY <1>0, <1>1, <1>5, OfOneThread
  <2>2. msg[u] \in MessagesOf(calls + 1)
    BY <2>1, <1>2, MoreNumbers
  <2> QED BY <2>1, <2>2 DEF MessagesOf
<1>6. \A u \in Thread : /\ Busy(u)' <=> (u = t \/ Busy(u))
                        /\ u # t => pc'[u] = pc[u]
  BY <1>0, <1>1 DEF Busy, Types
<1>7. pc'[t] = "stamp" /\ msg'[t] = new
  BY <1>0, <1>1 DEF Types
<1>8. Types'
  <2>1. msg' \in [Thread -> MessagesOf(calls + 1) \cup {None}]
    <3>1. ASSUME NEW u \in Thread PROVE msg'[u] \in MessagesOf(calls + 1) \cup {None}
      <4>1. CASE u # t /\ ~Busy(u)
        BY <4>1, <1>0, <1>1 DEF Types
      <4> QED BY <4>1, <1>3, <1>5, <1>7
    <3>2. msg' = [u \in Thread |-> msg'[u]]
      BY <1>1
    <3> QED BY <3>1, <3>2
  <2>2. ASSUME NEW u \in Thread PROVE (msg'[u] = None) <=> ~Busy(u)'
    <3>1. CASE u # t /\ ~Busy(u)
      BY <3>1, <1>0, <1>1, <1>6 DEF Types
    <3>2. CASE u = t \/ Busy(u)
      <4>1. msg'[u] \in MessagesOf(calls + 1)
        BY <3>2, <1>3, <1>5, <1>7
      <4> QED BY <4>1, <3>2, <1>2, <1>6, NoneIsNoMessage
    <3> QED BY <3>1, <3>2
  <2>3. /\ finished' \subseteq MessagesOf(calls + 1)
        /\ written' \in [Stream -> Seq(PiecesOf(calls + 1))]
        /\ buffered' \in [Stream -> Seq(PiecesOf(calls + 1))]
    BY <1>0, <1>1, <1>2, MoreNumbers DEF Types
  <2>4. calls' \in 0..MaxCalls
    BY <1>1, <1>2, LoggerAssumption
  <2>5. pc' \in [Thread -> Parts \cup {"idle", "flush"}]
    BY <1>0, <1>1 DEF Types, Parts
  <2>6. calls' = calls + 1
    BY <1>1
  <2> QED BY <2>1, <2>2, <2>3, <2>4, <2>5, <2>6, <1>0, <1>1 DEF Types, settings
<1>9. Distinct'
  <2>1. \A u \in Thread : Busy(u) => msg[u].id \in 1..calls
    BY <1>0, OfOneThread
  <2>2. \A m \in finished : m.id \in 1..calls
    BY <1>0 DEF Types, MessagesOf
  <2>3. \A u \in Thread : Busy(u)' => msg'[u].id = IF u = t THEN calls + 1 ELSE msg[u].id
    BY <1>4, <1>5, <1>6, <1>7
  <2>4. \A u, w \in Thread : Busy(u)' /\ Busy(w)' /\ msg'[u].id = msg'[w].id => u = w
    BY <2>1, <2>3, <1>0, <1>2, <1>6 DEF Distinct
  <2>5. \A u \in Thread : Busy(u)' => \A m \in finished' : m.id # msg'[u].id
    BY <2>1, <2>2, <2>3, <1>0, <1>1, <1>2, <1>6 DEF Distinct
  <2> QED BY <2>4, <2>5 DEF Distinct
<1>10. ASSUME NEW u \in Thread PROVE UnderWay(u)'
  <2>1. output' = output /\ Sent(output)' = Sent(output)
    BY <1>1 DEF settings, Sent
  <2>2. CASE u = t
    <3>1. new.alone => \A w \in Thread : Busy(w)' => w = t
      BY <1>4, <1>6
    <3>2. Sent(output) \in Seq(PiecesOf(calls))
      BY <1>0, <1>2, OfOneStream
    <3>3. Standing(Sent(output), new, 0)
      BY <3>2, <1>2, <1>4, NothingYet
    <3>4. PutBefore(pc'[t], new) = 0
      BY <1>7 DEF PutBefore
    <3> QED BY <3>1, <3>3, <3>4, <2>1, <2>2, <1>4, <1>7 DEF UnderWay
  <2>3. CASE u # t /\ Busy(u)
    <3>1. /\ pc[u] = "stamp" => ~msg[u].stamped
          /\ ~msg[u].moved => /\ output = msg[u].stream
                              /\ Standing(Sent(output), msg[u], PutBefore(pc[u], msg[u]))
      BY <2>3, <1>0 DEF UnderWay
    <3>2. /\ Line(msg[u]) = Line(msg'[u])
          /\ \A n : Standing(Sent(output), msg[u], n) => Standing(Sent(output), msg'[u], n)
      BY <2>3, <1>5, SameLine
    <3>3. PutBefore(pc[u], msg[u]) = PutBefore(pc'[u], msg'[u])
      BY <3>2, <2>3, <1>6 DEF PutBefore
    <3> QED BY <3>1, <3>2, <3>3, <2>1, <2>3, <1>5, <1>6 DEF UnderWay
  <2> QED BY <2>2, <2>3, <1>6 DEF UnderWay
<1>11. \A m \in finished' : Done(m)'
  BY <1>0, <1>1 DEF Done
<1> QED BY <1>8, <1>9, <1>10, <1>11 DEF IInv
\* A piece joins what was sent to a stream.
LEMMA SentGrows ==
  ASSUME Types, NEW piece \in PiecesOf(calls), written' = written,
         buffered' = [buffered EXCEPT ![output] = Append(@, piece)]
  PROVE  /\ buffered' \in [Stream -> Seq(PiecesOf(calls))]
         /\ \A s \in Stream : s # output => buffered'[s] = buffered[s]
         /\ buffered'[output] = Append(buffered[output], piece)
         /\ written'[output] \o buffered'[output] = Append(Sent(output), piece)
<1>1. output \in Stream
  BY DEF Types
<1>2. /\ buffered \in [Stream -> Seq(PiecesOf(calls))]
      /\ written[output] \in Seq(PiecesOf(calls)) /\ buffered[output] \in Seq(PiecesOf(calls))
  BY <1>1 DEF Types
<1>3. buffered'[output] = Append(buffered[output], piece)
  BY <1>1, <1>2
<1>4. Append(buffered[output], piece) \in Seq(PiecesOf(calls))
  BY <1>2
<1>5. buffered' \in [Stream -> Seq(PiecesOf(calls))]
  BY <1>2, <1>4
<1>6. \A s \in Stream : s # output => buffered'[s] = buffered[s]
  BY <1>2
<1>7. ASSUME NEW w \in Seq(PiecesOf(calls)), NEW b \in Seq(PiecesOf(calls))
      PROVE  w \o Append(b, piece) = Append(w \o b, piece)
  <2> DEFINE longer == Append(b, piece)
             l == w \o longer
             r == Append(w \o b, piece)
  <2>1. /\ longer \in Seq(PiecesOf(calls)) /\ Len(longer) = Len(b) + 1
        /\ \A i \in 1..Len(b) : longer[i] = b[i]
        /\ longer[Len(b) + 1] = piece
    OBVIOUS
  <2> HIDE DEF longer
  <2>2. /\ l \in Seq(PiecesOf(calls)) /\ Len(l) = Len(w) + Len(b) + 1
        /\ \A i \in 1..(Len(w) + Len(b) + 1) :
             l[i] = IF i <= Len(w) THEN w[i] ELSE longer[i - Len(w)]
    BY <2>1, ConcatProperties
  <2>3. /\ w \o b \in Seq(PiecesOf(calls)) /\ Len(w \o b) = Len(w) + Len(b)
        /\ \A i \in 1..(Len(w) + Len(b)) :
             (w \o b)[i] = IF i <= Len(w) THEN w[i] ELSE b[i - Len(w)]
    BY ConcatProperties
  <2>4. /\ r \in Seq(PiecesOf(calls)) /\ Len(r) = Len(w \o b) + 1
        /\ \A i \in 1..Len(w \o b) : r[i] = (w \o b)[i]
        /\ r[Len(w \o b) + 1] = piece
    BY <2>3
  <2> HIDE DEF l, r
  <2>5. ASSUME NEW i \in 1..(Len(w) + Len(b) + 1) PROVE l[i] = r[i]
    <3>0. Len(w) \in Nat /\ Len(b) \in Nat
      OBVIOUS
    <3>1. CASE i <= Len(w)
      <4>1. l[i] = w[i] /\ i \in 1..(Len(w) + Len(b))
        BY <3>0, <3>1, <2>2
      <4>2. (w \o b)[i] = w[i] /\ r[i] = (w \o b)[i]
        BY <3>1, <4>1, <2>3, <2>4
      <4> QED BY <4>1, <4>2
    <3>2. CASE i > Len(w) /\ i <= Len(w) + Len(b)
      <4>1. i - Len(w) \in 1..Len(b)
        BY <3>0, <3>2
      <4> QED BY <3>0, <3>2, <4>1, <2>1, <2>2, <2>3, <2>4
    <3>3. CASE i = Len(w) + Len(b) + 1
      <4>1. i - Len(w) = Len(b) + 1 /\ ~(i <= Len(w)) /\ i = Len(w \o b) + 1
        BY <3>0, <3>3, <2>3
      <4> QED BY <4>1, <2>1, <2>2, <2>4
    <3> QED BY <3>0, <3>1, <3>2, <3>3
  <2>6. l = r
    BY <2>2, <2>3, <2>4, <2>5
  <2> QED BY <2>6 DEF l, r, longer
<1> QED BY <1>2, <1>3, <1>5, <1>6, <1>7 DEF Sent

\* A call writes a piece of its own line: what the others have written stands.
LEMMA PieceKeepsOthers ==
  ASSUME IInv, NEW t \in Thread, Busy(t),
         NEW piece \in PiecesOf(calls), piece.id = msg[t].id,
         buffered' = [buffered EXCEPT ![output] = Append(@, piece)],
         UNCHANGED <<output, written, finished>>,
         \A u \in Thread : /\ Busy(u)' <=> Busy(u)
                           /\ u # t => pc'[u] = pc[u] /\ msg'[u] = msg[u]
  PROVE  /\ \A u \in Thread : u # t => UnderWay(u)'
         /\ \A m \in finished' : Done(m)'
<1>0. Types /\ Distinct /\ (\A u \in Thread : UnderWay(u)) /\ (\A m \in finished : Done(m))
  BY DEF IInv
<1>1. /\ output \in Stream
      /\ \A s \in Stream : s # output => buffered'[s] = buffered[s]
      /\ buffered'[output] = Append(buffered[output], piece)
      /\ Sent(output)' = Append(Sent(output), piece)
  BY <1>0, SentGrows DEF Sent, Types
<1>2. ASSUME NEW u \in Thread, u # t PROVE UnderWay(u)'
  <2> SUFFICES ASSUME Busy(u) PROVE UnderWay(u)'
    BY DEF UnderWay
  <2>1. /\ pc[u] = "stamp" => ~msg[u].stamped
        /\ msg[u].alone => \A w \in Thread : Busy(w) => w = u
        /\ ~msg[u].moved => /\ output = msg[u].stream
                            /\ Standing(Sent(output), msg[u], PutBefore(pc[u], msg[u]))
    BY <1>0 DEF UnderWay
  <2>2. ~msg[u].alone
    BY <1>2, <2>1
  <2>3. msg[u].id # msg[t].id
    BY <1>0, <1>2 DEF Distinct
  <2>4. /\ calls \in Nat /\ msg[u] \in MessagesOf(calls) /\ msg[u].stamped \in BOOLEAN
        /\ pc[u] \in Parts \cup {"flush"} /\ Sent(output) \in Seq(PiecesOf(calls))
    BY <1>0, <1>1, OfOneThread, OfOneStream
  <2>5. PutBefore(pc[u], msg[u]) \in 0..Len(Line(msg[u]))
    <3>1. Len(Line(msg[u])) \in {3, 4}
      BY <2>4, LineFacts
    <3>2. pc[u] \in {"stamp", "prefix", "text", "end", "flush"}
      BY <2>4 DEF Parts
    <3> DEFINE left == [prefix |-> 3, text |-> 2, end |-> 1, flush |-> 0][pc[u]]
               n == Len(Line(msg[u]))
    <3>3. pc[u] # "stamp" => left \in 0..3
      BY <3>2
    <3>4. PutBefore(pc[u], msg[u]) = IF pc[u] = "stamp" THEN 0 ELSE n - left
      BY DEF PutBefore
    <3> HIDE DEF left, n
    <3>5. n \in {3, 4}
      BY <3>1 DEF n
    <3>6. PutBefore(pc[u], msg[u]) \in 0..n
      BY <3>3, <3>4, <3>5
    <3> QED BY <3>6 DEF n
  <2>6. ~msg[u].moved => HasPieces(Append(Sent(output), piece), msg[u], PutBefore(pc[u], msg[u]))
    BY <2>1, <2>3, <2>4, <2>5, OtherPiece DEF Standing
  <2> QED BY <2>1, <2>2, <2>6, <1>1, <1>2 DEF UnderWay, Standing
<1>3. ASSUME NEW m \in finished PROVE Done(m)'
  <2> SUFFICES ASSUME ~m.moved PROVE Done(m)'
    BY DEF Done
  <2>1. m.id # msg[t].id /\ m.stream \in Stream
    BY <1>0 DEF Distinct, Types, MessagesOf
  <2>2. \A i \in DOMAIN buffered[m.stream] : buffered[m.stream][i].id # m.id
    BY <1>0 DEF Done
  <2>3. \A i \in DOMAIN buffered'[m.stream] : buffered'[m.stream][i].id # m.id
    <3>1. CASE m.stream # output
      BY <3>1, <2>1, <2>2, <1>1
    <3>2. CASE m.stream = output
      <4> DEFINE b == buffered[output]
      <4>1. b \in Seq(PiecesOf(calls))
        BY <1>0, <1>1, OfOneStream
      <4>2. /\ DOMAIN Append(b, piece) = 1..(Len(b) + 1) /\ DOMAIN b = 1..Len(b) /\ Len(b) \in Nat
            /\ \A i \in 1..Len(b) : Append(b, piece)[i] = b[i]
            /\ Append(b, piece)[Len(b) + 1] = piece
        BY <4>1, AppendProperties
      <4>3. piece.id # m.id
        BY <2>1
      <4>4. \A i \in 1..Len(b) : b[i].id # m.id
        BY <2>2, <3>2, <4>2
      <4> HIDE DEF b
      <4>5. \A i \in 1..(Len(b) + 1) : Append(b, piece)[i].id # m.id
        BY <4>2, <4>3, <4>4
      <4> QED BY <4>2, <4>5, <3>2, <1>1 DEF b
    <3> QED BY <3>1, <3>2
  <2> QED BY <2>3, <1>0 DEF Done
<1> QED BY <1>2, <1>3

\* The time stamp, or none.
LEMMA StampKeeps ==
  ASSUME IInv, NEW t \in Thread, Stamp(t)
  PROVE  IInv'
<1>0. Types /\ Distinct /\ (\A u \in Thread : UnderWay(u)) /\ (\A m \in finished : Done(m))
  BY DEF IInv
<1>1. /\ pc[t] = "stamp" /\ pc' = [pc EXCEPT ![t] = "prefix"]
      /\ UNCHANGED <<settings, written, finished, calls, sets>>
  BY DEF Stamp
<1>2. /\ pc' \in [Thread -> Parts \cup {"idle", "flush"}]
      /\ Busy(t) /\ pc'[t] = "prefix"
      /\ \A u \in Thread : u # t => pc'[u] = pc[u]
      /\ \A u \in Thread : Busy(u)' <=> Busy(u)
  BY <1>0, <1>1 DEF Types, Parts, Busy
<1>3. /\ calls \in Nat /\ msg[t] \in MessagesOf(calls)
      /\ ~msg[t].stamped /\ output \in Stream /\ Sent(output) \in Seq(PiecesOf(calls))
  <2>1. output \in Stream
    BY <1>0 DEF Types
  <2> QED BY <2>1, <1>0, <1>1, <1>2, OfOneThread, OfOneStream DEF UnderWay
<1>4. /\ msg[t].alone => \A u \in Thread : Busy(u) => u = t
      /\ ~msg[t].moved => output = msg[t].stream /\ Standing(Sent(output), msg[t], 0)
  BY <1>0, <1>1, <1>2 DEF UnderWay, PutBefore
<1>5. CASE timestamps
  <2> DEFINE m == [msg[t] EXCEPT !.stamped = TRUE]
             piece == [id |-> msg[t].id, part |-> "stamp"]
  <2>1. /\ buffered' = [buffered EXCEPT ![output] = Append(@, piece)]
        /\ msg' = [msg EXCEPT ![t] = m]
    BY <1>5 DEF Stamp, Put
  <2>2. /\ m \in MessagesOf(calls) /\ m.stamped
        /\ m.id = msg[t].id /\ m.alone = msg[t].alone
        /\ m.moved = msg[t].moved /\ m.stream = msg[t].stream
    BY <1>3 DEF MessagesOf
  <2>3. piece \in PiecesOf(calls) /\ piece.id = msg[t].id
    BY <1>3 DEF MessagesOf, PiecesOf, Parts
  <2>4. Line(m)[1] = piece /\ Len(Line(m)) = 4
    BY <1>3, <2>2, LineFacts
  <2> HIDE DEF m, piece
  <2>5. msg'[t] = m /\ \A u \in Thread : u # t => msg'[u] = msg[u]
    BY <1>0, <2>1 DEF Types
  <2>6. /\ buffered' \in [Stream -> Seq(PiecesOf(calls))]
        /\ written'[output] \o buffered'[output] = Append(Sent(output), piece)
    BY <1>0, <1>1, <2>1, <2>3, SentGrows
  <2>7. Types'
    <3>1. msg' \in [Thread -> MessagesOf(calls) \cup {None}]
      BY <1>0, <2>1, <2>2 DEF Types
    <3>2. ASSUME NEW u \in Thread PROVE (msg'[u] = None) <=> ~Busy(u)'
      <4>1. CASE u # t
        BY <4>1, <1>0, <1>2, <2>5 DEF Types
      <4>2. CASE u = t
        <5>1. msg'[u] # None
          BY <4>2, <1>3, <2>2, <2>5, NoneIsNoMessage
        <5> QED BY <5>1, <4>2, <1>2
      <4> QED BY <4>1, <4>2
    <3>3. UNCHANGED <<minLevel, output, timestamps, calls, written, finished>>
      BY <1>1 DEF settings
    <3> QED BY <3>1, <3>2, <3>3, <1>0, <1>2, <2>6 DEF Types
  <2>8. Distinct'
    <3>1. \A u \in Thread : msg'[u].id = msg[u].id
      BY <2>2, <2>5
    <3> QED BY <3>1, <1>0, <1>1, <1>2 DEF Distinct
  <2>9. UnderWay(t)'
    <3>1. Standing(Sent(output), m, 0) => Standing(Append(Sent(output), piece), m, 1)
      <4>1. 0 \in Nat /\ 0 < Len(Line(m)) /\ 0 + 1 = 1
        BY <2>4
      <4> QED BY <4>1, <1>3, <2>2, <2>4, NextPiece
    <3>2. ~m.moved => Standing(Sent(output), m, 0)
      BY <1>4, <2>2 DEF Standing, HasPieces, Ends
    <3>3. PutBefore("prefix", m) = 1
      BY <2>4 DEF PutBefore
    <3>4. output' = output /\ Sent(output)' = Append(Sent(output), piece)
      BY <1>1, <2>6 DEF settings, Sent
    <3> QED BY <3>1, <3>2, <3>3, <3>4, <1>2, <1>4, <2>2, <2>5 DEF UnderWay
  <2>10. /\ \A u \in Thread : u # t => UnderWay(u)'
         /\ \A w \in finished' : Done(w)'
    BY <1>1, <1>2, <2>1, <2>3, <2>5, PieceKeepsOthers DEF settings
  <2> QED BY <2>7, <2>8, <2>9, <2>10 DEF IInv
<1>6. CASE ~timestamps
  <2>1. UNCHANGED <<minLevel, output, timestamps, buffered, msg, written, finished, calls>>
    BY <1>1, <1>6 DEF Stamp, settings
  <2>2. Types'
    BY <2>1, <1>0, <1>2 DEF Types
  <2>3. Distinct'
    BY <2>1, <1>0, <1>2 DEF Distinct
  <2>4. ASSUME NEW u \in Thread PROVE UnderWay(u)'
    <3>1. CASE u # t
      BY <3>1, <2>1, <1>0, <1>2 DEF UnderWay, Sent
    <3>2. CASE u = t
      <4>1. PutBefore("prefix", msg[t]) = 0
        <5>1. Len(Line(msg[t])) = 3
          BY <1>3, LineFacts
        <5> QED BY <5>1 DEF PutBefore
      <4>2. Sent(output)' = Sent(output)
        BY <2>1 DEF Sent
      <4> QED BY <3>2, <4>1, <4>2, <2>1, <1>2, <1>4 DEF UnderWay
    <3> QED BY <3>1, <3>2
  <2>5. \A w \in finished' : Done(w)'
    BY <2>1, <1>0 DEF Done
  <2> QED BY <2>2, <2>3, <2>4, <2>5 DEF IInv
<1>7. timestamps \in BOOLEAN
  BY <1>0 DEF Types
<1> QED BY <1>5, <1>6, <1>7
\* The prefix, the message or the end of the line: each is the next piece.
LEMMA PieceKeeps ==
  ASSUME IInv, NEW t \in Thread, NEW part, NEW next, Piece(t, part, next),
         \/ part = "prefix" /\ next = "text"
         \/ part = "text" /\ next = "end"
         \/ part = "end" /\ next = "flush"
  PROVE  IInv'
<1> DEFINE m == msg[t]
           n == PutBefore(part, m)
           piece == [id |-> m.id, part |-> part]
<1>0. Types /\ Distinct /\ (\A u \in Thread : UnderWay(u)) /\ (\A w \in finished : Done(w))
  BY DEF IInv
<1>1. /\ pc[t] = part /\ pc' = [pc EXCEPT ![t] = next]
      /\ buffered' = [buffered EXCEPT ![output] = Append(@, piece)]
      /\ UNCHANGED <<settings, msg, written, finished, calls, sets>>
  BY DEF Piece, Put
<1>2. /\ part \in Parts /\ next \in Parts \cup {"flush"} /\ next # "idle" /\ next # "stamp"
      /\ part # "idle"
  BY DEF Parts
<1>3. /\ pc' \in [Thread -> Parts \cup {"idle", "flush"}]
      /\ Busy(t) /\ pc'[t] = next
      /\ \A u \in Thread : u # t => pc'[u] = pc[u]
      /\ \A u \in Thread : Busy(u)' <=> Busy(u)
  BY <1>0, <1>1, <1>2 DEF Types, Busy
<1>4. calls \in Nat /\ m \in MessagesOf(calls) /\ output \in Stream
  BY <1>0, <1>3, OfOneThread DEF Types
<1>5. n \in Nat /\ n < Len(Line(m)) /\ PutBefore(next, m) = n + 1 /\ Line(m)[n + 1] = piece
  <2> DEFINE size == Len(Line(m))
  <2>1. /\ size \in {3, 4}
        /\ Line(m)[size - 2] = [id |-> m.id, part |-> "prefix"]
        /\ Line(m)[size - 1] = [id |-> m.id, part |-> "text"]
        /\ Line(m)[size] = [id |-> m.id, part |-> "end"]
    BY <1>4, LineFacts
  <2>2. /\ PutBefore("prefix", m) = size - 3 /\ PutBefore("text", m) = size - 2
        /\ PutBefore("end", m) = size - 1 /\ PutBefore("flush", m) = size - 0
    BY DEF PutBefore
  <2> HIDE DEF size
  <2>3. CASE part = "prefix" /\ next = "text"
    <3>1. n = size - 3 /\ PutBefore(next, m) = size - 2
      BY <2>2, <2>3
    <3>2. n \in Nat /\ n < size /\ n + 1 = size - 2
      BY <2>1, <3>1
    <3>3. Line(m)[n + 1] = piece
      BY <2>1, <2>3, <3>2
    <3> QED BY <3>1, <3>2, <3>3 DEF size
  <2>4. CASE part = "text" /\ next = "end"
    <3>1. n = size - 2 /\ PutBefore(next, m) = size - 1
      BY <2>2, <2>4
    <3>2. n \in Nat /\ n < size /\ n + 1 = size - 1
      BY <2>1, <3>1
    <3>3. Line(m)[n + 1] = piece
      BY <2>1, <2>4, <3>2
    <3> QED BY <3>1, <3>2, <3>3 DEF size
  <2>5. CASE part = "end" /\ next = "flush"
    <3>1. n = size - 1 /\ PutBefore(next, m) = size - 0
      BY <2>2, <2>5
    <3>2. n \in Nat /\ n < size /\ n + 1 = size - 0
      BY <2>1, <3>1
    <3>3. Line(m)[n + 1] = piece
      BY <2>1, <2>5, <3>2
    <3> QED BY <3>1, <3>2, <3>3 DEF size
  <2> QED BY <2>3, <2>4, <2>5
<1>6. piece \in PiecesOf(calls) /\ piece.id = m.id
  BY <1>2, <1>4 DEF MessagesOf, PiecesOf
<1>7. /\ m.alone => \A u \in Thread : Busy(u) => u = t
      /\ ~m.moved => output = m.stream /\ Standing(Sent(output), m, n)
  BY <1>0, <1>1, <1>3 DEF UnderWay
<1> HIDE DEF n, piece
<1>8. /\ buffered' \in [Stream -> Seq(PiecesOf(calls))]
      /\ written'[output] \o buffered'[output] = Append(Sent(output), piece)
  BY <1>0, <1>1, <1>6, SentGrows
<1>9. UNCHANGED <<minLevel, output, timestamps, msg, written, finished, calls>>
  BY <1>1 DEF settings
<1>10. Types'
  BY <1>0, <1>3, <1>8, <1>9 DEF Types
<1>11. Distinct'
  BY <1>0, <1>3, <1>9 DEF Distinct
<1>12. UnderWay(t)'
  <2>1. Sent(output) \in Seq(PiecesOf(calls))
    BY <1>0, <1>4, OfOneStream
  <2>2. Standing(Sent(output), m, n) => Standing(Append(Sent(output), piece), m, n + 1)
    BY <1>4, <1>5, <2>1, NextPiece
  <2>3. Sent(output)' = Append(Sent(output), piece)
    BY <1>8, <1>9 DEF Sent
  <2> QED BY <2>2, <2>3, <1>2, <1>3, <1>5, <1>7, <1>9 DEF UnderWay
<1>13. /\ \A u \in Thread : u # t => UnderWay(u)'
       /\ \A w \in finished' : Done(w)'
  BY <1>1, <1>3, <1>6, <1>9, PieceKeepsOthers
<1> QED BY <1>10, <1>11, <1>12, <1>13 DEF IInv

\* fflush(), and the return.
LEMMA FlushKeeps ==
  ASSUME IInv, NEW t \in Thread, Flush(t)
  PROVE  IInv'
<1>m. PICK m : m = msg[t]
  OBVIOUS
<1>0. Types /\ Distinct /\ (\A u \in Thread : UnderWay(u)) /\ (\A w \in finished : Done(w))
  BY DEF IInv
<1>1. /\ pc[t] = "flush" /\ pc' = [pc EXCEPT ![t] = "idle"]
      /\ written' = [written EXCEPT ![output] = Sent(output)]
      /\ buffered' = [buffered EXCEPT ![output] = << >>]
      /\ finished' = finished \cup {m}
      /\ msg' = [msg EXCEPT ![t] = None]
      /\ UNCHANGED <<minLevel, output, timestamps, calls>>
  BY <1>m DEF Flush, settings, Sent
<1>2. /\ pc' \in [Thread -> Parts \cup {"idle", "flush"}]
      /\ Busy(t) /\ ~Busy(t)' /\ msg'[t] = None
      /\ \A u \in Thread : u # t => /\ pc'[u] = pc[u] /\ msg'[u] = msg[u]
                                    /\ Busy(u)' <=> Busy(u)
  BY <1>0, <1>1 DEF Types, Busy
<1>3. calls \in Nat /\ m \in MessagesOf(calls) /\ output \in Stream
  BY <1>m, <1>0, <1>2, OfOneThread DEF Types
<1>4. /\ Sent(output) \in Seq(PiecesOf(calls))
      /\ written[output] \in Seq(PiecesOf(calls)) /\ buffered[output] \in Seq(PiecesOf(calls))
  BY <1>0, <1>3, OfOneStream
<1>5. /\ written' \in [Stream -> Seq(PiecesOf(calls))]
      /\ buffered' \in [Stream -> Seq(PiecesOf(calls))]
      /\ written'[output] = Sent(output) /\ buffered'[output] = << >>
      /\ \A s \in Stream : s # output => written'[s] = written[s] /\ buffered'[s] = buffered[s]
  <2>1. << >> \in Seq(PiecesOf(calls))
    OBVIOUS
  <2> QED BY <2>1, <1>0, <1>1, <1>3, <1>4 DEF Types
<1>6. Sent(output)' = Sent(output)
  <2>1. written'[output] \o buffered'[output] = Sent(output)
    BY <1>4, <1>5
  <2> QED BY <2>1, <1>1 DEF Sent
<1>7. Types'
  <2>1. msg' \in [Thread -> MessagesOf(calls) \cup {None}]
    BY <1>0, <1>1 DEF Types
  <2>2. \A u \in Thread : (msg'[u] = None) <=> ~Busy(u)'
    BY <1>0, <1>2 DEF Types
  <2>3. finished' \subseteq MessagesOf(calls)
    BY <1>0, <1>1, <1>3 DEF Types
  <2> QED BY <2>1, <2>2, <2>3, <1>0, <1>1, <1>2, <1>5 DEF Types
<1>8. Distinct'
  <2>1. \A u \in Thread : Busy(u)' => u # t /\ Busy(u) /\ msg'[u] = msg[u]
    BY <1>2
  <2>2. \A u \in Thread : Busy(u) /\ u # t => msg[u].id # m.id
    BY <1>m, <1>0, <1>2 DEF Distinct
  <2>3. \A u, w \in Thread : Busy(u)' /\ Busy(w)' /\ msg'[u].id = msg'[w].id => u = w
    BY <2>1, <1>0 DEF Distinct
  <2>4. ASSUME NEW u \in Thread, Busy(u)', NEW w \in finished'
        PROVE  w.id # msg'[u].id
    BY <2>1, <2>2, <2>4, <1>0, <1>1 DEF Distinct
  <2> QED BY <2>3, <2>4 DEF Distinct
<1>9. ASSUME NEW u \in Thread PROVE UnderWay(u)'
  <2>1. CASE u = t
    BY <2>1, <1>2 DEF UnderWay
  <2>2. CASE u # t
    <3>1. \A w \in Thread : Busy(w)' => Busy(w)
      BY <1>2
    <3>2. /\ pc'[u] = pc[u] /\ msg'[u] = msg[u] /\ (Busy(u)' <=> Busy(u)) /\ output' = output
      BY <2>2, <1>1, <1>2
    <3> QED BY <3>1, <3>2, <1>0, <1>6 DEF UnderWay
  <2> QED BY <2>1, <2>2
<1>10. ASSUME NEW w \in finished PROVE Done(w)'
  <2> SUFFICES ASSUME ~w.moved PROVE Done(w)'
    BY DEF Done
  <2>1. /\ HasPieces(written[w.stream], w, Len(Line(w)))
        /\ \A i \in DOMAIN buffered[w.stream] : buffered[w.stream][i].id # w.id
        /\ w.alone => Inside(written[w.stream], w)
    BY <1>0 DEF Done
  <2>2. w \in MessagesOf(calls) /\ w.stream \in Stream
    BY <1>0 DEF Types, MessagesOf
  <2>3. CASE w.stream # output
    BY <2>1, <2>2, <2>3, <1>5 DEF Done
  <2>4. CASE w.stream = output
    <3>1. /\ HasPieces(Sent(output), w, Len(Line(w)))
          /\ w.alone => Inside(Sent(output), w)
      BY <2>1, <2>2, <2>4, <1>3, <1>4, OtherPieces DEF Sent
    <3>2. DOMAIN << >> = {}
      OBVIOUS
    <3> QED BY <3>1, <3>2, <2>4, <1>5 DEF Done
  <2> QED BY <2>3, <2>4
<1>11. Done(m)'
  <2> SUFFICES ASSUME ~m.moved PROVE Done(m)'
    BY DEF Done
  <2>1. output = m.stream /\ Standing(Sent(output), m, PutBefore("flush", m))
    BY <1>m, <1>0, <1>1, <1>2 DEF UnderWay
  <2>2. PutBefore("flush", m) = Len(Line(m))
    <3>1. Len(Line(m)) \in {3, 4}
      BY <1>3, LineFacts
    <3> QED BY <3>1 DEF PutBefore
  <2>3. /\ HasPieces(Sent(output), m, Len(Line(m)))
        /\ m.alone => Inside(Sent(output), m)
    BY <2>1, <2>2, <1>3, <1>4, CompleteLine
  <2>4. DOMAIN << >> = {}
    OBVIOUS
  <2> QED BY <2>1, <2>3, <2>4, <1>5 DEF Done
<1> QED BY <1>1, <1>7, <1>8, <1>9, <1>10, <1>11 DEF IInv

\* The setters of the level and of the time stamps leave the lines alone.
LEMMA SettersKeep ==
  ASSUME IInv,
         \/ \E level \in Level : SetLevel(level)
         \/ \E enable \in BOOLEAN : EnableTimestamps(enable)
  PROVE  IInv'
<1>1. /\ UNCHANGED <<output, pc, msg, buffered, written, finished, calls>>
      /\ minLevel' \in Level \cup {WARN} /\ timestamps' \in BOOLEAN
  BY DEF IInv, Types, SetLevel, EnableTimestamps, Set
<1>2. Types' /\ Distinct'
  BY <1>1 DEF IInv, Types, Distinct, Busy
<1>3. \A t \in Thread : UnderWay(t)'
  BY <1>1 DEF IInv, UnderWay, Busy, Sent
<1>4. \A m \in finished' : Done(m)'
  BY <1>1 DEF IInv, Done
<1> QED BY <1>2, <1>3, <1>4 DEF IInv

\* setOutput(): the calls under way are from then on those that moved.
LEMMA SetOutputKeeps ==
  ASSUME IInv, NEW s \in Stream, SetOutput(s)
  PROVE  IInv'
<1>0. Types /\ Distinct /\ (\A u \in Thread : UnderWay(u)) /\ (\A w \in finished : Done(w))
  BY DEF IInv
<1>1. /\ output' = s
      /\ msg' = [t \in Thread |-> IF Busy(t) THEN [msg[t] EXCEPT !.moved = TRUE] ELSE msg[t]]
      /\ UNCHANGED <<minLevel, timestamps, pc, buffered, written, finished, calls>>
  BY DEF SetOutput, Set
<1>2. ASSUME NEW u \in Thread, Busy(u)
      PROVE  /\ msg'[u] \in MessagesOf(calls)
             /\ msg'[u].id = msg[u].id /\ msg'[u].stamped = msg[u].stamped
             /\ msg'[u].alone = msg[u].alone /\ msg'[u].moved
  <2>1. msg[u] \in MessagesOf(calls) /\ msg'[u] = [msg[u] EXCEPT !.moved = TRUE]
    BY <1>0, <1>1, <1>2, OfOneThread
  <2> QED BY <2>1 DEF MessagesOf
<1>3. \A u \in Thread : /\ Busy(u)' <=> Busy(u)
                        /\ ~Busy(u) => msg'[u] = msg[u]
  BY <1>1 DEF Busy
<1>4. calls \in Nat
  BY <1>0, LoggerAssumption DEF Types
<1>5. Types'
  <2>1. msg' \in [Thread -> MessagesOf(calls) \cup {None}]
    <3>1. ASSUME NEW u \in Thread PROVE msg'[u] \in MessagesOf(calls) \cup {None}
      BY <1>0, <1>2, <1>3 DEF Types
    <3>2. msg' = [u \in Thread |-> msg'[u]]
      BY <1>1
    <3> QED BY <3>1, <3>2
  <2>2. \A u \in Thread : (msg'[u] = None) <=> ~Busy(u)'
    BY <1>0, <1>2, <1>3, <1>4, NoneIsNoMessage DEF Types
  <2> QED BY <2>1, <2>2, <1>0, <1>1 DEF Types
<1>6. Distinct'
  <2>1. \A u \in Thread : Busy(u)' => Busy(u) /\ msg'[u].id = msg[u].id
    BY <1>2, <1>3
  <2>2. finished' = finished
    BY <1>1
  <2>3. \A u, w \in Thread : Busy(u)' /\ Busy(w)' /\ msg'[u].id = msg'[w].id => u = w
    BY <2>1, <1>0 DEF Distinct
  <2>4. \A u \in Thread : Busy(u)' => \A m \in finished' : m.id # msg'[u].id
    BY <2>1, <2>2, <1>0 DEF Distinct
  <2> QED BY <2>3, <2>4 DEF Distinct
<1>7. \A u \in Thread : UnderWay(u)'
  BY <1>0, <1>1, <1>2, <1>3 DEF UnderWay
<1>8. \A w \in finished' : Done(w)'
  BY <1>0, <1>1 DEF Done
<1> QED BY <1>5, <1>6, <1>7, <1>8 DEF IInv

\* The invariant holds.
THEOREM Invariance == Spec => []IInv
<1>1. IInv /\ [Next]_vars => IInv'
  <2> SUFFICES ASSUME IInv, [Next]_vars PROVE IInv'
    OBVIOUS
  <2>1. ASSUME NEW t \in Thread, Step(t) PROVE IInv'
    BY <2>1, StampKeeps, PieceKeeps, FlushKeeps DEF Step
  <2>2. ASSUME NEW t \in Thread, NEW level \in Level, Log(t, level) PROVE IInv'
    BY <2>2, LogKeeps
  <2>3. ASSUME NEW s \in Stream, SetOutput(s) PROVE IInv'
    BY <2>3, SetOutputKeeps
  <2>4. CASE \/ \E level \in Level : SetLevel(level)
             \/ \E enable \in BOOLEAN : EnableTimestamps(enable)
    BY <2>4, SettersKeep
  <2>5. CASE UNCHANGED vars
    BY <2>5 DEF vars, IInv, Types, Distinct, UnderWay, Done, Busy, Sent
  <2> QED BY <2>1, <2>2, <2>3, <2>4, <2>5 DEF Next
<1> QED BY <1>1, InitEstablishes, PTL DEF Spec

\* logger.cpp:48-91.  For any number of threads, streams, calls and setter calls:
\* when log() has returned, every piece of its line has left the process, in order
\* and once, unless setOutput() was called meanwhile.
THEOREM NothingStaysBehind == Spec => []ReturnedIsFlushed
<1>1. IInv => ReturnedIsFlushed
  BY DEF IInv, Done, ReturnedIsFlushed
<1> QED BY <1>1, Invariance, PTL

\* A line that lies in a stream in one piece is a subsequence of it.
LEMMA InsideIsSubSeq ==
  ASSUME NEW c \in Nat, NEW P \in Seq(PiecesOf(c)), NEW m \in MessagesOf(c), Inside(P, m)
  PROVE  \E i \in DOMAIN P : SubSeq(P, i, i + Len(Line(m)) - 1) = Line(m)
<1> DEFINE n == Len(Line(m))
<1>1. n \in Nat /\ n > 0 /\ Line(m) \in Seq(PiecesOf(c))
  <2>1. n = (IF m.stamped THEN 4 ELSE 3) /\ Line(m) \in Seq(PiecesOf(c))
    BY LineFacts
  <2> HIDE DEF n
  <2> QED BY <2>1
<1>2. PICK i \in Nat : i + n <= Len(P) /\ \A k \in 1..n : P[i + k] = Line(m)[k]
  BY DEF Inside
<1> DEFINE l == SubSeq(P, i + 1, i + 1 + n - 1)
<1> HIDE DEF n
<1>3. i + 1 \in DOMAIN P /\ DOMAIN P = 1..Len(P)
  BY <1>1, <1>2
<1>4. \A j \in (i + 1)..(i + 1 + n - 1) : P[j] \in PiecesOf(c)
  BY <1>1, <1>2, <1>3
<1>5. /\ l \in Seq(PiecesOf(c)) /\ Len(l) = n
      /\ \A k \in 1..n : l[k] = P[i + k]
  <2>1. i + 1 \in Int /\ i + 1 + n - 1 \in Int /\ (i + 1 + n - 1) - (i + 1) + 1 = n
        /\ i + 1 <= i + 1 + n - 1
    BY <1>1
  <2>2. /\ l \in Seq(PiecesOf(c)) /\ Len(l) = n
        /\ \A k \in 1..n : l[k] = P[(i + 1) + k - 1]
    BY <2>1, <1>4, SubSeqProperties
  <2>3. \A k \in 1..n : (i + 1) + k - 1 = i + k
    BY <1>1
  <2> QED BY <2>2, <2>3
<1> HIDE DEF l
<1>6. l = Line(m)
  <2>1. Len(Line(m)) = n
    BY DEF n
  <2>2. \A k \in 1..n : l[k] = Line(m)[k]
    BY <1>2, <1>5
  <2> QED BY <2>1, <2>2, <1>1, <1>5
<1> QED BY <1>3, <1>6 DEF l, n

\* logger.cpp:48-91.  The line of a call that overlapped no other one is whole,
\* for any number of threads, streams and calls.
THEOREM LonelyLinesAreWhole == Spec => []AloneIsWhole
<1>1. IInv => AloneIsWhole
  <2> SUFFICES ASSUME IInv, NEW m \in finished, m.alone, ~m.moved
               PROVE  \E i \in DOMAIN written[m.stream] :
                        SubSeq(written[m.stream], i, i + Len(Line(m)) - 1) = Line(m)
    BY DEF AloneIsWhole
  <2>1. /\ calls \in Nat /\ m \in MessagesOf(calls) /\ m.stream \in Stream
        /\ written[m.stream] \in Seq(PiecesOf(calls))
    BY LoggerAssumption DEF IInv, Types, MessagesOf
  <2>2. Inside(written[m.stream], m)
    BY DEF IInv, Done
  <2> QED BY <2>1, <2>2, InsideIsSubSeq
<1> QED BY <1>1, Invariance, PTL

\* logger.cpp.  The fields and the lines keep their types.
THEOREM TypeCorrect == Spec => []TypeOK
<1>1. IInv => TypeOK
  <2> SUFFICES ASSUME IInv PROVE TypeOK
    OBVIOUS
  <2>1. ASSUME NEW s \in Stream, NEW i \in DOMAIN buffered[s]
        PROVE  buffered[s][i] \in [id : 1..MaxCalls, part : Parts]
    <3>1. buffered[s] \in Seq(PiecesOf(calls))
      BY DEF IInv, Types
    <3>2. buffered[s][i] \in PiecesOf(calls)
      BY <3>1
    <3>3. 1..calls \subseteq 1..MaxCalls
      BY LoggerAssumption DEF IInv, Types
    <3> QED BY <3>2, <3>3 DEF PiecesOf
  <2> QED BY <2>1 DEF IInv, Types, TypeOK
<1> QED BY <1>1, Invariance, PTL
=============================================================================
