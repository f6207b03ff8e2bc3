------------------------------- MODULE Logger -------------------------------
(***************************************************************************)
(* The singleton of src/logger.cpp, used by several threads.  log() writes *)
(* a line in pieces, one stdio call each, and reads output_ again for each *)
(* of them; the settings may change at any moment.  stdio locks the stream *)
(* for one call, so pieces are whole; no lock of the logger's own joins    *)
(* the pieces of a line.  A plain field read while another thread stores   *)
(* it gives the old value or the new one.                                  *)
(***************************************************************************)
EXTENDS Integers, Sequences

CONSTANTS
  Thread,
  Level,        \* the levels that are logged and set
  Stream,       \* the FILE objects output_ may point to
  Stderr,       \* the one it points to first
  None,
  MaxCalls,     \* bound on the log() calls that pass the filter
  MaxSets       \* bound on the calls of the three setters

ASSUME LoggerAssumption ==
  /\ Level \subseteq 0..4
  /\ Stderr \in Stream
  /\ MaxCalls \in Nat /\ MaxSets \in Nat
  /\ None \notin [id : Nat, stamped : BOOLEAN, alone : BOOLEAN, stream : Stream, moved : BOOLEAN]

WARN == 2

VARIABLES
  minLevel, output, timestamps,    \* the logger's fields
  pc,          \* the next step of each thread's log() call
  msg,         \* history: the message of that call
  buffered,    \* what stdio holds back of each stream
  written,     \* what has left for the file
  finished,    \* history: the messages whose call has returned
  calls, sets

vars == <<minLevel, output, timestamps, pc, msg, buffered, written, finished, calls, sets>>
settings == <<minLevel, output, timestamps>>

Init ==
  /\ minLevel = WARN /\ output = Stderr /\ timestamps = TRUE
  /\ pc = [t \in Thread |-> "idle"]
  /\ msg = [t \in Thread |-> None]
  /\ buffered = [s \in Stream |-> << >>]
  /\ written = [s \in Stream |-> << >>]
  /\ finished = {}
  /\ calls = 0 /\ sets = 0

Busy(t) == pc[t] # "idle"

\* The filter; a message below the level returns at once.
Passes(level) == level >= minLevel

\* log() begins.  A message is alone when no other call overlaps its own.
Log(t, level) ==
  LET alone == \A u \in Thread : ~Busy(u)
  IN /\ ~Busy(t) /\ Passes(level) /\ calls < MaxCalls
     /\ calls' = calls + 1
     /\ pc' = [pc EXCEPT ![t] = "stamp"]
     /\ msg' = [u \in Thread |->
                  IF u = t THEN [id |-> calls + 1, stamped |-> FALSE,
                                 alone |-> alone, stream |-> output, moved |-> FALSE]
                  ELSE IF Busy(u) THEN [msg[u] EXCEPT !.alone = FALSE] ELSE msg[u]]
     /\ UNCHANGED <<settings, buffered, written, finished, sets>>

\* Mutant of Put: output_ is not used.
PutToStderr(t, part) ==
  buffered' = [buffered EXCEPT ![Stderr] = Append(@, [id |-> msg[t].id, part |-> part])]

\* Thread t writes one piece of its line to whatever output_ points to now.
Put(t, part) ==
  buffered' = [buffered EXCEPT ![output] = Append(@, [id |-> msg[t].id, part |-> part])]

Stamp(t) ==
  /\ pc[t] = "stamp"
  /\ pc' = [pc EXCEPT ![t] = "prefix"]
  /\ IF timestamps
     THEN /\ Put(t, "stamp")
          /\ msg' = [msg EXCEPT ![t].stamped = TRUE]
     ELSE UNCHANGED <<buffered, msg>>
  /\ UNCHANGED <<settings, written, finished, calls, sets>>

\* The level and the source, the message, the end of the line.
Piece(t, part, next) ==
  /\ pc[t] = part
  /\ pc' = [pc EXCEPT ![t] = next]
  /\ Put(t, part)
  /\ UNCHANGED <<settings, msg, written, finished, calls, sets>>

\* Mutant of Flush: fflush() is left out.
FlushNothing(t) ==
  /\ pc[t] = "flush"
  /\ finished' = finished \cup {msg[t]}
  /\ pc' = [pc EXCEPT ![t] = "idle"]
  /\ msg' = [msg EXCEPT ![t] = None]
  /\ UNCHANGED <<settings, buffered, written, calls, sets>>

\* fflush() of the current stream, with what other threads left in it.
Flush(t) ==
  /\ pc[t] = "flush"
  /\ written' = [written EXCEPT ![output] = @ \o buffered[output]]
  /\ buffered' = [buffered EXCEPT ![output] = << >>]
  /\ finished' = finished \cup {msg[t]}
  /\ pc' = [pc EXCEPT ![t] = "idle"]
  /\ msg' = [msg EXCEPT ![t] = None]
  /\ UNCHANGED <<settings, calls, sets>>

\* The setters, called by any thread, also while others log.
Set ==
  /\ sets < MaxSets
  /\ sets' = sets + 1
  /\ UNCHANGED <<pc, buffered, written, finished, calls>>

SetLevel(level) ==
  /\ Set
  /\ minLevel' = level
  /\ UNCHANGED <<output, timestamps, msg>>

\* Mutant of SetOutput: the pointer is cleared before it is read.
SetOutputCleared(s) ==
  /\ Set
  /\ output' = None
  /\ msg' = [t \in Thread |-> IF Busy(t) THEN [msg[t] EXCEPT !.moved = TRUE] ELSE msg[t]]
  /\ UNCHANGED <<minLevel, timestamps>>

SetOutput(s) ==
  /\ Set
  /\ output' = s
  /\ msg' = [t \in Thread |-> IF Busy(t) THEN [msg[t] EXCEPT !.moved = TRUE] ELSE msg[t]]
  /\ UNCHANGED <<minLevel, timestamps>>

EnableTimestamps(enable) ==
  /\ Set
  /\ timestamps' = enable
  /\ UNCHANGED <<minLevel, output, msg>>

Step(t) == \/ Stamp(t)
           \/ Piece(t, "prefix", "text")
           \/ Piece(t, "text", "end")
           \/ Piece(t, "end", "flush")
           \/ Flush(t)

Next ==
  \/ \E t \in Thread : Step(t) \/ (\E level \in Level : Log(t, level))
  \/ \E level \in Level : SetLevel(level)
  \/ \E s \in Stream : SetOutput(s)
  \/ \E enable \in BOOLEAN : EnableTimestamps(enable)

Spec == Init /\ [][Next]_vars

-----------------------------------------------------------------------------
Parts == {"stamp", "prefix", "text", "end"}

TypeOK ==
  /\ minLevel \in Level \cup {WARN} /\ output \in Stream /\ timestamps \in BOOLEAN
  /\ pc \in [Thread -> Parts \cup {"idle", "flush"}]
  /\ \A t \in Thread : msg[t] = None <=> ~Busy(t)
  /\ \A s \in Stream : \A i \in DOMAIN buffered[s] :
       buffered[s][i] \in [id : 1..MaxCalls, part : Parts]

Line(m) ==
  [i \in 1..(IF m.stamped THEN 4 ELSE 3) |->
     [id   |-> m.id,
      part |-> IF m.stamped THEN <<"stamp", "prefix", "text", "end">>[i]
                            ELSE <<"prefix", "text", "end">>[i]]]

\* The first n pieces of m's line are in a stream, in order, each once, and no
\* others of it.
HasPieces(pieces, m, n) ==
  /\ \A k \in 1..n : \E i \in DOMAIN pieces : pieces[i] = Line(m)[k]
  /\ \A i, j \in DOMAIN pieces :
       i <= j /\ pieces[i].id = m.id /\ pieces[j].id = m.id =>
         \E k, l \in 1..n :
           pieces[i] = Line(m)[k] /\ pieces[j] = Line(m)[l] /\ (i < j => k < l)

\* logger.cpp:48-91.  When log() has returned, every piece of its line has left
\* the process, in order and once, however the other threads' calls interleaved,
\* unless setOutput() was called meanwhile.
ReturnedIsFlushed ==
  \A m \in finished : ~m.moved => HasPieces(written[m.stream], m, Len(Line(m)))

\* logger.cpp:48-91.  The line of a call that overlapped no other call is whole:
\* no piece of another line lies inside it.
AloneIsWhole ==
  \A m \in finished : m.alone /\ ~m.moved =>
    \E i \in DOMAIN written[m.stream] :
      SubSeq(written[m.stream], i, i + Len(Line(m)) - 1) = Line(m)

\* logger.h:37 says: "Thread-safe."  Then the lines of a stream are those of
\* single messages: what follows a piece is of the same message up to its end.
LinesAreWhole ==
  \A s \in Stream : \A i \in 1..(Len(written[s]) - 1) :
    written[s][i].part # "end" => written[s][i + 1].id = written[s][i].id
=============================================================================
