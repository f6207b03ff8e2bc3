--------------------------------- MODULE Cli ---------------------------------
(***************************************************************************)
(* Runs of bin/cli.js that share a file system.  A run parses its command  *)
(* line, checks that its input exists, may wait for a password, reads the  *)
(* input, works on it and writes its output, which truncates the file      *)
(* first.  Between any two of these steps other runs may work on the same  *)
(* files, the clock may move and the run may be killed; a write may fail   *)
(* half way.                                                               *)
(***************************************************************************)
EXTENDS EncryptionEngine, SequencesExt, FiniteSetsExt

CONSTANTS
  Run,            \* processes, each one run of the command
  Invocation,     \* the command lines: sequences of [dashes, text]
  True,           \* the value true of an option without a value
  Durations,      \* the texts that parseFloat and parseInt read as numbers
  LastDate,       \* the last second a Date can hold
  KDF_ITERATIONS, \* 100000 in the code
  Password,       \* the texts typed at the prompt
  Salt,           \* what randomBytes() may return to each run
  IV,
  Files,          \* the files at the beginning: a function from paths
  OtherPaths,     \* the other paths that may come to exist
  Tear,           \* where a write may stop
  MaxTime         \* bound on the clock

Path == DOMAIN Files \cup OtherPaths

ASSUME CliAssumption ==
  /\ Tear \subseteq Nat
  /\ {MaxTime, LastDate} \cup IV \subseteq Nat /\ KDF_ITERATIONS \in Nat \ {0}
  /\ \A argv \in Invocation : \A i \in DOMAIN argv : argv[i].dashes \in 0..2
  /\ \A p \in Path : p \in Seq({p[i] : i \in DOMAIN p})
  /\ \A p \in DOMAIN Files : Files[p] \in Seq({Files[p][i] : i \in DOMAIN Files[p]})
  /\ \A text \in DOMAIN Durations : /\ Durations[text].float \in Int \cup {NaN}
                                    /\ Durations[text].int \in Nat \cup {NaN}
  /\ LastDate < U64 \div 2
  /\ \A moment \in 0..LastDate : {moment} # None
  /\ None \notin {"ok", "error", "silent", "killed", "encrypt", "decrypt"}

VARIABLES
  fs,        \* the file system: the cells of each path, or None
  job,       \* each run
  clock,     \* Date.now(), in seconds
  writers,   \* history: the runs that opened each path for writing
  made       \* history: the encryptions computed

vars == <<fs, job, clock, writers, made>>

-----------------------------------------------------------------------------
(* parseArgs.  A text is a sequence of names, the empty one the empty      *)
(* string; dashes counts the dashes before it.                             *)

\* An option takes what follows it, if that does not start with a dash.
TakenAsValue(argv, i) == i > 1 /\ argv[i].dashes = 0 /\ argv[i - 1].dashes > 0

\* args.positional[0].
FirstPositional(argv) ==
  LET at == {i \in DOMAIN argv : argv[i].dashes = 0 /\ ~TakenAsValue(argv, i)}
  IN IF at = {} THEN None ELSE argv[Min(at)].text

\* args.options: the last of several values, and no difference between one
\* dash and two.
Option(argv, key) ==
  LET at == {i \in DOMAIN argv : argv[i].dashes > 0 /\ argv[i].text = <<key>>}
  IN IF at = {} THEN None
     ELSE IF Max(at) < Len(argv) /\ TakenAsValue(argv, Max(at) + 1)
     THEN argv[Max(at) + 1].text ELSE True

\* a || b: the empty string and undefined are falsy.
OrElse(a, b) == IF a \notin {None, << >>} THEN a ELSE b

Args(argv) == SubSeq(argv, 2, Len(argv))

PasswordOf(args) == OrElse(Option(args, "password"), Option(args, "p"))
OutputOf(args) == OrElse(Option(args, "output"), Option(args, "o"))
TimeLockOf(args) == OrElse(Option(args, "time-lock"), Option(args, "t"))

\* timeLockSeconds is truthy.
AsksForLock(args) == TimeLockOf(args) \notin {None, << >>}

\* "1e3" is a thousand to the one and 1 to the other.
ParseFloat(text) == IF text \in DOMAIN Durations THEN Durations[text].float ELSE NaN
ParseInt(text) == IF text \in DOMAIN Durations THEN Durations[text].int ELSE NaN

\* Mutant of HasDate: the moment is not turned into a Date.
HasDateAlways(secs) == TRUE

\* toISOString() throws for a moment that no Date can hold.
HasDate(secs) == secs # NaN /\ secs <= LastDate

Commands == {"encrypt", "decrypt", "hash", "info", "benchmark"}
Word(dashes, name) == [dashes |-> dashes, text |-> <<name>>]

\* help and version, which print and end.
OnlyPrints(argv) ==
  argv = << >> \/ argv[1] \in {Word(0, "help"), Word(2, "help"), Word(1, "h"),
                               Word(2, "version"), Word(1, "v")}

CommandOf(argv) ==
  IF ~OnlyPrints(argv) /\ \E name \in Commands : argv[1] = Word(0, name)
  THEN argv[1].text[1] ELSE None

-----------------------------------------------------------------------------
\* The salt and the iv in front of the payload.
OUTER == 2

\* deriveKey: the digest of the password's bytes and the salt, hashed again and
\* again.
KeyOf(password, salt) ==
  HashChain(<<{<<"text", password>>}, salt>>, KDF_ITERATIONS)

EncName(file) == Append(file, "enc")

\* Mutant of DecName: .dec takes the place of .enc, if that is there.
DecNameReplaced(file) == IF Last(file) = "enc" THEN Append(Front(file), "dec") ELSE file

DecName(file) == Append(IF Last(file) = "enc" THEN Front(file) ELSE file, "dec")

\* The -o option or the default.
OutOf(args, cmd) ==
  OrElse(OutputOf(args), IF cmd = "encrypt" THEN EncName(FirstPositional(args))
                         ELSE DecName(FirstPositional(args)))

NewJob == [pc |-> "new", argv |-> << >>, cmd |-> None, file |-> None, password |-> None,
           data |-> None, buf |-> None, pos |-> 0, outcome |-> None,
           whole |-> FALSE, now |-> 0]

Init ==
  /\ fs = [p \in Path |-> IF p \in DOMAIN Files THEN Files[p] ELSE None]
  /\ job = [r \in Run |-> NewJob]
  /\ clock = 0
  /\ writers = [p \in Path |-> {}]
  /\ made = {}

\* Mutant of End: error() prints and goes on.
EndGoesOn(r, outcome) == job' = [job EXCEPT ![r].outcome = outcome]

\* The run ends: "ok" and "silent" are exit code 0, "error" is exit code 1.
End(r, outcome) == job' = [job EXCEPT ![r].pc = "ended", ![r].outcome = outcome]

\* existsSync(), of a name that is not empty.
Exists(file) == file \in Path /\ fs[file] # None

Running(r) == job[r].pc \notin {"new", "ended"}

\* Where a run gets without waiting for anything.
First(argv) ==
  LET cmd   == CommandOf(argv)
      file  == FirstPositional(Args(argv))
      waits == cmd \in {"encrypt", "decrypt"} /\ PasswordOf(Args(argv)) \in {None, << >>}
  IN IF OnlyPrints(argv) \/ cmd = "benchmark" THEN "ok"
     ELSE IF cmd = None \/ ~Exists(file) THEN "error"
     ELSE IF waits THEN "prompt" ELSE "read"

\* The command line is read and the input must exist.
Launch(r, argv) ==
  /\ job[r].pc = "new"
  /\ LET place == First(argv)
         ends  == place \in {"ok", "error"}
     IN job' = [job EXCEPT ![r] =
                  [NewJob EXCEPT !.pc = IF ends THEN "ended" ELSE place,
                                 !.outcome = IF ends THEN place ELSE None,
                                 !.argv = argv, !.cmd = CommandOf(argv),
                                 !.file = FirstPositional(Args(argv)),
                                 !.password = PasswordOf(Args(argv))]]
  /\ UNCHANGED <<fs, clock, writers, made>>

\* The prompt: a password, an empty line, or the end of the input, at which
\* the promise stays open and node ends with nothing left to do.
Prompt(r) ==
  /\ job[r].pc = "prompt"
  /\ \/ \E password \in Password :
          job' = [job EXCEPT ![r].pc = "read", ![r].password = password]
     \/ End(r, "error")
     \/ End(r, "silent")
  /\ UNCHANGED <<fs, clock, writers, made>>

\* readFileSync(): the file may be gone.  "whole" remembers that no other run
\* is, or died, in the middle of writing it.
Read(r) ==
  /\ job[r].pc = "read"
  /\ LET file == job[r].file
     IN IF ~Exists(file)
        THEN End(r, "error")
        ELSE job' = [job EXCEPT ![r].pc = "work", ![r].data = fs[file],
                                ![r].whole = writers[file] # {} /\ \A w \in writers[file] : job[w].outcome = "ok"]
  /\ UNCHANGED <<fs, clock, writers, made>>

\* Mutant of Payload: the iv in front of it is not cut off.
PayloadWithIv(data) == SubSeq(data, OUTER, Len(data))

Payload(data) == SubSeq(data, OUTER + 1, Len(data))

\* hash and info: they print, and info turns the unlock moment into a date.
Report(r) ==
  /\ job[r].pc = "work" /\ job[r].cmd \in {"hash", "info"}
  /\ LET undated == /\ job[r].cmd = "info" /\ Len(job[r].data) >= OUTER
                    /\ ~HasDate(GetUnlockTimestamp(Payload(job[r].data)))
     IN End(r, IF undated THEN "error" ELSE "ok")
  /\ UNCHANGED <<fs, clock, writers, made>>

\* Mutant of UnlockTime: the duration is not added.
UnlockTimeNow(text) == IF ParseInt(text) = NaN THEN NaN ELSE clock

UnlockTime(text) == IF ParseInt(text) = NaN THEN NaN ELSE clock + ParseInt(text)

\* deriveKey() throws for a password that is true, and the line that tells the
\* unlock moment for one that is no date.
CannotSeal(j) ==
  \/ j.password = True
  \/ AsksForLock(Args(j.argv)) /\ ~HasDate(UnlockTime(TimeLockOf(Args(j.argv))))

\* cmdEncrypt: the whole output is made in memory before the file is opened.
Seal(r) ==
  /\ job[r].pc = "work" /\ job[r].cmd = "encrypt"
  /\ IF CannotSeal(job[r])
     THEN End(r, "error") /\ UNCHANGED made
     ELSE \E salt \in Salt[r], iv \in IV :
            LET j      == job[r]
                key    == KeyOf(j.password, salt)
                locked == AsksForLock(Args(j.argv))
                text   == TimeLockOf(Args(j.argv))
            IN \E payload \in
                    IF locked
                    THEN {AddonEncryptWithTimeLock(j.data, key, iv, UnlockTime(text), iters, salt) :
                            iters \in EstimateIterations(ParseFloat(text))}
                    ELSE {Encrypt(j.data, key, iv)} :
                 /\ job' = [job EXCEPT ![r].pc = "open", ![r].now = clock,
                                       ![r].buf = <<salt, Number(iv)>> \o payload]
                 /\ made' = made \cup
                      {[run |-> r, plain |-> j.data, password |-> j.password,
                        unlock |-> IF locked THEN {clock + secs : secs \in {ParseInt(text)} \ {NaN}}
                                  ELSE None]}
  /\ UNCHANGED <<fs, clock, writers>>

\* The password opens nothing that is time-locked: it is not asked.
Answer(j) ==
  IF IsTimeLocked(Payload(j.data))
  THEN AddonDecryptTimeLocked(Payload(j.data), clock)
  ELSE AddonDecrypt(Payload(j.data), KeyOf(j.password, j.data[1]))

\* cmdDecrypt: too short, too early, refused by the engine, or decrypted.
Unseal(r) ==
  /\ job[r].pc = "work" /\ job[r].cmd = "decrypt"
  /\ IF \/ Len(job[r].data) < OUTER
        \/ clock < GetUnlockTimestamp(Payload(job[r].data))
        \/ ~IsTimeLocked(Payload(job[r].data)) /\ job[r].password = True
        \/ Answer(job[r]).code # 0
     THEN End(r, "error")
     ELSE job' = [job EXCEPT ![r].pc = "open", ![r].buf = Answer(job[r]).data,
                             ![r].now = clock]
  /\ UNCHANGED <<fs, clock, writers, made>>

Out(r) == OutOf(Args(job[r].argv), job[r].cmd)

\* writeFileSync(): the file is created or truncated, and then written.
OpenOutput(r) ==
  /\ job[r].pc = "open" /\ Out(r) \in Path
  /\ fs' = [fs EXCEPT ![Out(r)] = << >>]
  /\ writers' = [writers EXCEPT ![Out(r)] = @ \cup {r}]
  /\ job' = [job EXCEPT ![r].pc = "write", ![r].pos = 0]
  /\ UNCHANGED <<clock, made>>

\* Cells from + 1 to upto of buf laid over a file; a hole reads as zeros.
Overlay(file, buf, from, upto) ==
  [i \in 1..Max({Len(file), upto}) |->
     IF i > from /\ i <= upto THEN buf[i]
     ELSE IF i <= Len(file) THEN file[i] ELSE {}]

Put(r, upto) ==
  fs' = [fs EXCEPT ![Out(r)] = Overlay(@, job[r].buf, job[r].pos, upto)]

WriteSome(r) ==
  /\ job[r].pc = "write"
  /\ \E n \in Tear :
       /\ n > job[r].pos /\ n < Len(job[r].buf)
       /\ Put(r, n)
       /\ job' = [job EXCEPT ![r].pos = n]
  /\ UNCHANGED <<clock, writers, made>>

WriteRest(r) ==
  /\ job[r].pc = "write"
  /\ Put(r, Len(job[r].buf))
  /\ End(r, "ok")
  /\ UNCHANGED <<clock, writers, made>>

\* The file cannot be opened, its name is true, or the disk is full: an
\* exception, and what is written stays.
WriteFails(r) ==
  /\ job[r].pc \in {"open", "write"}
  /\ End(r, "error")
  /\ UNCHANGED <<fs, clock, writers, made>>

Kill(r) ==
  /\ Running(r)
  /\ End(r, "killed")
  /\ UNCHANGED <<fs, clock, writers, made>>

Tick ==
  /\ clock < MaxTime
  /\ clock' = clock + 1
  /\ UNCHANGED <<fs, job, writers, made>>

Step(r) ==
  \/ \E argv \in Invocation : Launch(r, argv)
  \/ Prompt(r) \/ Read(r) \/ Report(r) \/ Seal(r) \/ Unseal(r)
  \/ OpenOutput(r) \/ WriteSome(r) \/ WriteRest(r) \/ WriteFails(r)
  \/ Kill(r)

Next == Tick \/ \E r \in Run : Step(r)

Spec == Init /\ [][Next]_vars

-----------------------------------------------------------------------------
Outcomes == {None, "ok", "error", "silent", "killed"}

TypeOK ==
  /\ clock \in 0..MaxTime
  /\ \A r \in Run :
       /\ job[r].pc \in {"new", "prompt", "read", "work", "open", "write", "ended"}
       /\ job[r].outcome \in Outcomes
       /\ job[r].outcome # None <=> job[r].pc = "ended"
       /\ job[r].pc \in {"open", "write"} => job[r].buf # None /\ Out(r) \in Path \cup {True}

Done(r, cmd) == job[r].outcome = "ok" /\ job[r].cmd = cmd
Decrypted(r) == job[r].cmd = "decrypt" /\ job[r].buf # None

\* cli.js:187-257, encryption_engine.cpp:113-210.  Whatever was left in the
\* file, by runs killed half way, by a full disk or by several runs writing it
\* at once, a run that decrypts it writes the plaintext of an encryption that
\* really took place, whole.
NothingInvented ==
  \A r \in Run : Decrypted(r) => \E m \in made : job[r].buf = m.plain

\* cli.js:130-257.  Encrypting a file and decrypting the result gives the file
\* back, also when the second run reads while the first one writes: as long as
\* nobody else wrote either file, the plaintext is the original one.
RoundTrip ==
  \A q, r \in Run :
    /\ Done(q, "decrypt") /\ job[r].cmd = "encrypt"
    /\ writers[job[q].file] = {r} /\ writers[job[r].file] = {}
    => job[q].buf = Files[job[r].file]

\* cli.js:222-257.  A complete file written by one run opens with its password,
\* or, if it is time-locked, with any password once its time has come: decrypt
\* ends in an error only when the time has not come, the password is wrong or
\* the disk is full.
CompleteFilesOpen ==
  \A q \in Run, m \in made :
    /\ job[q].cmd = "decrypt" /\ job[q].whole
    /\ writers[job[q].file] = {m.run} /\ m.run # q
    /\ IF m.unlock = None THEN job[q].password = m.password ELSE \A at \in m.unlock : clock >= at
    /\ job[q].pc = "work"
    => Answer(job[q]).code = 0

\* cli.js:230-246, time_lock.cpp:113-124.  No run decrypts a time-locked file
\* before its time, whatever happened to the file on the way: what it writes is
\* the beginning, at least, of a plaintext whose time has come.  Not always the
\* whole: a file cut off behind the digest of a shorter plaintext opens to that.
NeverEarly ==
  \A q \in Run : Decrypted(q) /\ job[q].buf # << >> =>
    \E m \in made :
      /\ IsPrefix(job[q].buf, m.plain)
      /\ m.unlock # None => \A at \in m.unlock : job[q].now >= at

\* cli.js:145, 159-169.  A run that was asked for a time lock writes a file that is
\* locked until then, and nothing at all when the duration is no number or too
\* long for a date; without being asked it locks nothing.  Only the line that
\* prints the unlock moment throws for such a duration.
LocksAsAsked ==
  \A r \in Run : job[r].cmd = "encrypt" /\ job[r].buf # None =>
    LET text    == TimeLockOf(Args(job[r].argv))
        payload == Payload(job[r].buf)
    IN /\ IsTimeLocked(payload) <=> AsksForLock(Args(job[r].argv))
       /\ IsTimeLocked(payload) =>
            /\ ParseInt(text) # NaN
            /\ GetUnlockTimestamp(payload) = job[r].now + ParseInt(text)

\* cli.js:48 gives the usage as "securevault <command> [options] [arguments]" and
\* cli.js:62 lists "-v, --verbose" as an option that takes no value: with it or
\* without it a run works on the same file.
VerboseTakesNoValue ==
  \A r \in Run : job[r].cmd \in {"encrypt", "decrypt"} =>
    LET plain == SelectSeq(job[r].argv,
                           LAMBDA w : w \notin {Word(1, "v"), Word(2, "verbose")})
    IN job[r].file = FirstPositional(Args(plain))

\* cli.js:144, 180-184, 201-202, 240-250.  A run that is killed, or fails, after it
\* has truncated its output does not cost the user its input: unless the command line
\* names the input as the output, what the run has read is still in the file, if
\* nobody else opened it since.  That is seen when no other run ever wrote it, and when
\* the file was whole and has the one writer that it had then.
InputSurvives ==
  \A r \in Run :
    LET file   == job[r].file
        others == writers[file] \ {r}
    IN /\ job[r].buf # None
       /\ OutputOf(Args(job[r].argv)) # file
       /\ others = {} \/ (job[r].whole /\ \E w \in Run : others = {w})
       => fs[file] = job[r].data
=============================================================================
