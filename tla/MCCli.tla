-------------------------------- MODULE MCCli --------------------------------
(***************************************************************************)
(* A document that is encrypted into a box, a memo that is encrypted with  *)
(* a time lock into the same box, runs that decrypt from there, the same   *)
(* document encrypted over an old file, and command lines that ask for     *)
(* what cannot be done.                                                    *)
(***************************************************************************)
EXTENDS Cli

ONE == <<"byte", 1>>

Doc == <<"doc">>
DocEnc == <<"doc", "enc">>
Memo == <<"memo">>
Box == <<"box">>

\* doc.enc is left from something else.
MCFiles == [p \in {Doc, Memo, DocEnc} |-> IF p = Doc THEN <<{ONE}, {}>> ELSE <<{}>>]
MCOther == {Box, <<"box", "dec">>, <<"doc", "dec">>, <<"memo", "enc">>}
MCSalt == [r \in Run |-> {{<<"salt", r>>}}]
MCPassword == {<<"right">>, <<"wrong">>}

\* "1e30" is 1 to parseInt, and too many iterations for a uint64_t; "999" has no
\* date, "soon" is no number.
MCDurations ==
  [text \in {<<"1">>, <<"1e30">>, <<"999">>} |->
     CASE text = <<"1">>    -> [float |-> 2, int |-> 1]
       [] text = <<"1e30">> -> [float |-> 2000, int |-> 1]
       [] text = <<"999">>  -> [float |-> 1998, int |-> 999]]

Arg(text) == [dashes |-> 0, text |-> text]
Encrypt_(rest) == <<Word(0, "encrypt")>> \o rest
Decrypt_(rest) == <<Word(0, "decrypt")>> \o rest
Right == <<Word(1, "p"), Arg(<<"right">>)>>

MCInvocation ==
  {Encrypt_(<<Arg(Doc), Word(1, "o"), Arg(Box)>> \o Right),
   Encrypt_(<<Arg(Memo), Word(2, "output"), Arg(Box), Word(1, "t"), Arg(<<"1e30">>)>> \o Right),
   Decrypt_(<<Arg(Box)>>),
   Encrypt_(<<Arg(Doc)>> \o Right),
   Decrypt_(<<Arg(DocEnc)>> \o Right)}

\* What cannot be done, or changes nothing.
MCOddities ==
  {Encrypt_(Right \o <<Arg(Memo), Word(1, "t"), Arg(<<"soon">>)>>),
   Encrypt_(<<Arg(Memo), Word(1, "p"), Word(1, "t"), Arg(<<"999">>)>>),
   Encrypt_(<<Word(1, "v"), Arg(Doc)>> \o Right),
   Decrypt_(<<Arg(Box), Word(1, "p"), Word(1, "o")>>),
   <<Word(0, "info"), Arg(Box)>>,
   <<Word(0, "hash"), Arg(Doc)>>,
   <<Word(2, "help")>>, <<Word(0, "benchmark")>>, <<Word(0, "encode"), Arg(Doc)>>}

MCAll == MCInvocation \cup MCOddities

Runs == Permutations(Run)
=============================================================================
