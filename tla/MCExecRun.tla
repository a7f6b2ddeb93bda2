------------------------------ MODULE MCExecRun ------------------------------
(***************************************************************************)
(* Finite instances of ExecRun.  Command lines: a template as the program, *)
(* in an assignment, two in one argument, one that needs a file, nested    *)
(* braces, braces that do not match, no program.  Vaults: values that are  *)
(* plain, hold an equals sign, a template, or the name of another secret;  *)
(* two secrets of one name.                                                *)
(***************************************************************************)
EXTENDS ExecRun

A == ValueToken(<<"A">>)
B == ValueToken(<<"B">>)
FileA == FileToken(<<"A">>)
FileB == FileToken(<<"B">>)
Prog == <<"x">>

SomeCommands ==
    { <<>>,
      <<A, Prog>>,
      << <<"B", Equals>> \o A, Prog, A \o B >>,
      << Prog, B \o FileA, A \o <<Equals>> >>,
      << Prog, <<Open>> \o B \o <<Close>>, A \o B >>,
      << Prog, FileA \o FileB >>,
      << <<"A", Equals>> \o FileB, <<"B", Equals>> >>,
      << Prog, <<Open, "A">>, <<Close>> \o B, <<Open, Close, Open, AsFile, Close>> >> }

Entry(n, v, t) == [name |-> <<n>>, value |-> v, tags |-> t]

SomeVaults ==
    { <<>>,
      << Entry("A", <<"x">>, {"t"}), Entry("B", <<"x", Equals, "x">>, {}) >>,
      << Entry("A", B, {"t"}), Entry("B", <<"x">>, {"t", "u"}) >>,
      << Entry("B", <<"A">>, {"u"}), Entry("A", <<"A", Equals, "x">>, {"u"}) >>,
      << Entry("A", <<"x">>, {"t"}), Entry("A", <<>>, {"u"}), Entry("B", <<"B">>, {"t"}) >> }

SomeOuter == { << <<"A">>, <<"B">> >> }
=============================================================================
