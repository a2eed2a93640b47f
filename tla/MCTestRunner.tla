---------------------------- MODULE MCTestRunner ----------------------------
(***************************************************************************)
(* Instances of TestRunner for TLC: tests and methods are model values.    *)
(***************************************************************************)
EXTENDS TestRunner

\* The command lines that differ in how an Env is taken down, and one each
\* with --exit-on-failure and --verbose-information-on-failure.
SomeOptions ==
    {o \in OptionsType :
        /\ ~(o.useValgrind /\ o.checkExitCode)
        /\ ~(o.exitOnFailure /\ o.verboseInfo)
        /\ o.exitOnFailure => ~o.useValgrind
        /\ o.verboseInfo => ~o.useValgrind /\ ~o.checkExitCode}

\* A plain command line.
Plain ==
    {o \in OptionsType : ~o.envReuse /\ ~o.useValgrind /\ ~o.checkExitCode
                           /\ ~o.exitOnFailure /\ ~o.verboseInfo}
=============================================================================
