-------------------------- MODULE MCParallelRunner --------------------------
(***************************************************************************)
(* Instances of ParallelRunner for TLC: tests and workers are model values.*)
(***************************************************************************)
EXTENDS ParallelRunner, TLC

\* The command lines that differ in how an environment is taken down.
AllOptions == OptionsType

SomeOptions ==
    {o \in OptionsType : o.envReuse => (o.useValgrind # o.checkExitCode)}

ReuseChecked ==
    {o \in OptionsType : o.envReuse /\ ~o.useValgrind /\ o.checkExitCode}

Plain == {o \in OptionsType : ~o.envReuse /\ ~o.useValgrind /\ ~o.checkExitCode}

\* Tests are interchangeable, and so are workers (safety runs only).
Symmetry == Permutations(Tests) \cup Permutations(Workers)
=============================================================================
