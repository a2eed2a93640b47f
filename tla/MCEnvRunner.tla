----------------------------- MODULE MCEnvRunner -----------------------------
(***************************************************************************)
(* Instances of EnvRunner for TLC.                                         *)
(***************************************************************************)
EXTENDS EnvRunner

\* With terminateRetries, clusters without slaves.
SomeOptions == {o \in OptionsType : o.retries => o.cluster /\ ~o.useSlaves}

\* Both roles of several shards leave room for two calls, one server for four.
CallBounds ==
    [o \in SomeOptions |-> IF ~o.cluster THEN 4 ELSE IF o.useSlaves THEN 2 ELSE 3]
==============================================================================
