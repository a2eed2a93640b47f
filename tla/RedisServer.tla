------------------------------ MODULE RedisServer ------------------------------
(***************************************************************************)
(* A redis server as the test runner sees it, and what a StandardEnv       *)
(* without slaves may make of it.  TestRunner is built on these operators; *)
(* EnvRunner shows that the code of StandardEnv and ClusterEnv does        *)
(* nothing else with a server (ServerPromise).                             *)
(***************************************************************************)

\* proc: no process; one that was started by a startEnv which raised, so that
\* it may live although envIsUp is false; one that startEnv vouched for; one of
\* those that has died unnoticed.
\* clean: the exit code on record is 0.
ServerType ==
    [proc : {"none", "starting", "running", "crashed"}, clean : BOOLEAN]

Fresh == [proc |-> "none", clean |-> FALSE]

\* envIsUp.
Up(sv) == sv.proc \in {"running", "crashed"}

\* What startEnv may leave: a server already up is left alone; a process that
\* dies at once leaves none; one that does not answer makes startEnv raise;
\* a second startEnv vouches for it, dead or alive.
Started(sv) ==
    IF Up(sv) THEN {sv}
    ELSE {[sv EXCEPT !.proc = "running"]} \cup
         IF sv.proc = "none" THEN {sv, [sv EXCEPT !.proc = "starting"]}
                             ELSE {[sv EXCEPT !.proc = "crashed"]}

\* What stopEnv may leave: only a process that is alive yields an exit code.
Stopped(sv) ==
    IF sv.proc \in {"none", "crashed"} THEN {[sv EXCEPT !.proc = "none"]}
    ELSE {[proc |-> "none", clean |-> c] : c \in BOOLEAN}
================================================================================
