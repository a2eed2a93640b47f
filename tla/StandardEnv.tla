------------------------------ MODULE StandardEnv ------------------------------
(***************************************************************************)
(* One server of RLTest (redis_std.py): a master process, a slave process  *)
(* if useSlaves, and the two flags callers go by.  Each operator gives the *)
(* outcomes of one call.  That a process dies in the middle of a call      *)
(* makes no difference to one that dies before or after it: no call looks  *)
(* twice at the same process.                                              *)
(***************************************************************************)
EXTENDS Naturals

Roles == {"master", "slave"}

\* handle: masterProcess or slaveProcess is None, a process that serves, one
\* that is alive and silent, one that has ended.  exitCode: masterExitCode or
\* slaveExitCode.  ended (how the last process really ended) and lives (how
\* many there were, 2 for more) are history.
RoleType ==
    [handle : {"none", "serving", "silent", "dead"},
     exitCode : {"None", "zero", "bad"},
     ended : {"never", "clean", "dirty"}, lives : 0..2]

StandardEnvType ==
    [port : Nat, slavePort : Nat, useSlaves : BOOLEAN,
     master : RoleType, slave : RoleType,
     envIsUp : BOOLEAN, envIsHealthy : BOOLEAN]

NoProcess ==
    [handle |-> "none", exitCode |-> "None", ended |-> "never", lives |-> 0]

New(port, useSlaves) ==
    [port |-> port, slavePort |-> IF useSlaves THEN port + 1 ELSE 0,
     useSlaves |-> useSlaves, master |-> NoProcess, slave |-> NoProcess,
     envIsUp |-> FALSE, envIsHealthy |-> TRUE]

Alive(p) == p.handle \in {"serving", "silent"}

Flagged(env) ==
    LET master == env.master.handle # "none"
        slave == env.slave.handle # "none"
    IN  [env EXCEPT !.envIsUp = master \/ slave,
                    !.envIsHealthy = master /\ (env.useSlaves => slave)]

\* A call that returns, or raises, with the env it leaves.
Returns(env) == [env |-> env, raised |-> FALSE]
Raises(env) == [env |-> env, raised |-> TRUE]

-----------------------------------------------------------------------------
\* A new process serves; or it has died within startupGraceSecs and is
\* forgotten; or waitForRedisToStart raises, because it dies or does not
\* answer in time, and the handle stays.
Spawned(p) ==
    LET born == [p EXCEPT !.lives = IF @ < 2 THEN @ + 1 ELSE @]
        died == [born EXCEPT !.ended = "dirty"]
    IN  {Returns([born EXCEPT !.handle = "serving"]),
         Returns([died EXCEPT !.handle = "none"]),
         Raises([born EXCEPT !.handle = "serving"]),
         Raises([died EXCEPT !.handle = "dead"])}

\* Fault: a process is started whether or not there is one.
StartProcessAnyway(p, asked) == IF asked THEN Spawned(p) ELSE {Returns(p)}

StartProcess(p, asked) ==
    IF asked /\ p.handle = "none" THEN Spawned(p) ELSE {Returns(p)}

\* An exception leaves the flags as they were.
StartEnv(env, masters, slaves) ==
    IF env.envIsUp /\ env.envIsHealthy THEN {Returns(env)}
    ELSE UNION
        {IF m.raised THEN {Raises([env EXCEPT !.master = m.env])}
         ELSE {LET both == [env EXCEPT !.master = m.env, !.slave = s.env]
               IN  IF s.raised THEN Raises(both) ELSE Returns(Flagged(both)) :
                 s \in StartProcess(env.slave, env.useSlaves /\ slaves)} :
           m \in StartProcess(env.master, masters)}

-----------------------------------------------------------------------------
\* Fault: after the last retry the process is not killed.
StopProcessByAsking(p, retries) ==
    IF ~Alive(p) THEN {[p EXCEPT !.handle = "none"]}
    ELSE {[p EXCEPT !.handle = "none", !.exitCode = code,
                    !.ended = IF code = "zero" THEN "clean" ELSE "dirty"] :
            code \in IF p.handle = "serving" THEN {"zero", "bad"} ELSE {}}

\* _stopProcess, and the handle is None.  The exit code of a process found
\* dead is not looked at.  A live one is asked to end and waited for, for
\* ever if it never does (no outcome); with terminateRetries it is killed
\* in the end, and polled at once, when it may not have gone yet.  A process
\* found dead has written a log: else verbose_analyse_server_log would raise.
StopProcess(p, retries) ==
    IF ~Alive(p) THEN {[p EXCEPT !.handle = "none"]}
    ELSE {[p EXCEPT !.handle = "none", !.exitCode = code,
                    !.ended = IF code = "zero" THEN "clean" ELSE "dirty"] :
            code \in (IF p.handle = "serving" THEN {"zero", "bad"} ELSE {})
                       \cup (IF retries THEN {"bad", "None"} ELSE {})}

Stops(p, asked, retries) ==
    IF asked /\ p.handle # "none" THEN StopProcess(p, retries) ELSE {p}

\* Fault: an env whose flag is down is left alone.
StopEnvIfUp(env, masters, slaves, retries) ==
    IF ~env.envIsUp THEN {env}
    ELSE {Flagged([env EXCEPT !.master = m, !.slave = s]) :
            m \in Stops(env.master, masters, retries),
            s \in Stops(env.slave, env.useSlaves /\ slaves, retries)}

\* Fault: the handles are kept.
StopEnvKeepingHandles(env, masters, slaves, retries) ==
    LET Ended(before, after) ==
            IF Alive(before) /\ after.handle = "none"
            THEN [after EXCEPT !.handle = "dead"] ELSE after
    IN  {Flagged([env EXCEPT !.master = Ended(env.master, m),
                             !.slave = Ended(env.slave, s)]) :
            m \in Stops(env.master, masters, retries),
            s \in Stops(env.slave, env.useSlaves /\ slaves, retries)}

StopEnv(env, masters, slaves, retries) ==
    UNION {{Flagged([env EXCEPT !.master = m, !.slave = s]) :
              s \in Stops(env.slave, env.useSlaves /\ slaves, retries)} :
             m \in Stops(env.master, masters, retries)}

\* A crash, and the end of _segfault: the handle and the flags stay.
Dead(p) == IF Alive(p) THEN [p EXCEPT !.handle = "dead", !.ended = "dirty"] ELSE p

StopEnvWithSegFault(env, masters, slaves) ==
    [env EXCEPT !.master = IF masters THEN Dead(@) ELSE @,
                !.slave = IF slaves THEN Dead(@) ELSE @]

\* The master is asked first, then the slave: one that is gone raises, one
\* that is silent is waited for (no outcome).  What is asked may be refused.
DumpAndReload(env, restart, retries) ==
    LET asked == IF env.useSlaves /\ env.master.handle = "serving"
                 THEN env.slave ELSE env.master
    IN  CASE asked.handle = "silent" -> {}
          [] asked.handle \in {"none", "dead"} -> {Raises(env)}
          [] asked.handle = "serving" ->
               {Raises(env)} \cup
                 IF restart
                 THEN UNION {StartEnv(down, TRUE, TRUE) :
                               down \in StopEnv(env, TRUE, TRUE, retries)}
                 ELSE {Returns(env)}

\* Fault: only an exit code other than 0 is bad, not its absence.
CheckExitCodeIfAny(env) ==
    /\ env.master.exitCode # "bad"
    /\ env.useSlaves => env.slave.exitCode # "bad"

CheckExitCode(env) ==
    /\ env.master.exitCode = "zero"
    /\ env.useSlaves => env.slave.exitCode = "zero"
================================================================================
