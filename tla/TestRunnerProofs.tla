--------------------------- MODULE TestRunnerProofs ---------------------------
(***************************************************************************)
(* Theorems about TestRunner, for every set of tests, classes and methods, *)
(* every command line and any number of servers.                           *)
(***************************************************************************)
EXTENDS TestRunner, TLAPS

\* Without --env-reuse there is no Env between two tests; after the run there
\* is none at all.
EnvGone == phase = "done" \/ (phase = "idle" /\ ~args.envReuse) => currEnv = None

\* A method is run for the test at hand.
MethodOfTest == method.test = cur

\* The summary has a name of the test at hand.
Blamed == \E n \in testsFailed : n.test = cur

\* The sum kept over the methods of a class only grows with a name entered, and
\* a method that raised has its name entered before tearDown, unless the
\* exception ends the run.
FailuresBlamed ==
    /\ failures > 0 => Blamed
    /\ (phase = "count" \/ (phase = "teardown" /\ ~args.exitOnFailure))
          /\ outcome = "raised" => Blamed

\* The assertions that failed on currEnv failed in the test at hand.
ChecksAreTrouble ==
    ~args.envReuse /\ currEnv # None =>
        (currEnv.failed > 0 => cur \in troubled)

IInv ==
    /\ TypeOK
    /\ OnlyCurrentEnvRuns
    /\ EnvGone
    /\ MethodOfTest
    /\ FailuresBlamed
    /\ ChecksAreTrouble
    /\ NoFalseBlame

-----------------------------------------------------------------------------
\* A server that is stopped is no longer up.
LEMMA StoppedServer ==
    ASSUME NEW sv \in ServerType, NEW t \in Stopped(sv)
    PROVE  t \in ServerType /\ ~Up(t)
  BY DEF Stopped, ServerType, Up

\* A server that is started is a server.
LEMMA StartedServer ==
    ASSUME NEW sv \in ServerType, NEW t \in Started(sv)
    PROVE  t \in ServerType
<1>1. CASE Up(sv)
  BY <1>1 DEF Started
<1>2. CASE ~Up(sv)
  BY <1>2 DEF Started, ServerType
<1> QED BY <1>1, <1>2

\* Stopping the server of currEnv leaves none up.
LEMMA EnvStoppedServers ==
    ASSUME TypeOK, OnlyCurrentEnvRuns, currEnv # None, NEW after \in EnvStopped
    PROVE  /\ after \in [Servers -> ServerType]
           /\ \A s \in Servers : ~Up(after[s])
<1>1. currEnv.server \in Servers /\ servers \in [Servers -> ServerType]
  BY DEF TypeOK, EnvType
<1>2. PICK t \in Stopped(servers[currEnv.server]) :
          after = [servers EXCEPT ![currEnv.server] = t]
  BY DEF EnvStopped
<1>3. t \in ServerType /\ ~Up(t)
  BY <1>1, <1>2, StoppedServer
<1>4. \A s \in Servers : s # currEnv.server => ~Up(servers[s])
  BY DEF OnlyCurrentEnvRuns, Up
<1> QED BY <1>1, <1>2, <1>3, <1>4

\* The Env that becomes currEnv is new, and its server alone may be up.
LEMMA ConstructedEnv ==
    ASSUME TypeOK, cur \in Tests, NEW s \in Servers,
           NEW after \in [Servers -> ServerType],
           \A u \in Servers : Up(after[u]) => u = s,
           NEW ok \in BOOLEAN, Constructed(s, after, ok)
    PROVE  /\ servers' \in [Servers -> ServerType]
           /\ currEnv' \in EnvType \cup {None}
           /\ envs' \in {"none", "init", "other"}
           /\ currEnv # None => currEnv' # None
           /\ currEnv' = currEnv \/ currEnv'.failed = 0
           /\ OnlyCurrentEnvRuns'
<1>1. servers' = after /\ (ok <=> after[s].proc # "starting")
      /\ envs' \in {"none", "init", "other"}
  BY DEF Constructed
<1>2. CASE ok
  <2>1. /\ currEnv' \in EnvType /\ currEnv'.server = s
        /\ currEnv'.failed = 0
    BY <1>2 DEF Constructed, EnvType, Name
  <2> QED BY <1>1, <2>1, NoneAssumption DEF OnlyCurrentEnvRuns, Up
<1>3. CASE ~ok
  <2>1. currEnv' = currEnv
    BY <1>3 DEF Constructed
  <2>2. ~Up(after[s])
    BY <1>1, <1>3 DEF Up
  <2> QED BY <1>1, <2>1, <2>2 DEF TypeOK, OnlyCurrentEnvRuns, Up
<1> QED BY <1>2, <1>3

\* What making an Env leaves.
LEMMA MadeEnv ==
    ASSUME TypeOK, OnlyCurrentEnvRuns, cur \in Tests,
           NEW ok \in BOOLEAN, MakeEnv(ok)
    PROVE  /\ servers' \in [Servers -> ServerType]
           /\ currEnv' \in EnvType \cup {None}
           /\ created' \in 0..MaxServers
           /\ envs' \in {"none", "init", "other"}
           /\ currEnv # None => currEnv' # None
           /\ currEnv' = currEnv \/ currEnv'.failed = 0
           /\ OnlyCurrentEnvRuns'
<1> USE DEF TypeOK
<1>1. CASE /\ currEnv # None
           /\ \E sv \in Started(servers[currEnv.server]) :
                 Constructed(currEnv.server,
                             [servers EXCEPT ![currEnv.server] = sv], ok)
           /\ UNCHANGED created
  <2>1. PICK sv \in Started(servers[currEnv.server]) :
            Constructed(currEnv.server,
                        [servers EXCEPT ![currEnv.server] = sv], ok)
    BY <1>1
  <2> DEFINE s == currEnv.server
             after == [servers EXCEPT ![s] = sv]
  <2>2. s \in Servers
    BY <1>1 DEF EnvType
  <2>3. \A u \in Servers : u # s => ~Up(servers[u])
    BY DEF OnlyCurrentEnvRuns, Up
  <2>4. sv \in ServerType
    BY <2>1, <2>2, StartedServer
  <2>5. /\ after \in [Servers -> ServerType]
        /\ \A u \in Servers : Up(after[u]) => u = s
    BY <2>2, <2>3, <2>4
  <2>6. Constructed(s, after, ok)
    BY <2>1
  <2> HIDE DEF s, after
  <2> QED BY <1>1, <2>2, <2>5, <2>6, ConstructedEnv
<1>2. CASE /\ created < MaxServers
           /\ created' = created + 1
           /\ \E before \in IF currEnv = None THEN {servers} ELSE EnvStopped,
                 sv \in Started(servers[created + 1]) :
                    Constructed(created + 1,
                                [before EXCEPT ![created + 1] = sv], ok)
  <2>1. PICK before \in IF currEnv = None THEN {servers} ELSE EnvStopped,
             sv \in Started(servers[created + 1]) :
                Constructed(created + 1, [before EXCEPT ![created + 1] = sv], ok)
    BY <1>2
  <2> DEFINE s == created + 1
             after == [before EXCEPT ![s] = sv]
  <2>2. s \in Servers /\ created' \in 0..MaxServers
    BY <1>2, RunnerAssumption DEF RunnerAssumption, Servers
  <2>3. before \in [Servers -> ServerType] /\ \A u \in Servers : ~Up(before[u])
    <3>1. CASE currEnv = None
      BY <2>1, <3>1 DEF OnlyCurrentEnvRuns, Up
    <3>2. CASE currEnv # None
      BY <2>1, <3>2, EnvStoppedServers
    <3> QED BY <3>1, <3>2
  <2>4. sv \in ServerType
    BY <2>1, <2>2, StartedServer
  <2>5. /\ after \in [Servers -> ServerType]
        /\ \A u \in Servers : Up(after[u]) => u = s
    BY <2>2, <2>3, <2>4
  <2>6. Constructed(s, after, ok)
    BY <2>1
  <2> HIDE DEF s, after
  <2> QED BY <2>2, <2>5, <2>6, ConstructedEnv
<1> QED BY <1>1, <1>2 DEF MakeEnv

\* What taking an Env down leaves, and what it enters in the summary.
LEMMA TakenDown ==
    ASSUME TypeOK, OnlyCurrentEnvRuns, NEW full \in BOOLEAN, NEW next,
           NEW raising, takeEnvDown(full, next, raising)
    PROVE  /\ servers' \in [Servers -> ServerType]
           /\ currEnv' \in {currEnv, None}
           /\ phase' \in {next, raising}
           /\ testsFailed' \subseteq Names
           /\ testsFailed \subseteq testsFailed'
           /\ troubled' \subseteq Tests
           /\ troubled \subseteq troubled'
           /\ OnlyCurrentEnvRuns'
           /\ phase' # raising /\ (full \/ ~args.envReuse) => currEnv' = None
           /\ ~args.envReuse => \A n \in testsFailed' :
                                   n \in testsFailed \/ n.test \in troubled'
<1> USE DEF TypeOK
<1>1. CASE currEnv = None /\ phase' = next
           /\ UNCHANGED <<currEnv, servers, testsFailed, troubled>>
  BY <1>1 DEF OnlyCurrentEnvRuns, Up
<1>2. CASE currEnv # None /\ KeepsEnv(full) /\ phase' = next
  BY <1>2 DEF KeepsEnv, OnlyCurrentEnvRuns
<1>3. CASE currEnv # None /\ StopsEnv(full, next, raising)
  <2> DEFINE reuseFailed == args.envReuse /\ ~full
             Dirty(after, flushed) == ~after[currEnv.server].clean \/ ~flushed
  <2>1. PICK after \in EnvStopped, flushed \in BOOLEAN :
          /\ servers' = after
          /\ testsFailed' = testsFailed
                \cup (IF reuseFailed THEN {EnvDtor} ELSE {})
                \cup (IF Dirty(after, flushed) /\ requireCleanExit
                      THEN {currEnv.name} ELSE {})
          /\ troubled' = IF Dirty(after, flushed) \/ reuseFailed
                         THEN troubled \cup {currEnv.name.test} ELSE troubled
          /\ currEnv' = IF Dirty(after, flushed) /\ args.checkExitCode
                        THEN currEnv ELSE None
          /\ phase' = IF Dirty(after, flushed) /\ args.checkExitCode
                      THEN raising ELSE next
    BY <1>3 DEF StopsEnv
  <2> HIDE DEF Dirty
  <2>2. /\ servers' \in [Servers -> ServerType]
        /\ \A s \in Servers : ~Up(servers'[s])
    BY <1>3, <2>1, EnvStoppedServers
  <2>3. OnlyCurrentEnvRuns'
    BY <2>2 DEF OnlyCurrentEnvRuns, Up
  <2>4. currEnv.name \in Names /\ currEnv.name.test \in Tests
        /\ EnvDtor \in Names
    BY <1>3 DEF EnvType, Names
  <2>5. ~args.envReuse => \A n \in testsFailed' :
                             n \in testsFailed \/ n.test \in troubled'
    BY <2>1
  <2> QED BY <2>1, <2>2, <2>3, <2>4, <2>5
<1> QED BY <1>1, <1>2, <1>3 DEF takeEnvDown

-----------------------------------------------------------------------------
LEMMA IInvInit == Init => IInv
<1> SUFFICES ASSUME Init PROVE IInv OBVIOUS
<1> USE RunnerAssumption DEF Init, RunnerAssumption, Fresh
<1>1. EnvDtor \in Names /\ EnvDtor.test = None
  BY DEF Names, EnvDtor, Name
<1>2. servers \in [Servers -> ServerType] /\ \A s \in Servers : ~Up(servers[s])
  BY DEF ServerType, Up
<1>3. /\ created \in 0..MaxServers
      /\ args \in OptionsType
  OBVIOUS
<1>4. checkFailed \in BOOLEAN
  BY Zenon
<1>5. TypeOK
  BY <1>1, <1>2, <1>3, <1>4 DEF TypeOK
<1>6. OnlyCurrentEnvRuns
  BY <1>2 DEF OnlyCurrentEnvRuns, Up
<1>7. EnvGone /\ MethodOfTest /\ FailuresBlamed
  BY <1>1 DEF EnvGone, MethodOfTest, FailuresBlamed
<1>8. ChecksAreTrouble /\ NoFalseBlame
  BY DEF ChecksAreTrouble, NoFalseBlame
<1> QED BY <1>5, <1>6, <1>7, <1>8 DEF IInv

\* Names of the test at hand are names.
LEMMA NamesOfTest ==
    ASSUME NEW t \in Tests
    PROVE  /\ \A m \in Methods \cup {"self", "init"} :
                 Name(t, m) \in Names /\ Name(t, m).test = t
           /\ Name(t, "self") \in [test : Tests, part : {"self"}]
  BY DEF Name, Names

LEMMA TypeNext == TypeOK /\ OnlyCurrentEnvRuns /\ [Next]_vars => TypeOK'
<1> SUFFICES ASSUME TypeOK, OnlyCurrentEnvRuns, [Next]_vars PROVE TypeOK'
  OBVIOUS
<1> USE DEF TypeOK, place, result, history
<1>1. CASE PickTest
  <2>1. PICK t \in todo :
          /\ cur' = t
          /\ todo' = todo \ {t}
          /\ method' = Name(t, "self")
          /\ rest' = IF t \in Classes THEN Methods ELSE {}
          /\ phase' \in IF t \in Classes THEN {"init"} ELSE {"factory", "body"}
    BY <1>1 DEF PickTest
  <2> QED BY <1>1, <2>1, NamesOfTest DEF PickTest
<1>2. CASE Factory
  <2>1. cur \in Tests
    BY <1>2 DEF Factory
  <2>2. PICK ok \in BOOLEAN :
          /\ MakeEnv(ok)
          /\ phase' = IF ok THEN "body" ELSE "methods"
          /\ Fails(IF ok THEN {} ELSE {method})
          /\ troubled' = IF ok THEN troubled ELSE troubled \cup {cur}
          /\ done' = IF ok THEN done ELSE done + 1
          /\ outcome' = IF ok THEN outcome ELSE "raised"
    BY <1>2 DEF Factory
  <2>3. /\ servers' \in [Servers -> ServerType]
        /\ currEnv' \in EnvType \cup {None}
        /\ created' \in 0..MaxServers
        /\ envs' \in {"none", "init", "other"}
    BY <2>1, <2>2, MadeEnv
  <2> QED BY <1>2, <2>1, <2>2, <2>3 DEF Factory, Fails
<1>3. CASE TestMakesEnv
  <2>1. cur \in Tests
    BY <1>3 DEF TestMakesEnv, InTest
  <2>2. PICK ok \in BOOLEAN :
          /\ MakeEnv(ok)
          /\ troubled' = IF ok THEN troubled ELSE troubled \cup {cur}
    BY <1>3 DEF TestMakesEnv
  <2>3. /\ servers' \in [Servers -> ServerType]
        /\ currEnv' \in EnvType \cup {None}
        /\ created' \in 0..MaxServers
        /\ envs' \in {"none", "init", "other"}
    BY <2>1, <2>2, MadeEnv
  <2> QED BY <1>3, <2>1, <2>2, <2>3 DEF TestMakesEnv
<1>4. CASE CheckFails
  <2>1. cur \in Tests /\ currEnv' \in EnvType
    BY <1>4 DEF CheckFails, InTest, EnvType
  <2> QED BY <1>4, <2>1 DEF CheckFails, InTrouble
<1>5. CASE TestStopsEnv
  BY <1>5, EnvStoppedServers DEF TestStopsEnv
<1>6. CASE TestStartsEnv
  <2>1. PICK sv \in Started(servers[currEnv.server]) :
          servers' = [servers EXCEPT ![currEnv.server] = sv]
    BY <1>6 DEF TestStartsEnv
  <2>2. sv \in ServerType
    BY <1>6, <2>1, StartedServer DEF TestStartsEnv, EnvType
  <2> QED BY <1>6, <2>1, <2>2 DEF TestStartsEnv
<1>7. CASE Crash
  <2>1. servers' \in [Servers -> ServerType] /\ cur \in Tests
    BY <1>7 DEF Crash, ServerType
  <2> QED BY <1>7, <2>1 DEF Crash, InTrouble
<1>8. CASE InitEnds \/ InitRaises
  BY <1>8, NamesOfTest DEF InitEnds, InitRaises, Fails, InTrouble
<1>9. CASE NextMethod
  <2>1. PICK m \in rest : method' = Name(cur, m) /\ rest' = rest \ {m}
    BY <1>9 DEF NextMethod
  <2>2. method' \in Names /\ rest' \subseteq rest
    BY <1>9, <2>1, NamesOfTest DEF NextMethod
  <2> QED BY <1>9, <2>2 DEF NextMethod
<1>10. CASE BodyEnds \/ BodyRaises
  BY <1>10 DEF BodyEnds, BodyRaises, Fails, InTrouble
<1>11. CASE ExitOnFailure
  <2> DEFINE last == IF cur \in Classes THEN "teardown" ELSE "unwind"
  <2>1. PICK next \in {last, "unwind"} : takeEnvDown(TRUE, next, last)
    BY <1>11 DEF ExitOnFailure
  <2>2. /\ servers' \in [Servers -> ServerType]
        /\ currEnv' \in {currEnv, None}
        /\ phase' \in {next, last}
        /\ testsFailed' \subseteq Names
        /\ troubled' \subseteq Tests
    BY <2>1, TakenDown
  <2>3. phase' \in {"teardown", "unwind"} /\ cur \in Tests
    BY <1>11, <2>1, <2>2 DEF ExitOnFailure
  <2> QED BY <1>11, <2>2, <2>3 DEF ExitOnFailure
<1>12. CASE TearDown \/ TearDownRaises
  BY <1>12 DEF TearDown, TearDownRaises, InTrouble
<1>13. CASE Count
  <2>1. failures' \in Nat
    BY <1>13 DEF Count, EnvType
  <2> QED BY <1>13, <2>1 DEF Count, Fails
<1>14. CASE EndTest
  BY <1>14 DEF EndTest
<1>15. CASE LeaveGuard
  BY <1>15, TakenDown DEF LeaveGuard
<1>16. CASE Finish
  BY <1>16, TakenDown DEF Finish
<1>17. CASE TimeOut
  <2>1. servers' \in [Servers -> ServerType] /\ cur \in Tests
    BY <1>17 DEF TimeOut, ServerType
  <2> QED BY <1>17, <2>1, NamesOfTest DEF TimeOut, Fails, InTrouble
<1>18. CASE UNCHANGED vars
  BY <1>18 DEF vars
<1> QED BY <1>1, <1>2, <1>3, <1>4, <1>5, <1>6, <1>7, <1>8, <1>9, <1>10, <1>11,
           <1>12, <1>13, <1>14, <1>15, <1>16, <1>17, <1>18
        DEF Next, RunSingleTest, Test, Terminated

-----------------------------------------------------------------------------
LEMMA EnvNext ==
    TypeOK /\ OnlyCurrentEnvRuns /\ EnvGone /\ [Next]_vars
        => OnlyCurrentEnvRuns' /\ EnvGone'
<1> SUFFICES ASSUME TypeOK, OnlyCurrentEnvRuns, EnvGone, [Next]_vars
             PROVE  OnlyCurrentEnvRuns' /\ EnvGone'
  OBVIOUS
<1> USE DEF place, result, history
<1>1. ASSUME UNCHANGED <<currEnv, servers>> PROVE OnlyCurrentEnvRuns'
  BY <1>1 DEF OnlyCurrentEnvRuns, Up
<1>2. CASE PickTest
  BY <1>1, <1>2 DEF PickTest, EnvGone
<1>3. CASE Factory
  <2>1. cur \in Tests /\ \E ok \in BOOLEAN : MakeEnv(ok)
    BY <1>3 DEF Factory, TypeOK
  <2>2. OnlyCurrentEnvRuns'
    BY <2>1, MadeEnv
  <2> QED BY <1>3, <2>2 DEF Factory, EnvGone
<1>4. CASE TestMakesEnv
  <2>1. cur \in Tests /\ \E ok \in BOOLEAN : MakeEnv(ok)
    BY <1>4 DEF TestMakesEnv, InTest, TypeOK
  <2>2. OnlyCurrentEnvRuns'
    BY <2>1, MadeEnv
  <2> QED BY <1>4, <2>2 DEF TestMakesEnv, InTest, EnvGone
<1>5. CASE CheckFails
  <2>1. /\ currEnv' # None /\ currEnv'.server = currEnv.server
        /\ servers' = servers
    BY <1>5, NoneAssumption DEF CheckFails, TypeOK, EnvType
  <2> QED BY <1>5, <2>1 DEF CheckFails, InTest, OnlyCurrentEnvRuns, Up, EnvGone
<1>6. CASE TestStopsEnv
  <2>1. \A s \in Servers : ~Up(servers'[s])
    BY <1>6, EnvStoppedServers DEF TestStopsEnv
  <2> QED BY <1>6, <2>1 DEF TestStopsEnv, InTest, OnlyCurrentEnvRuns, Up, EnvGone
<1>7. CASE TestStartsEnv
  <2>1. PICK sv \in Started(servers[currEnv.server]) :
          servers' = [servers EXCEPT ![currEnv.server] = sv]
    BY <1>7 DEF TestStartsEnv
  <2>2. OnlyCurrentEnvRuns'
    BY <1>7, <2>1 DEF TestStartsEnv, TypeOK, OnlyCurrentEnvRuns
  <2> QED BY <1>7, <2>2 DEF TestStartsEnv, InTest, EnvGone
<1>8. CASE Crash
  <2>1. PICK t \in Servers :
          /\ servers[t].proc = "running"
          /\ servers' = [servers EXCEPT ![t].proc = "crashed"]
    BY <1>8 DEF Crash
  <2>2. Up(servers[t])
    BY <2>1 DEF Up
  <2>3. \A s \in Servers : Up(servers'[s]) => Up(servers[s])
    BY <2>1, <2>2 DEF TypeOK
  <2> QED BY <1>8, <2>3 DEF Crash, OnlyCurrentEnvRuns, Up, EnvGone
<1>9. CASE InitEnds \/ InitRaises
  BY <1>1, <1>9 DEF InitEnds, InitRaises, EnvGone
<1>10. CASE NextMethod
  BY <1>1, <1>10 DEF NextMethod, EnvGone
<1>11. CASE BodyEnds \/ BodyRaises
  BY <1>1, <1>11 DEF BodyEnds, BodyRaises, EnvGone
<1>12. CASE ExitOnFailure
  <2> DEFINE last == IF cur \in Classes THEN "teardown" ELSE "unwind"
  <2>1. PICK next \in {last, "unwind"} : takeEnvDown(TRUE, next, last)
    BY <1>12 DEF ExitOnFailure
  <2>2. OnlyCurrentEnvRuns' /\ phase' \in {next, last}
    BY <2>1, TakenDown
  <2> QED BY <2>1, <2>2 DEF EnvGone
<1>13. CASE TearDown \/ TearDownRaises
  BY <1>1, <1>13 DEF TearDown, TearDownRaises, EnvGone
<1>14. CASE Count
  BY <1>1, <1>14 DEF Count, EnvGone
<1>15. CASE EndTest
  BY <1>1, <1>15 DEF EndTest, EnvGone
<1>16. CASE LeaveGuard
  <2>1. /\ OnlyCurrentEnvRuns'
        /\ phase' \in {"idle", "aborted"}
        /\ phase' # "aborted" /\ ~args.envReuse => currEnv' = None
    BY <1>16, TakenDown DEF LeaveGuard
  <2> QED BY <1>16, <2>1 DEF LeaveGuard, EnvGone
<1>17. CASE Finish
  <2>1. takeEnvDown(TRUE, "done", "aborted")
    BY <1>17 DEF Finish
  <2>2. /\ OnlyCurrentEnvRuns'
        /\ phase' \in {"done", "aborted"}
        /\ phase' # "aborted" => currEnv' = None
    BY <2>1, TakenDown
  <2> QED BY <2>2 DEF EnvGone
<1>18. CASE TimeOut
  <2>1. \A s \in Servers : Up(servers'[s]) =>
            Up(servers[s]) \/ (currEnv # None /\ currEnv.server = s)
    BY <1>18 DEF TimeOut
  <2> QED BY <1>18, <2>1 DEF TimeOut, OnlyCurrentEnvRuns, Up, EnvGone
<1>19. CASE UNCHANGED vars
  BY <1>1, <1>19 DEF vars, EnvGone
<1> QED BY <1>2, <1>3, <1>4, <1>5, <1>6, <1>7, <1>8, <1>9, <1>10, <1>11, <1>12,
           <1>13, <1>14, <1>15, <1>16, <1>17, <1>18, <1>19
        DEF Next, RunSingleTest, Test, Terminated

\* The parts of the invariant about the summary.
Summary ==
    MethodOfTest /\ FailuresBlamed /\ ChecksAreTrouble /\ NoFalseBlame

LEMMA SummaryNext == IInv /\ [Next]_vars => Summary'
<1> SUFFICES ASSUME IInv, [Next]_vars PROVE Summary'
  OBVIOUS
<1> USE DEF place, result, history, IInv, Summary, MethodOfTest,
            FailuresBlamed, Blamed, ChecksAreTrouble, NoFalseBlame
<1>1. CASE PickTest
  <2>1. ~args.envReuse => currEnv = None
    BY <1>1 DEF PickTest, EnvGone
  <2> QED BY <1>1, <2>1 DEF PickTest, Name
<1>2. CASE Factory
  <2>1. PICK ok \in BOOLEAN :
          /\ MakeEnv(ok)
          /\ Fails(IF ok THEN {} ELSE {method})
          /\ troubled' = IF ok THEN troubled ELSE troubled \cup {cur}
    BY <1>2 DEF Factory
  <2>2. currEnv' = currEnv \/ currEnv'.failed = 0
    BY <1>2, <2>1, MadeEnv DEF Factory, TypeOK
  <2> QED BY <1>2, <2>1, <2>2 DEF Factory, Fails
<1>3. CASE TestMakesEnv
  <2>1. PICK ok \in BOOLEAN :
          /\ MakeEnv(ok)
          /\ troubled' = IF ok THEN troubled ELSE troubled \cup {cur}
    BY <1>3 DEF TestMakesEnv
  <2>2. currEnv' = currEnv \/ currEnv'.failed = 0
    BY <1>3, <2>1, MadeEnv DEF TestMakesEnv, InTest, TypeOK
  <2> QED BY <1>3, <2>1, <2>2 DEF TestMakesEnv
<1>4. CASE CheckFails
  BY <1>4 DEF CheckFails, InTrouble
<1>5. CASE TestStopsEnv \/ TestStartsEnv
  BY <1>5 DEF TestStopsEnv, TestStartsEnv
<1>6. CASE Crash
  BY <1>6 DEF Crash, InTrouble
<1>7. CASE InitEnds \/ InitRaises
  BY <1>7 DEF InitEnds, InitRaises, Fails, InTrouble, Name
<1>8. CASE NextMethod
  BY <1>8 DEF NextMethod, Name
<1>9. CASE BodyEnds \/ BodyRaises
  BY <1>9 DEF BodyEnds, BodyRaises, Fails, InTrouble
<1>10. ASSUME NEW full \in BOOLEAN, NEW next, NEW raising,
              takeEnvDown(full, next, raising),
              UNCHANGED <<args, cur, method, failures>>,
              "count" \notin {next, raising},
              "teardown" \in {next, raising} => args.exitOnFailure
       PROVE  Summary'
  <2>1. /\ currEnv' \in {currEnv, None}
        /\ phase' \in {next, raising}
        /\ testsFailed \subseteq testsFailed' /\ troubled \subseteq troubled'
        /\ ~args.envReuse => \A n \in testsFailed' :
                                n \in testsFailed \/ n.test \in troubled'
    BY <1>10, TakenDown
  <2> QED BY <1>10, <2>1
<1>11. CASE ExitOnFailure
  <2> DEFINE last == IF cur \in Classes THEN "teardown" ELSE "unwind"
  <2>1. PICK next \in {last, "unwind"} : takeEnvDown(TRUE, next, last)
    BY <1>11 DEF ExitOnFailure
  <2>2. "count" \notin {next, last}
    BY <2>1
  <2> QED BY <1>10, <1>11, <2>1, <2>2 DEF ExitOnFailure
<1>12. CASE TearDown \/ TearDownRaises
  BY <1>12 DEF TearDown, TearDownRaises, InTrouble
<1>13. CASE Count
  <2>1. failures \in Nat /\ currEnv \in EnvType \cup {None}
    BY DEF TypeOK
  <2>2. currEnv # None => currEnv.failed \in Nat
    BY <2>1 DEF EnvType
  <2>3. FailuresBlamed'
    <3>1. CASE NewFailures
      BY <1>13, <3>1 DEF Count, Fails
    <3>2. CASE ~NewFailures
      <4>1. failures' > 0 => failures > 0 \/ outcome = "raised"
        BY <1>13, <2>1, <2>2, <3>2 DEF Count, NewFailures
      <4> QED BY <1>13, <4>1 DEF Count, Fails
    <3> QED BY <3>1, <3>2
  <2>4. NoFalseBlame'
    BY <1>13, <2>1, <2>2 DEF Count, Fails, NewFailures
  <2> QED BY <1>13, <2>3, <2>4 DEF Count
<1>14. CASE EndTest
  BY <1>14 DEF EndTest
<1>15. CASE LeaveGuard
  BY <1>10, <1>15 DEF LeaveGuard
<1>16. CASE Finish
  BY <1>10, <1>16 DEF Finish
<1>17. CASE TimeOut
  BY <1>17 DEF TimeOut, Fails, InTrouble, Name
<1>18. CASE UNCHANGED vars
  BY <1>18 DEF vars
<1> QED BY <1>1, <1>2, <1>3, <1>4, <1>5, <1>6, <1>7, <1>8, <1>9, <1>11, <1>12,
           <1>13, <1>14, <1>15, <1>16, <1>17, <1>18
        DEF Next, RunSingleTest, Test, Terminated

LEMMA IInvNext == IInv /\ [Next]_vars => IInv'
  BY TypeNext, EnvNext, SummaryNext DEF IInv, Summary

LEMMA IInvHolds == Spec => []IInv
  BY IInvInit, IInvNext, PTL DEF Spec

-----------------------------------------------------------------------------
\* The types of all variables hold throughout.
THEOREM TypeHolds == Spec => []TypeOK
<1>1. IInv => TypeOK
  BY DEF IInv
<1> QED BY <1>1, IInvHolds, PTL

\* Whatever Envs a test makes, stops, starts and replaces, and whichever
\* servers fail to start or die, a server whose start was confirmed is the one
\* of currEnv or has been stopped.
THEOREM OnlyCurrentRuns == Spec => []OnlyCurrentEnvRuns
<1>1. IInv => OnlyCurrentEnvRuns
  BY DEF IInv
<1> QED BY <1>1, IInvHolds, PTL

\* When the run is over, and between two tests that share no Env, no server
\* is up.
THEOREM NothingIsLeft == Spec => []NothingLeftRunning
<1>1. IInv => NothingLeftRunning
  BY DEF IInv, EnvGone, OnlyCurrentEnvRuns, NothingLeftRunning, Up
<1> QED BY <1>1, IInvHolds, PTL

\* A test in the summary had trouble of its own, unless Envs are reused.
THEOREM NobodyBlamedFalsely == Spec => []NoFalseBlame
<1>1. IInv => NoFalseBlame
  BY DEF IInv
<1> QED BY <1>1, IInvHolds, PTL

\* A method that ends with a failed assertion on its Env leaves a name of its
\* test in the summary.
THEOREM FailuresAreSeen == Spec => GreenMeansNoFailure
<1>1. IInv /\ [Next]_vars =>
        (phase = "count" /\ phase' = "methods" /\ currEnv # None =>
          (currEnv.failed > 0 => \E n \in testsFailed' : n.test = cur))
  <2> SUFFICES ASSUME IInv, [Next]_vars, phase = "count", phase' = "methods",
                      currEnv # None, currEnv.failed > 0
               PROVE  \E n \in testsFailed' : n.test = cur
    OBVIOUS
  <2>1. Count
    BY DEF Next, RunSingleTest, Test, Terminated, vars, place, PickTest,
           Factory, InitEnds, InitRaises, NextMethod, BodyEnds, BodyRaises,
           ExitOnFailure, TearDown, TearDownRaises, EndTest, LeaveGuard,
           Finish, InTest, TestMakesEnv, CheckFails, TestStopsEnv,
           TestStartsEnv, Crash, TimeOut
  <2>2. failures \in Nat /\ currEnv.failed \in Nat
    BY DEF IInv, TypeOK, EnvType
  <2>3. CASE currEnv.failed > failures
    BY <2>1, <2>3 DEF Count, NewFailures, Fails, IInv, MethodOfTest
  <2>4. CASE ~(currEnv.failed > failures)
    <3>1. Blamed
      BY <2>2, <2>4 DEF IInv, FailuresBlamed
    <3> QED BY <2>1, <3>1 DEF Count, Fails, Blamed
  <2> QED BY <2>3, <2>4
<1> QED BY <1>1, IInvHolds, PTL DEF Spec, GreenMeansNoFailure

\* A server found dead when its Env is taken down is reported, if the run
\* requires a clean exit at all.
THEOREM DeadServersAreReported == Spec => CrashesAreReported
<1> DEFINE Reported ==
        {currEnv.name, EnvDtor} \cap testsFailed' # {}
           Dead == /\ currEnv # None /\ currEnv' = None /\ requireCleanExit
                   /\ servers[currEnv.server].proc = "crashed"
<1>1. ASSUME Dead, NEW full \in BOOLEAN, NEW next, NEW raising,
             takeEnvDown(full, next, raising)
      PROVE  Reported
  <2>1. StopsEnv(full, next, raising)
    BY <1>1 DEF takeEnvDown, KeepsEnv
  <2>2. PICK flushed \in BOOLEAN, dirty \in BOOLEAN :
          LET reuseFailed == args.envReuse /\ ~full
          IN  /\ ~reuseFailed => ~flushed
              /\ ~flushed => dirty
              /\ testsFailed' = testsFailed
                    \cup (IF reuseFailed THEN {EnvDtor} ELSE {})
                    \cup (IF dirty /\ requireCleanExit THEN {currEnv.name}
                          ELSE {})
    BY <1>1, <2>1 DEF StopsEnv, Up
  <2> QED BY <1>1, <2>2
<1>2. ASSUME TypeOK, OnlyCurrentEnvRuns, Dead, Factory \/ TestMakesEnv
      PROVE  FALSE
  <2>1. cur \in Tests /\ \E ok \in BOOLEAN : MakeEnv(ok)
    BY <1>2 DEF Factory, TestMakesEnv, InTest, TypeOK
  <2> QED BY <1>2, <2>1, MadeEnv
<1>3. ASSUME TypeOK, Dead, CheckFails
      PROVE  FALSE
  <2>1. currEnv' \in EnvType
    BY <1>3 DEF CheckFails, TypeOK, EnvType
  <2> QED BY <1>3, <2>1, NoneAssumption
<1>4. ASSUME Dead, ExitOnFailure \/ LeaveGuard \/ Finish
      PROVE  Reported
  BY <1>1, <1>4 DEF ExitOnFailure, LeaveGuard, Finish
<1>5. IInv /\ [Next]_vars => (Dead => Reported)
  <2> SUFFICES ASSUME IInv, [Next]_vars, Dead PROVE Reported
    OBVIOUS
  <2>1. currEnv' # currEnv
    OBVIOUS
  <2>2. \/ Factory \/ TestMakesEnv \/ CheckFails
        \/ ExitOnFailure \/ LeaveGuard \/ Finish
    BY <2>1 DEF Next, RunSingleTest, Test, Terminated, vars, PickTest, InitEnds,
                InitRaises, NextMethod, BodyEnds, BodyRaises, TearDown,
                TearDownRaises, Count, EndTest, TestStopsEnv, TestStartsEnv,
                Crash, TimeOut
  <2> QED BY <1>2, <1>3, <1>4, <2>2 DEF IInv
<1> QED BY <1>5, IInvHolds, PTL DEF Spec, CrashesAreReported
=============================================================================
