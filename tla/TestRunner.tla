------------------------------ MODULE TestRunner ------------------------------
(***************************************************************************)
(* One RLTest process running its tests one after the other, as the main   *)
(* process does without --parallelism and each worker does with it:        *)
(* run_single_test, _runTest, takeEnvDown and Env.__init__, with the redis *)
(* servers behind the Envs.                                                *)
(*                                                                         *)
(* The runner knows one Env, currEnv.  A test may construct several; each  *)
(* becomes currEnv and either shares the server of the one before or stops *)
(* it.  Failed assertions are counted in the Env they are made on, and the *)
(* runner decides from that count, and from a sum it keeps for the methods *)
(* of a class, which names go into testsFailed.                            *)
(***************************************************************************)
EXTENDS Naturals, FiniteSets, RedisServer

CONSTANTS
    Tests,          \* the names of the tests to run
    Classes,        \* those that are classes; the others are functions
    Methods,        \* the test methods each class has
    None,           \* stands for "no test" and "no Env"
    Options,        \* the command lines considered, see OptionsType
    MaxServers,     \* bound on servers created for Envs that share none
    MaxChecks       \* bound on failed assertions counted in one Env

OptionsType ==
    [envReuse : BOOLEAN, useValgrind : BOOLEAN, checkExitCode : BOOLEAN,
     exitOnFailure : BOOLEAN, verboseInfo : BOOLEAN]

ASSUME RunnerAssumption ==
    /\ IsFiniteSet(Tests)
    /\ IsFiniteSet(Methods)
    /\ Classes \subseteq Tests
    /\ None \notin Tests
    /\ {"self", "init", "dtor"} \cap Methods = {}
    /\ Options \subseteq OptionsType
    /\ MaxServers \in Nat \ {0} /\ MaxChecks \in Nat \ {0}

\* The names failures are entered under: a test, its "[__init__]", a method,
\* and '[env dtor]', which belongs to no test.
Name(t, part) == [test |-> t, part |-> part]
EnvDtor == Name(None, "dtor")
Names == [test : Tests, part : {"self", "init"} \cup Methods] \cup {EnvDtor}

\* A server for each envRunner; what may become of one is in RedisServer.
Servers == 1..MaxServers
EnvType ==
    [name : [test : Tests, part : {"self"}], failed : Nat,
     server : Servers]

\* No Env is the absence of one.
ASSUME NoneAssumption == None \notin EnvType

VARIABLES
    args,           \* the command line
    todo,           \* the tests still to come
    phase,          \* where run_single_test is
    cur,            \* the test it runs
    method,         \* the name _runTest runs
    rest,           \* methods of the class still to come
    outcome,        \* how the body of the test ended
    failures,       \* the local of run_single_test, summed over the methods
    done,           \* tests and methods run
    currEnv,        \* the Env the runner knows
    servers,        \* the server of each envRunner
    created,        \* how many envRunners were created
    testsFailed,    \* the names in the summary
    troubled,       \* history: tests in which something went wrong
    checkFailed,    \* history: an assertion failed in this method
    envs            \* history: the Envs of this test: none, one made by
                    \* the __init__ of its class, or any others

place == <<todo, phase, cur, method, rest>>
result == <<outcome, failures, done>>
history == <<troubled, checkFailed, envs>>
vars == <<args, place, result, currEnv, servers, created, testsFailed, history>>

TypeOK ==
    /\ args \in OptionsType
    /\ todo \subseteq Tests
    /\ phase \in {"idle", "factory", "init", "body", "teardown", "count",
                  "methods", "guard", "unwind", "done", "aborted"}
    /\ cur \in Tests \cup {None}
    /\ phase \notin {"idle", "done", "aborted"} => cur \in Tests
    /\ method \in Names
    /\ rest \subseteq Methods
    /\ rest # {} => cur \in Classes
    /\ outcome \in {"passed", "skipped", "raised"}
    /\ failures \in Nat /\ done \in Nat
    /\ currEnv \in EnvType \cup {None}
    /\ servers \in [Servers -> ServerType]
    /\ created \in 0..MaxServers
    /\ testsFailed \subseteq Names
    /\ troubled \subseteq Tests
    /\ checkFailed \in BOOLEAN
    /\ envs \in {"none", "init", "other"}

Init ==
    /\ args \in Options
    /\ todo = Tests
    /\ phase = "idle"
    /\ cur = None
    /\ method = EnvDtor
    /\ rest = {}
    /\ outcome = "passed"
    /\ failures = 0 /\ done = 0
    /\ currEnv = None
    /\ servers = [s \in Servers |-> Fresh]
    /\ created = 0
    /\ testsFailed = {}
    /\ troubled = {}
    /\ checkFailed = FALSE
    /\ envs = "none"

-----------------------------------------------------------------------------
requireCleanExit == args.useValgrind \/ args.checkExitCode

\* The runner enters failures of the current test, or sees it in trouble.
Fails(names) == testsFailed' = testsFailed \cup names
InTrouble == troubled' = troubled \cup {cur}

\* What the servers may be once the one of currEnv is stopped.
EnvStopped ==
    {[servers EXCEPT ![currEnv.server] = sv] :
        sv \in Stopped(servers[currEnv.server])}

\* The end of Env.__init__: currEnv is only replaced if start() returns.  If
\* it raises the server is left "starting": a process that does not answer, or
\* the shards of a cluster that does not agree (redis_cluster.py:149-170), may
\* be alive, and no Env the runner knows will stop them.
Constructed(s, after, ok) ==
    /\ ok <=> after[s].proc # "starting"
    /\ servers' = after
    /\ currEnv' = IF ok THEN [name |-> Name(cur, "self"), failed |-> 0,
                              server |-> s]
                  ELSE currEnv
    /\ envs' = IF envs = "none" /\ phase = "init" THEN "init" ELSE "other"

\* Fault: the Env that is replaced keeps its server.
MakeEnvBeside(ok) ==
    /\ created < MaxServers
    /\ created' = created + 1
    /\ \E sv \in Started(servers[created + 1]) :
          Constructed(created + 1, [servers EXCEPT ![created + 1] = sv], ok)

\* Env.__init__: an Env with the parameters of currEnv takes over its server
\* (unless freshEnv); any other Env stops that server and gets its own.
MakeEnv(ok) ==
    \/ /\ currEnv # None
       /\ \E sv \in Started(servers[currEnv.server]) :
             Constructed(currEnv.server,
                         [servers EXCEPT ![currEnv.server] = sv], ok)
       /\ UNCHANGED created
    \/ /\ created < MaxServers
       /\ created' = created + 1
       /\ \E before \in IF currEnv = None THEN {servers} ELSE EnvStopped,
             sv \in Started(servers[created + 1]) :
                Constructed(created + 1,
                            [before EXCEPT ![created + 1] = sv], ok)

\* takeEnvDown: under --env-reuse currEnv is kept if it can be flushed.  A
\* dirty exit is entered under the name the Env bears, and raises under
\* --check-exitcode.  next is where the control goes, raising where it goes then.
KeepsEnv(full) ==
    /\ args.envReuse /\ ~full
    /\ servers[currEnv.server].proc \in {"running", "starting"}
    /\ UNCHANGED <<currEnv, servers, testsFailed, troubled>>

\* Fault: the Env is stopped and stays currEnv.
StopsEnvOnly(full, next, raising) ==
    /\ servers' \in EnvStopped
    /\ phase' = next
    /\ UNCHANGED <<currEnv, testsFailed, troubled>>

\* Fault: whether the server could be flushed is not looked at.
StopsEnvByExitCode(full, next, raising) ==
    \E after \in EnvStopped :
       LET dirty == ~after[currEnv.server].clean
           raises == dirty /\ args.checkExitCode
       IN  /\ servers' = after
           /\ testsFailed' = testsFailed
                 \cup (IF dirty /\ requireCleanExit THEN {currEnv.name} ELSE {})
           /\ troubled' = IF dirty THEN troubled \cup {currEnv.name.test}
                          ELSE troubled
           /\ currEnv' = IF raises THEN currEnv ELSE None
           /\ phase' = IF raises THEN raising ELSE next

StopsEnv(full, next, raising) ==
    \E after \in EnvStopped, flushed \in BOOLEAN :
       LET sv == servers[currEnv.server]
           reuseFailed == args.envReuse /\ ~full
           dirty == ~after[currEnv.server].clean \/ ~flushed
           raises == dirty /\ args.checkExitCode
       IN  /\ IF Up(sv) /\ ~reuseFailed THEN flushed => sv.proc = "running"
                                        ELSE flushed
           /\ servers' = after
           /\ testsFailed' = testsFailed
                 \cup (IF reuseFailed THEN {EnvDtor} ELSE {})
                 \cup (IF dirty /\ requireCleanExit THEN {currEnv.name} ELSE {})
           /\ troubled' = IF dirty \/ reuseFailed
                          THEN troubled \cup {currEnv.name.test} ELSE troubled
           /\ currEnv' = IF raises THEN currEnv ELSE None
           /\ phase' = IF raises THEN raising ELSE next

takeEnvDown(full, next, raising) ==
    \/ /\ currEnv = None
       /\ phase' = next
       /\ UNCHANGED <<currEnv, servers, testsFailed, troubled>>
    \/ currEnv # None /\ KeepsEnv(full) /\ phase' = next
    \/ currEnv # None /\ StopsEnv(full, next, raising)

-----------------------------------------------------------------------------
\* Fault: the sum of failures is kept from test to test.
PickTestAndAddUp ==
    /\ phase = "idle"
    /\ \E t \in todo :
          /\ cur' = t
          /\ todo' = todo \ {t}
          /\ method' = Name(t, "self")
          /\ rest' = IF t \in Classes THEN Methods ELSE {}
          /\ phase' \in IF t \in Classes THEN {"init"} ELSE {"factory", "body"}
    /\ checkFailed' = FALSE
    /\ envs' = "none"
    /\ UNCHANGED <<args, result, currEnv, servers, created, testsFailed,
                   troubled>>

\* Fault: the methods left are not those of the class at hand.
PickTestKeepMethods ==
    /\ phase = "idle"
    /\ \E t \in todo :
          /\ cur' = t
          /\ todo' = todo \ {t}
          /\ method' = Name(t, "self")
          /\ rest' = Methods
          /\ phase' \in IF t \in Classes THEN {"init"} ELSE {"factory", "body"}
    /\ failures' = 0
    /\ checkFailed' = FALSE
    /\ envs' = "none"
    /\ UNCHANGED <<args, outcome, done, currEnv, servers, created,
                   testsFailed, troubled>>

\* The next job: run_single_test begins, a function that takes env has it made
\* by the runner.
PickTest ==
    /\ phase = "idle"
    /\ \E t \in todo :
          /\ cur' = t
          /\ todo' = todo \ {t}
          /\ method' = Name(t, "self")
          /\ rest' = IF t \in Classes THEN Methods ELSE {}
          /\ phase' \in IF t \in Classes THEN {"init"} ELSE {"factory", "body"}
    /\ failures' = 0
    /\ checkFailed' = FALSE
    /\ envs' = "none"
    /\ UNCHANGED <<args, outcome, done, currEnv, servers, created,
                   testsFailed, troubled>>

\* Defaults.env_factory before a function: if it raises the test has failed
\* and _runTest returns 0.
Factory ==
    /\ phase = "factory"
    /\ \E ok \in BOOLEAN :
          /\ MakeEnv(ok)
          /\ phase' = IF ok THEN "body" ELSE "methods"
          /\ Fails(IF ok THEN {} ELSE {method})
          /\ troubled' = IF ok THEN troubled ELSE troubled \cup {cur}
          /\ done' = IF ok THEN done ELSE done + 1
          /\ outcome' = IF ok THEN outcome ELSE "raised"
    /\ UNCHANGED <<args, todo, cur, method, rest, failures, checkFailed>>

\* What a test may do, in __init__, in setUp and its own code, or in tearDown.
InTest == phase \in {"init", "body", "teardown"}

\* It makes an Env; if that raises the test may catch the exception.
TestMakesEnv ==
    /\ InTest
    /\ \E ok \in BOOLEAN :
          /\ MakeEnv(ok)
          /\ troubled' = IF ok THEN troubled ELSE troubled \cup {cur}
    /\ UNCHANGED <<args, place, result, testsFailed, checkFailed>>

\* _assertion: it fails on currEnv.
CheckFails ==
    /\ InTest
    /\ currEnv # None
    /\ ~args.exitOnFailure
    /\ currEnv.failed < MaxChecks
    /\ currEnv' = [currEnv EXCEPT !.failed = @ + 1]
    /\ checkFailed' = TRUE
    /\ InTrouble
    /\ UNCHANGED <<args, place, result, servers, created, testsFailed, envs>>

\* env.stop() and env.start().
TestStopsEnv ==
    /\ InTest
    /\ currEnv # None
    /\ servers' \in EnvStopped
    /\ UNCHANGED <<args, place, result, currEnv, created, testsFailed, history>>

TestStartsEnv ==
    /\ InTest
    /\ currEnv # None
    /\ \E sv \in Started(servers[currEnv.server]) :
          servers' = [servers EXCEPT ![currEnv.server] = sv]
    /\ UNCHANGED <<args, place, result, currEnv, created, testsFailed, history>>

\* The server dies.
Crash ==
    /\ cur # None /\ phase \notin {"done", "aborted"}
    /\ \E s \in Servers :
          /\ servers[s].proc = "running"
          /\ servers' = [servers EXCEPT ![s].proc = "crashed"]
    /\ InTrouble
    /\ UNCHANGED <<args, place, result, currEnv, created, testsFailed,
                   checkFailed, envs>>

-----------------------------------------------------------------------------
\* The __init__ of a class returns, or skips the class.
InitEnds ==
    /\ phase = "init"
    /\ phase' \in {"methods", "guard"}
    /\ UNCHANGED <<args, todo, cur, method, rest, result, currEnv, servers,
                   created, testsFailed, history>>

\* It raises: the failure is entered under "[__init__]".
InitRaises ==
    /\ phase = "init"
    /\ phase' = "guard"
    /\ Fails({Name(cur, "init")})
    /\ InTrouble
    /\ UNCHANGED <<args, todo, cur, method, rest, result, currEnv, servers,
                   created, checkFailed, envs>>

NextMethod ==
    /\ phase = "methods"
    /\ \E m \in rest :
          /\ method' = Name(cur, m)
          /\ rest' = rest \ {m}
    /\ phase' = "body"
    /\ checkFailed' = FALSE
    /\ UNCHANGED <<args, todo, cur, result, currEnv, servers, created,
                   testsFailed, troubled, envs>>

\* The test returns or skips; tearDown follows.
BodyEnds ==
    /\ phase = "body"
    /\ outcome' \in {"passed", "skipped"}
    /\ phase' = "teardown"
    /\ UNCHANGED <<args, todo, cur, method, rest, failures, done, currEnv,
                   servers, created, testsFailed, history>>

\* It raises: the failure is entered before tearDown runs.
BodyRaises ==
    /\ phase = "body"
    /\ ~args.exitOnFailure
    /\ outcome' = "raised"
    /\ phase' = "teardown"
    /\ Fails({method})
    /\ InTrouble
    /\ UNCHANGED <<args, todo, cur, method, rest, failures, done, currEnv,
                   servers, created, checkFailed, envs>>

\* Under --exit-on-failure it takes the Env down and raises: after a failed
\* assertion, or if taking down raises, the tearDown of a class still runs.
ExitOnFailure ==
    /\ phase = "body"
    /\ args.exitOnFailure
    /\ outcome' = "raised"
    /\ LET last == IF cur \in Classes THEN "teardown" ELSE "unwind"
       IN  \E next \in {last, "unwind"} : takeEnvDown(TRUE, next, last)
    /\ UNCHANGED <<args, todo, cur, method, rest, failures, done, created,
                   checkFailed, envs>>

\* tearDown returns; after a skip _runTest has already returned 0.
TearDown ==
    /\ phase = "teardown"
    /\ phase' = CASE outcome = "skipped" -> "methods"
                  [] outcome = "raised" /\ args.exitOnFailure -> "unwind"
                  [] OTHER -> "count"
    /\ done' = IF outcome = "skipped" THEN done + 1 ELSE done
    /\ UNCHANGED <<args, todo, cur, method, rest, outcome, failures, currEnv,
                   servers, created, testsFailed, history>>

\* tearDown raises, in the finally clause: the exception leaves _runTest.
TearDownRaises ==
    /\ phase = "teardown"
    /\ cur \in Classes
    /\ phase' = "unwind"
    /\ InTrouble
    /\ UNCHANGED <<args, todo, cur, method, rest, result, currEnv, servers,
                   created, testsFailed, checkFailed, envs>>

\* The count of currEnv is held against what the methods before returned.
NewFailures ==
    IF currEnv = None THEN outcome # "raised"
    ELSE currEnv.failed > failures

Count ==
    /\ phase = "count"
    /\ Fails(IF NewFailures THEN {method} ELSE {})
    /\ troubled' = IF currEnv = None THEN troubled \cup {cur} ELSE troubled
    /\ failures' = failures + (IF currEnv = None THEN 0 ELSE currEnv.failed)
                            + (IF outcome = "raised" THEN 1 ELSE 0)
    /\ done' = done + 1
    /\ phase' = "methods"
    /\ UNCHANGED <<args, todo, cur, method, rest, outcome, currEnv, servers,
                   created, checkFailed, envs>>

\* All methods have run.  Verbose information is asked of an Env that a test
\* which raised early never made: the AttributeError ends the program.
EndTest ==
    /\ phase = "methods"
    /\ rest = {}
    /\ phase' = IF failures > 0 /\ args.verboseInfo /\ currEnv = None
                THEN "unwind" ELSE "guard"
    /\ UNCHANGED <<args, todo, cur, method, rest, result, currEnv, servers,
                   created, testsFailed, history>>

\* EnvScopeGuard, on the way to the next test or out of the program.
LeaveGuard ==
    /\ phase \in {"guard", "unwind"}
    /\ takeEnvDown(FALSE, IF phase = "guard" THEN "idle" ELSE "aborted", "aborted")
    /\ UNCHANGED <<args, todo, cur, method, rest, result, created, checkFailed,
                   envs>>

\* on_timeout: the server is killed, the test has failed, the process ends.
TimeOut ==
    /\ phase \notin {"idle", "done", "aborted"}
    /\ servers' = [s \in Servers |->
                     IF currEnv # None /\ s = currEnv.server
                          /\ servers[s].proc # "none"
                     THEN [servers[s] EXCEPT !.proc = "crashed"]
                     ELSE servers[s]]
    /\ Fails({Name(cur, "self")})
    /\ InTrouble
    /\ done' = done + 1
    /\ phase' = "aborted"
    /\ UNCHANGED <<args, todo, cur, method, rest, outcome, failures, currEnv,
                   created, checkFailed, envs>>

\* Fault: the last Env is taken down like any other.
FinishLikeAnyTest ==
    /\ phase = "idle"
    /\ todo = {}
    /\ takeEnvDown(FALSE, "done", "aborted")
    /\ UNCHANGED <<args, todo, cur, method, rest, result, created, checkFailed,
                   envs>>

\* The final takeEnvDown(fullShutDown=True).
Finish ==
    /\ phase = "idle"
    /\ todo = {}
    /\ takeEnvDown(TRUE, "done", "aborted")
    /\ UNCHANGED <<args, todo, cur, method, rest, result, created, checkFailed,
                   envs>>

Terminated == phase \in {"done", "aborted"} /\ UNCHANGED vars

Test == TestMakesEnv \/ CheckFails \/ TestStopsEnv \/ TestStartsEnv

RunSingleTest ==
    \/ PickTest \/ Factory
    \/ InitEnds \/ InitRaises \/ NextMethod
    \/ BodyEnds \/ BodyRaises \/ ExitOnFailure
    \/ TearDown \/ TearDownRaises \/ Count \/ EndTest \/ LeaveGuard
    \/ Finish

Next == RunSingleTest \/ Test \/ Crash \/ TimeOut \/ Terminated

Spec == Init /\ [][Next]_vars

-----------------------------------------------------------------------------
\* A class or function with a failed assertion on its current Env is not all
\* green: whatever the sum over earlier methods, some name of it is entered
\* (767-773, 788-790, 870-871).
GreenMeansNoFailure ==
    [][phase = "count" /\ phase' = "methods" /\ currEnv # None =>
          (currEnv.failed > 0 => \E n \in testsFailed' : n.test = cur)]_vars

\* Without --env-reuse no test is blamed for another's failures: a test is in
\* the summary only if an assertion, an exception, its server or the lack of
\* an Env gave it trouble, although failures are read from a shared currEnv.
NoFalseBlame ==
    ~args.envReuse => \A n \in testsFailed : n.test \in troubled

\* However Envs replace each other, a server is the one of currEnv, or has
\* been stopped, or is left of a start that raised: so taking currEnv down
\* stops every server but those whose start was never confirmed, which nobody
\* stops (269-287, 604-631).
OnlyCurrentEnvRuns ==
    \A s \in Servers :
        servers[s].proc \in {"running", "crashed"} =>
            currEnv # None /\ currEnv.server = s

\* No server outlives the run and, without --env-reuse, none outlives its
\* test (but one whose start was never confirmed).
NothingLeftRunning ==
    phase = "done" \/ (phase = "idle" /\ ~args.envReuse) =>
        /\ currEnv = None
        /\ \A s \in Servers : ~Up(servers[s])

\* A server found dead when its Env is taken down is reported whenever the run
\* requires a clean exit, under the Env's name or as '[env dtor]', although
\* the exit code on record may be that of an earlier process.
CrashesAreReported ==
    [][ currEnv # None /\ currEnv' = None /\ requireCleanExit
          /\ servers[currEnv.server].proc = "crashed"
        => {currEnv.name, EnvDtor} \cap testsFailed' # {} ]_vars

\* README.md:219-222, 235: the methods of a class share one Env, and each
\* check in them is a check: the method that fails it is a failed test.
SubtestFailureReported ==
    phase = "methods" /\ method.part \in Methods /\ envs = "init"
      /\ checkFailed /\ outcome # "skipped"
    => method \in testsFailed

\* __main__.py:1066: "Total Tests Passed" is the number of tests run less the
\* number of names in the summary.
TotalsAddUp == phase = "done" => Cardinality(testsFailed) <= done
=============================================================================
