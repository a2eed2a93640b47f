--------------------------- MODULE ParallelRunner ---------------------------
(***************************************************************************)
(* RLTest.execute with --parallelism > 1: a coordinator puts the loaded    *)
(* tests on the queue jobs, forks one worker process for each degree of    *)
(* parallelism, and collects from the queue results one message for each   *)
(* test and one shutdown message for each worker.                          *)
(*                                                                         *)
(* results is a multiprocessing.Queue: put() appends to a buffer of the    *)
(* sending process, whose feeder thread pickles each message and writes it *)
(* to a bounded pipe under a lock that all senders share.  A message is    *)
(* therefore read from the worker's memory some time after it was put, and *)
(* a process only ends once its buffer is empty.                           *)
(***************************************************************************)
EXTENDS Naturals, Sequences, FiniteSets

CONSTANTS
    Tests,          \* the loaded tests (functions and classes): the jobs
    Workers,        \* the worker processes, as many as --parallelism
    None,           \* stands for "no test" and "no process"
    PipeCapacity,   \* messages the pipe of results holds before writes block
    Options,        \* the command lines considered, see OptionsType
    GetMayExpire,   \* jobs.get(timeout=0.1) may expire while a job is queued
    MaxTimeouts,    \* bound on tests cut short by --test-timeout
    MaxCrashes,     \* bound on exceptions that leave run_single_test
    MaxKills        \* bound on workers killed from outside

\* --env-reuse, --use-valgrind and --check-exitcode.
OptionsType ==
    [envReuse : BOOLEAN, useValgrind : BOOLEAN, checkExitCode : BOOLEAN]

ASSUME ParallelAssumption ==
    /\ IsFiniteSet(Tests)
    /\ IsFiniteSet(Workers)
    /\ Workers # {}
    /\ Tests \cap Workers = {}
    /\ None \notin Tests \cup Workers
    /\ PipeCapacity \in Nat \ {0}
    /\ Options \subseteq OptionsType
    /\ GetMayExpire \in BOOLEAN
    /\ {MaxTimeouts, MaxCrashes, MaxKills} \subseteq Nat

Reasons == {"failure", "timeout", "dirty"}

\* A failure dictionary: the reasons under each test's name, none if absent.
Dict == [Tests -> SUBSET Reasons]
NoFailures == [x \in Tests |-> {}]

\* The message of a test bears the test's name, a shutdown message its
\* worker's.  One dictionary is bound for each: they share these names.
Ids == Tests \cup Workers

VARIABLES
    args,           \* the command line of this run
    jobs,           \* the tests still queued
    pc,             \* of a worker: get, run, stop, exiting, dead
    cur,            \* the test a worker has taken
    env,            \* the test whose Env is the worker's currEnv
    dict,           \* the dictionary the worker's testsFailed is bound to
    heap,           \* the contents of every dictionary
    buffer,         \* messages a worker has put and not yet written
    wlock,          \* the worker that holds the write lock of results
    pipe,           \* pickled messages not yet read
    coord,          \* coordinator: get, check, join, done, error
    received,       \* index of the coordinator's bounded loop
    testsFailed,    \* the coordinator's cumulative dictionary
    timeouts, crashes, kills,   \* how often each happened, for the bounds
    reported,       \* history: the messages the coordinator has read
    recorded        \* history: the failures each message was put with

workerVars == <<pc, cur, env, dict, heap>>
queueVars == <<buffer, wlock, pipe>>
coordVars == <<coord, received, testsFailed, reported>>
counters == <<timeouts, crashes, kills>>
vars == <<args, jobs, workerVars, queueVars, coordVars, counters, recorded>>

\* A message as it is put, and as it is written: pickled.
Messages == [id : Ids, dict : Ids]
Packets == [id : Ids, failures : Dict]

Message(i, d) == [id |-> i, dict |-> d]
Packet(m) == [id |-> m.id, failures |-> heap[m.dict]]

TypeOK ==
    /\ args \in OptionsType
    /\ jobs \subseteq Tests
    /\ pc \in [Workers -> {"get", "run", "stop", "exiting", "dead"}]
    /\ cur \in [Workers -> Tests \cup {None}]
    /\ \A w \in Workers : pc[w] = "run" => cur[w] \in Tests
    /\ env \in [Workers -> Tests \cup {None}]
    /\ dict \in [Workers -> Ids]
    /\ heap \in [Ids -> Dict]
    /\ buffer \in [Workers -> Seq(Messages)]
    /\ wlock \in Workers \cup {None}
    /\ pipe \in Seq(Packets)
    /\ coord \in {"get", "check", "join", "done", "error"}
    /\ received \in Nat
    /\ testsFailed \in Dict
    /\ timeouts \in Nat /\ crashes \in Nat /\ kills \in Nat
    /\ reported \subseteq Ids
    /\ recorded \in [Ids -> Dict]

Init ==
    /\ args \in Options
    /\ jobs = Tests
    /\ pc = [w \in Workers |-> "get"]
    /\ cur = [w \in Workers |-> None]
    /\ env = [w \in Workers |-> None]
    /\ dict = [w \in Workers |-> w]
    /\ heap = [i \in Ids |-> NoFailures]
    /\ buffer = [w \in Workers |-> <<>>]
    /\ wlock = None
    /\ pipe = <<>>
    /\ coord = "get"
    /\ received = 0
    /\ testsFailed = NoFailures
    /\ timeouts = 0 /\ crashes = 0 /\ kills = 0
    /\ reported = {}
    /\ recorded = [i \in Ids |-> NoFailures]

-----------------------------------------------------------------------------
\* addFailure: the reason goes under a name of dictionary d.
Added(f, name, why) ==
    [x \in Tests |-> IF x = name THEN f[x] \cup why ELSE f[x]]

\* Fault: the coordinator keeps only the failures of the last message.
UpdatedByLast(f, g) == g

\* dict.update: a name of g replaces the same name of f.
Updated(f, g) == [x \in Tests |-> IF g[x] # {} THEN g[x] ELSE f[x]]

\* Without --check-exitcode a dirty exit is recorded, with it takeEnvDown
\* raises.
RecordsDirtyExit == args.useValgrind /\ ~args.checkExitCode

\* Fault: the worker's only dictionary is emptied instead of being replaced.
RebindInPlace(w, d) ==
    /\ dict' = dict
    /\ heap' = [heap EXCEPT ![dict[w]] = NoFailures]

\* self.testsFailed = {}: a new dictionary, the old one is left as it is.
Rebind(w, d) ==
    /\ dict' = [dict EXCEPT ![w] = d]
    /\ heap' = [heap EXCEPT ![d] = NoFailures]

\* Worker w enters failures f in its dictionary and puts messages ms, the
\* first of which carries that dictionary.
Ship(w, f, ms) ==
    /\ heap' = [heap EXCEPT ![dict[w]] = f]
    /\ buffer' = [buffer EXCEPT ![w] = @ \o ms]
    /\ recorded' = [recorded EXCEPT ![ms[1].id] = f]

\* Fault: a job is looked at and left on the queue.
GetJobAndLeaveIt(w) ==
    /\ pc[w] = "get"
    /\ \E t \in jobs : cur' = [cur EXCEPT ![w] = t] /\ Rebind(w, t)
    /\ pc' = [pc EXCEPT ![w] = "run"]
    /\ UNCHANGED <<args, jobs, env, queueVars, coordVars, counters, recorded>>

\* Fault: the job taken is not bound.
GetJobUnbound(w) ==
    /\ pc[w] = "get"
    /\ \E t \in jobs : jobs' = jobs \ {t} /\ Rebind(w, t)
    /\ pc' = [pc EXCEPT ![w] = "run"]
    /\ UNCHANGED <<args, cur, env, queueVars, coordVars, counters, recorded>>

GetJob(w) ==
    /\ pc[w] = "get"
    /\ \E t \in jobs :
          /\ jobs' = jobs \ {t}
          /\ cur' = [cur EXCEPT ![w] = t]
          /\ Rebind(w, t)
    /\ pc' = [pc EXCEPT ![w] = "run"]
    /\ UNCHANGED <<args, env, queueVars, coordVars, counters, recorded>>

\* jobs.get raised Empty: the worker leaves its loop.
NoJob(w) ==
    /\ pc[w] = "get"
    /\ jobs = {} \/ GetMayExpire
    /\ pc' = [pc EXCEPT ![w] = "stop"]
    /\ dict' = [dict EXCEPT ![w] = w]
    /\ heap' = [heap EXCEPT ![w] = NoFailures]
    /\ UNCHANGED <<args, jobs, cur, env, queueVars, coordVars, counters, recorded>>

\* run_single_test returned.  The test may have created an Env, which then
\* bears its name; the guard takes the Env down, or only flushes it under
\* --env-reuse (a flush that raises counts as a failure of this test).  A
\* dirty exit is recorded under the name the Env bears.
FinishTest(w) ==
    /\ pc[w] = "run"
    /\ \E failed, created, down, dirty \in BOOLEAN :
          LET e == IF created THEN cur[w] ELSE env[w]
              f == Added(heap[dict[w]], cur[w],
                         IF failed THEN {"failure"} ELSE {})
          IN  /\ down => e # None
              /\ ~args.envReuse /\ e # None => down
              /\ args.envReuse /\ down => failed
              /\ dirty => down /\ RecordsDirtyExit
              /\ Ship(w, IF dirty THEN Added(f, e, {"dirty"}) ELSE f,
                      <<Message(cur[w], dict[w])>>)
              /\ env' = [env EXCEPT ![w] = IF down THEN None ELSE e]
    /\ pc' = [pc EXCEPT ![w] = "get"]
    /\ UNCHANGED <<args, jobs, cur, dict, wlock, pipe, coordVars, counters>>

\* An exception leaves run_single_test (--exit-on-failure, 'Process exited
\* dirty' under --check-exitcode, SystemExit in a test): nothing is put.
CrashTest(w) ==
    /\ pc[w] = "run"
    /\ crashes < MaxCrashes
    /\ crashes' = crashes + 1
    /\ pc' = [pc EXCEPT ![w] = "exiting"]
    /\ UNCHANGED <<args, jobs, cur, env, dict, heap, queueVars, coordVars,
                   timeouts, kills, recorded>>

\* Fault: on_timeout puts the shutdown message only.
TimeoutWithoutResult(w) ==
    /\ pc[w] = "run"
    /\ timeouts < MaxTimeouts
    /\ timeouts' = timeouts + 1
    /\ Ship(w, Added(heap[dict[w]], cur[w], {"timeout"}), <<Message(w, w)>>)
    /\ pc' = [pc EXCEPT ![w] = "exiting"]
    /\ UNCHANGED <<args, jobs, cur, env, dict, wlock, pipe, coordVars,
                   crashes, kills>>

\* Fault: the worker outlives on_timeout and shuts down a second time.
TimeoutThenShutdown(w) ==
    /\ pc[w] = "run"
    /\ timeouts < MaxTimeouts
    /\ timeouts' = timeouts + 1
    /\ Ship(w, Added(heap[dict[w]], cur[w], {"timeout"}),
            <<Message(cur[w], dict[w]), Message(w, w)>>)
    /\ pc' = [pc EXCEPT ![w] = "stop"]
    /\ UNCHANGED <<args, jobs, cur, env, dict, wlock, pipe, coordVars,
                   crashes, kills>>

\* The watcher's on_timeout, then join_thread and os._exit: the result and
\* the shutdown message are put together, the latter with a literal {}.
Timeout(w) ==
    /\ pc[w] = "run"
    /\ timeouts < MaxTimeouts
    /\ timeouts' = timeouts + 1
    /\ \E why \in {{"timeout"}, {"failure", "timeout"}} :
          Ship(w, Added(heap[dict[w]], cur[w], why),
               <<Message(cur[w], dict[w]), Message(w, w)>>)
    /\ pc' = [pc EXCEPT ![w] = "exiting"]
    /\ UNCHANGED <<args, jobs, cur, env, dict, wlock, pipe, coordVars,
                   crashes, kills>>

\* The final takeEnvDown(fullShutDown=True) and the shutdown message.
Shutdown(w) ==
    /\ pc[w] = "stop"
    /\ \E dirty \in BOOLEAN :
          /\ dirty => env[w] # None /\ RecordsDirtyExit
          /\ Ship(w, IF dirty THEN Added(heap[dict[w]], env[w], {"dirty"})
                              ELSE heap[dict[w]],
                  <<Message(w, dict[w])>>)
    /\ env' = [env EXCEPT ![w] = None]
    /\ pc' = [pc EXCEPT ![w] = "exiting"]
    /\ UNCHANGED <<args, jobs, cur, dict, wlock, pipe, coordVars, counters>>

\* takeEnvDown raises 'Process exited dirty' before the message is put.
ShutdownRaises(w) ==
    /\ pc[w] = "stop"
    /\ env[w] # None
    /\ args.checkExitCode
    /\ pc' = [pc EXCEPT ![w] = "exiting"]
    /\ UNCHANGED <<args, jobs, cur, env, dict, heap, queueVars, coordVars,
                   counters, recorded>>

-----------------------------------------------------------------------------
\* The feeder thread of w takes the write lock of results ...
LockPipe(w) ==
    /\ pc[w] # "dead"
    /\ buffer[w] # <<>>
    /\ wlock = None
    /\ wlock' = w
    /\ UNCHANGED <<args, jobs, workerVars, buffer, pipe, coordVars, counters,
                   recorded>>

\* ... and writes its oldest message as soon as the pipe has room.
WritePipe(w) ==
    /\ pc[w] # "dead"
    /\ wlock = w
    /\ Len(pipe) < PipeCapacity
    /\ pipe' = Append(pipe, Packet(Head(buffer[w])))
    /\ buffer' = [buffer EXCEPT ![w] = Tail(@)]
    /\ wlock' = None
    /\ UNCHANGED <<args, jobs, workerVars, coordVars, counters, recorded>>

\* A process ends after its feeder thread has been joined.
ExitProcess(w) ==
    /\ pc[w] = "exiting"
    /\ buffer[w] = <<>>
    /\ pc' = [pc EXCEPT ![w] = "dead"]
    /\ UNCHANGED <<args, jobs, cur, env, dict, heap, queueVars, coordVars,
                   counters, recorded>>

\* The process is killed: its buffer is lost, the lock it holds stays held.
Kill(w) ==
    /\ pc[w] # "dead"
    /\ kills < MaxKills
    /\ kills' = kills + 1
    /\ pc' = [pc EXCEPT ![w] = "dead"]
    /\ buffer' = [buffer EXCEPT ![w] = <<>>]
    /\ UNCHANGED <<args, jobs, cur, env, dict, heap, wlock, pipe, coordVars,
                   timeouts, crashes, recorded>>

-----------------------------------------------------------------------------
\* Fault: the shutdown messages are not counted.
TotalOfTests == Cardinality(Tests)

Total == Cardinality(Tests) + Cardinality(Workers)

Receive ==
    /\ coord = "get"
    /\ pipe # <<>>
    /\ testsFailed' = Updated(testsFailed, Head(pipe).failures)
    /\ reported' = reported \cup {Head(pipe).id}
    /\ received' = received + 1
    /\ coord' = IF received + 1 = Total THEN "join" ELSE "get"
    /\ pipe' = Tail(pipe)
    /\ UNCHANGED <<args, jobs, workerVars, buffer, wlock, counters, recorded>>

\* results.get(timeout=1) raised Empty ...
GetExpires ==
    /\ coord = "get"
    /\ pipe = <<>>
    /\ coord' = "check"
    /\ UNCHANGED <<args, jobs, workerVars, queueVars, received, testsFailed,
                   reported, counters, recorded>>

\* Fault: nobody looks whether a worker is still alive.
CheckNobody ==
    /\ coord = "check"
    /\ coord' = "get"
    /\ UNCHANGED <<args, jobs, workerVars, queueVars, received, testsFailed,
                   reported, counters, recorded>>

\* ... and only then the processes are asked whether they live.
CheckAlive ==
    /\ coord = "check"
    /\ coord' = IF \E w \in Workers : pc[w] # "dead" THEN "get" ELSE "error"
    /\ UNCHANGED <<args, jobs, workerVars, queueVars, received, testsFailed,
                   reported, counters, recorded>>

JoinAll ==
    /\ coord = "join"
    /\ \A w \in Workers : pc[w] = "dead"
    /\ coord' = "done"
    /\ UNCHANGED <<args, jobs, workerVars, queueVars, received, testsFailed,
                   reported, counters, recorded>>

Ended == coord \in {"done", "error"}

\* The program is over: nothing happens any more.
Terminated == Ended /\ UNCHANGED vars

Work(w) ==
    \/ GetJob(w) \/ NoJob(w)
    \/ FinishTest(w) \/ CrashTest(w) \/ Timeout(w)
    \/ Shutdown(w) \/ ShutdownRaises(w)
    \/ ExitProcess(w)

Feed(w) == LockPipe(w) \/ WritePipe(w)

Coordinate == Receive \/ GetExpires \/ CheckAlive \/ JoinAll

Next ==
    \/ \E w \in Workers : Work(w) \/ Feed(w) \/ Kill(w)
    \/ Coordinate
    \/ Terminated

\* Every process and feeder thread is scheduled; a test that is running
\* returns, raises or is cut short.
Fairness ==
    /\ \A w \in Workers : WF_vars(Work(w)) /\ WF_vars(Feed(w))
    /\ WF_vars(Coordinate)

Spec == Init /\ [][Next]_vars /\ Fairness

-----------------------------------------------------------------------------
Ranged(seq) == {seq[i].id : i \in DOMAIN seq}

\* A worker that can put no further message.
Finished(w) == pc[w] \in {"exiting", "dead"}

\* Message i is in some buffer, in the pipe or with the coordinator.
Shipped(i) ==
    \/ \E w \in Workers : i \in Ranged(buffer[w])
    \/ i \in Ranged(pipe)
    \/ i \in reported

\* The coordinator prints its summary only after every test and every worker
\* has reported, and the summary names exactly the tests under whose name a
\* worker recorded a failure: none is lost on the way, though a message is
\* pickled after its worker went on to the next test (974, 1046-1053).
SummaryIsComplete ==
    coord = "done" =>
        /\ reported = Ids
        /\ \A x \in Tests :
              testsFailed[x] # {} <=> \E i \in Ids : recorded[i][x] # {}

\* When the coordinator stops reading and joins the workers, no message is
\* left in a buffer or in the pipe, so no worker it waits for can block on a
\* full pipe (the hang tests/unit/test_parallel_drain.py guards against).
JoinIsSafe ==
    coord \in {"join", "done"} =>
        /\ pipe = <<>>
        /\ \A w \in Workers : Finished(w) /\ buffer[w] = <<>>

\* No message is counted twice: the coordinator's loop index is the number of
\* different messages it has read, whatever died, timed out or was late.
CountsEachMessageOnce == received = Cardinality(reported)

\* A job taken from the queue is running or its result is on its way, unless
\* a worker crashed or was killed: a timeout, a late put or the end of the
\* worker's loop loses no result.
NoJobVanishes ==
    \A t \in Tests \ jobs :
        \/ Shipped(t)
        \/ \E w \in Workers : pc[w] = "run" /\ cur[w] = t
        \/ crashes + kills > 0

\* A failure in the coordinator's dictionary stays there, and the loop index
\* never moves once the run is over.
FailuresStay ==
    [][ /\ \A x \in Tests : testsFailed[x] # {} => testsFailed'[x] # {}
        /\ Ended => UNCHANGED received ]_vars

\* The program ends: with every worker scheduled and every test ending, the
\* coordinator prints its summary or raises, whatever tests time out or
\* crash, and never waits for a message that cannot come (1037-1057).
RunEnds == <>Ended

\* What the user of a parallel run is promised.
Ledger == INSTANCE TestLedger WITH
    status <- [t \in Tests |-> IF t \in reported THEN "reported"
                               ELSE IF t \in jobs THEN "queued"
                               ELSE "running"],
    failing <- {x \in Tests : testsFailed[x] # {}},
    outcome <- CASE coord = "done" -> "summary"
                 [] coord = "error" -> "error"
                 [] OTHER -> "open"

\* Every run of the coordinator and its workers is a run of the ledger.
ImplementsLedger == Ledger!Spec

\* __main__.py:984-990: on_timeout ships both messages "so the coordinator's
\* bounded count of n_jobs + parallelism remains accurate".
CountRemainsAccurate ==
    (\A w \in Workers : Shipped(w)) => \A t \in Tests : Shipped(t)

\* __main__.py:1034-1036: the guard "turns a worker crash before it ships its
\* shutdown message into a clean error".
ErrorMeansCrash ==
    coord = "error" => \E i \in Ids : i \notin reported \cup Ranged(pipe)

\* __main__.py:1006-1009: "Always ship one shutdown message per worker", to
\* capture "failures raised during final shutdown".
AlwaysShipsShutdown ==
    \A w \in Workers : Finished(w) /\ dict[w] = w => Shipped(w)
=============================================================================
