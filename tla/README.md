# A TLA+ model of RLTest

RLTest runs test functions and classes written in python against redis servers
which it starts and stops itself. This directory models the parts of it that
decide what a run reports and what it leaves behind. Line numbers are those of
`src/RLTest/__main__.py` unless another file is named.

## 1. The system and its parts

| Part | State it keeps | Operations | What is hard about it |
|---|---|---|---|
| **Coordinator and workers** (`execute`, 912-1079) | queue `jobs`, queue `results`, each process's `testsFailed`, the bounded loop | take a job, run it, put its result, put a shutdown message, receive, look whether workers live, join | N processes and their feeder threads; late pickling; a bounded pipe; timeouts and crashes of workers |
| **Test time limit** (`TestTimeLimit`, 360-416) | `is_done`, `timeout_time`, `trace_printed`, a condition | enter, reset, leave, watch, signal, dispose | two threads and a signal handler in one process |
| **Test runner** (`run_single_test`, `_runTest`, `takeEnvDown`, 604-888) | `currEnv`, `testsFailed`, the sum of failures of a class | construct a class, run its methods, enter failures, take the Env down | failures are read from an Env that tests may replace; exceptions at every step |
| **Env** (`env.py`) | `envRunner`, `assertionFailedSummary` | construct, share or replace the Env before, start, stop, assert | reuse of servers, stale counts |
| **StandardEnv** (`redis_std.py`) | master and slave process, exit codes, `envIsUp`, `envIsHealthy` | start, stop, kill with SIGSEGV, flush, dump and reload | processes that die, hang or answer late; exit codes of earlier processes |
| **ClusterEnv** (`redis_cluster.py`) | the shards, `envIsUp`, `envIsHealthy`, `shardsCount` | start all, wait for agreement, add a shard, stop | partial failure over several shards |
| **Port registry** (`random_port.py`) | `/tmp/rltest_portfile.lock` | pick a port, register it | concurrent processes, a file that is rewritten in place |
| **Module arguments** (`utils.py` 75-213) | the lists they are given, which are shared | `fix_modules`, `fix_modulesArgs` | merging of defaults per module, for five shapes; lists that are changed in place |
| **Command line** (`RLTest.__init__`, 418-602) | `args`, the class `Defaults` | check the parameters, set the defaults | checks in an order of their own, before and after the defaults are set |
| Loader, debuggers, enterprise and existing environments, binary repository | see `PROJECT.json` | | not modelled, see section 8 |

They interact as follows. `execute` loads jobs and forks workers; a worker (or
the main process, without `--parallelism`) calls `run_single_test` for each
job, inside a `TestTimeLimit` and an `EnvScopeGuard`. The test constructs an
`Env`, which calls back into the runner (`Env.RTestInstance.currEnv`), starts a
`StandardEnv` or a `ClusterEnv` of several, and counts failed assertions. The
runner reads that count, enters names in `testsFailed` and takes the Env down.
The worker puts `testsFailed` on `results`; the coordinator merges it. If the
limit passes, the watcher thread does the end of all this by itself and ends
the process.

What makes each part correct:

* coordinator: it ends; its summary has every test's result exactly once and
  every failure; it never blocks on workers that wait for it;
* time limit: one verdict for each test, and no timeout of a test that is over
  or did not use up its limit; no use of the environment by two threads as long
  as the signal handler sleeps;
* runner: a test that failed is in the summary, one that did not is not; no
  server is left running; a dirty exit is reported when asked for;
* StandardEnv, ClusterEnv: no process that lives is out of reach of `stop()`,
  whatever failed before; a failed start of a cluster leaves nothing; a server
  that died is reported; slots have one owner, and so do ports that are given and
  not chosen; calls return;
* port registry: two live processes never hold the same port, and a call ends;
* command line, Env, module arguments: the servers a test gets are those it would
  get if it were the first (but for TLS, section 8), whichever test had them
  before, and no test changes the defaults of the next.

## 2. Modules

| Module | Models | Extends / uses |
|---|---|---|
| `TestLedger` | abstract: what a parallel run promises | |
| `ParallelRunner` | coordinator, workers, feeder threads, pipe | `INSTANCE TestLedger` |
| `MCParallelRunner` | instances for TLC | `ParallelRunner` |
| `ParallelRunnerProofs` | theorems and proofs, the refinement of `TestLedger` included | `ParallelRunner`, `TLAPS` |
| `TimeLimit` | main thread, watcher, handler, clock | |
| `TimeLimitProofs` | theorems and proofs | `TimeLimit`, `TLAPS` |
| `TestRunner` | one process running its tests: runner, Env, servers | |
| `MCTestRunner` | instances for TLC | `TestRunner` |
| `TestRunnerProofs` | theorems and proofs | `TestRunner`, `TLAPS` |
| `RedisServer` | one server as the runner sees it: its states, start, stop, crash | used by `TestRunner`, `ServerPromise`, `EnvRunner` |
| `ServerPromise` | abstract: how servers may change | `RedisServer` |
| `StandardEnv` | master and slave of one server: the outcomes of each call, as operators | |
| `EnvRunner` | one StandardEnv or a ClusterEnv of several, call by call, shard by shard | `StandardEnv`, `INSTANCE ServerPromise` |
| `MCEnvRunner` | instances for TLC | `EnvRunner` |
| `EnvRunnerProofs` | theorems and proofs | `EnvRunner`, `TLAPS` |
| `ServerPromiseProofs` | ports, and the refinement of `ServerPromise` | `EnvRunnerProofs` |
| `PortRegistry`, `PortRegistryProofs` | processes that ask for ports, the lock file; theorems | `TLAPS` |
| `ModuleArgs` | `fix_modules`, `fix_modulesArgs` as operators on sequences | |
| `Configuration` | command line, Defaults, one Env after the other | `ModuleArgs` |
| `MCConfiguration` | command lines and requests for TLC | `Configuration` |
| `FlattenProofs` | lemmas about `FlattenSeq`, by induction | `SequencesExt`, `TLAPS` |
| `ConfigurationProofs` | theorems and proofs | `Configuration`, `FlattenProofs` |

Operators whose comment begins with "Fault:" are plausible bugs of the
definition that follows. They are in no specification: each property of a
passing run is shown to fail when the definition is replaced by its fault (the
pairs are in `PROJECT.json`, `mutants`).

### ParallelRunner

One action for each step that another process can see.

| Action | Code |
|---|---|
| `GetJob`, `NoJob` | 965-974: a job, or the end of the loop when `jobs.get(timeout=0.1)` raises; with `GetMayExpire` also while jobs are queued. The tests are a set: which job comes next does not matter to any property |
| `FinishTest` | 1000-1004: `run_single_test` returns, the result is put. What may happen inside is reduced to what reaches the dictionary: the test failed or not, it made an Env or not, the Env is taken down (always without `--env-reuse`), and did so dirty or not. A failed flush under `--env-reuse`, entered by the code as `[env dtor]`, counts here as a failure of the test |
| `CrashTest` | an exception leaves `run_single_test`: 630, 752-758, or `SystemExit` |
| `Timeout` | 977-998: the two messages of `on_timeout`, then `os._exit` after `join_thread` |
| `Shutdown`, `ShutdownRaises` | 1010-1014, and 629-630 |
| `LockPipe`, `WritePipe` | the feeder thread of `multiprocessing.Queue`: the message is pickled when written, so it shows the dictionary as it is then. `dict` and `heap` keep "which dictionary" and "what is in it" apart for that reason |
| `ExitProcess` | a process joins its feeder thread before it ends |
| `Kill` | the process is killed: its unwritten messages are lost, the write lock stays held if it held it. A message torn by a kill in the middle of a write is left out |
| `Receive`, `GetExpires`, `CheckAlive`, `JoinAll` | 1037-1057. Expiry and the look at the processes are two steps, as in the code |

### TimeLimit

`main` and `watcher` are the program counters of the two threads, `lock` the
condition's lock, `remaining` the distance from `time.time()` to
`timeout_time` in ticks. `timeout_time` is not under the lock. `reset` calls
`time.time()` (`StartReset`) and then stores the deadline (`StoreDeadline`), so
that `fresh` ticks may pass in between; the watcher loads the deadline
(`LoadDeadline`; `seen` is the distance to what it has loaded) and then looks at
the clock (`WaitMore`, `Expire`). `DeliverSignal` runs the handler wherever the main
thread is; `resume` remembers where that was. `Leave` is short and done under
the lock, so it is one step. Time passes (`Tick`) while the main thread is in
the test; ticks in other places would change nothing. With `--test-timeout 0`
there is no watcher, hence `Limit > 0`. `age` and `overran` are history: the
time since the last `reset` and whether it ever reached the limit; so are `raced`
(a deadline was stored between the watcher's last load and its look at the clock)
and `woken` (the 1000 seconds of the handler's sleep were over).

### TestRunner

`phase` is where the control is in `run_single_test` and `_runTest`:

    idle -> init (class) -> methods -> body -> teardown -> count -> methods ...
         -> factory / body (function) ...           methods -> guard -> idle

`unwind` is an exception on its way out through `EnvScopeGuard`, `aborted` the
end of the program by an exception or a timeout. In `init`, `body` and
`teardown` the test's own code acts: it makes Envs (`TestMakesEnv`), fails
assertions on the current one (`CheckFails`), stops and starts it; servers
crash anywhere (`Crash`) and the limit may pass anywhere (`TimeOut`). The count
of failed assertions is in the Env, the sum in `failures`, exactly as the code
has them, and `Count` is the comparison of 767-790. Under `--exit-on-failure` a
failure takes the Env down and ends the run (`ExitOnFailure`): after a failed
assertion, or when taking down raises, the `tearDown` of a class still runs.

A server is `none`, `starting` (started, but `startEnv` raised before it
answered), `running` or `crashed` (dead, and nobody has noticed). What is
`starting` may be alive, a process that does not answer or the shards of a cluster
that does not agree; its Env never became `currEnv`, nobody stops it, and
`OnlyCurrentEnvRuns` and `NothingLeftRunning` do not speak of it. `clean` is
`masterExitCode == 0`; it survives a restart and a crash, as in the code. An
Env is kept under `--env-reuse` if its flush succeeds. Names in `testsFailed`
are records of a test and a part of it (`self`, `init`, a method);
`[env dtor]` belongs to no test. Assertions on an Env that has been replaced
are never read by the code and have no action. What a server does when it is
started, stopped or dies is in `RedisServer`, which section 4 connects with
`EnvRunner`.

### StandardEnv and EnvRunner

`StandardEnv` has no variables. Each call of `redis_std.py` is an operator that
gives the set of its outcomes: the env it leaves and whether it raised. A role
(master or slave) is a handle (`masterProcess`: none, serving, silent, dead), an
exit code, and two history fields: how the last process really ended, and how
many there were. A call that blocks for ever has no outcome.

`EnvRunner` makes one call after the other, as a test does. `call` holds which
one and the shard it is at; each shard is one step, and between two steps any
server may die (`Crash`) or fall silent (`FallSilent`: alive, it answers
nothing, SIGTERM included).

| Action | Code |
|---|---|
| `Start`, `StartShard`, `CleanUpShard` | `redis_cluster.py` 125-143, `redis_std.py` 361-403: a process answers, dies within its grace and is forgotten, or makes `waitForRedisToStart` raise; a cluster then stops all shards |
| `ConfigureShard` | `redis_cluster.py` 149-167: MEET raises for a dead shard; ADDSLOTS is refused by a node that knows of a slot already, and the error is only printed |
| `WaitSucceeds`, `WaitTimesOut` | `waitCluster`, 89-123: the timeout is looked at between rounds, so a silent shard blocks it |
| `Stop`, `StopShard` | `redis_cluster.py` 178-184, `redis_std.py` 446-527: a dead process is dropped with its exit code unread; a live one is asked and waited for, or killed after `terminateRetries` and polled at once |
| `SegFault`, `SegFaultShard` | `stopEnvWithSegFault`: handles and flags stay |
| `Reload`, `ReloadShard` | `dumpAndReload`, 257-264, of one shard or of all |
| `AddShard` | `addShardToCluster`, 236-252. One step: nobody else knows the new shard |

`lost` is history: a process that lives and whose handle was overwritten or
dropped. `Calls` bounds the number of calls.

### PortRegistry

Each process is in `get_random_port` (`choose`: pick and bind), waits for the
lock (`register`), or has read and truncated the file (`dump`); in between it
starts and stops servers on its ports, ends, or is killed anywhere. The lock
goes with its process, what was buffered is lost: the file is then empty, or
torn if part of it was flushed. `spoiled` is history: that happened. Pids are
not used again. A call that raised (no port found, or a file that `json.load`
cannot read) is the last one of its process.

### ModuleArgs and Configuration

A text of module arguments is a sequence of words, the separator and its escaped
form being words; an argument's first word is its key. Words that differ in case
only are one word, and separators stand between spaces: upper-casing and
stripping do nothing then. `FixModulesArgs` gives the arguments for each module,
how the call ended (returned, `sys.exit`, `IndexError`) and what it left of the
list of defaults it was lent. A list that was added for several modules is one
object, so what is merged into it is in all of them (`MergeByDict`). Filters are
written with `FlattenSeq`, which the proofs can reason about.

`Configuration` goes from a command line (`ParseCommandLine`, with the checks of
`__init__` in their order) to the `Defaults`, and from a test's request
(`NewEnv`: `Env.__init__`) to servers: parameters are resolved, compared with
the current Env (`CompareEnvs`) and either its servers are taken over or new
ones are made (`MayBeMade`: what the constructor of StandardEnv refuses).
`TakeEnvDown` is what the runner does between tests that share no Env. There
are many parameters and few ways to treat one: as a flag (`EitherSet`), with a
default if not given (`IfGiven`), compared or not, checked or not. The model has
one parameter for each way, all those that are checked, and all of the module
arguments.

## 3. Runs

| Run | Module, configuration | Result |
|---|---|---|
| `parallel_safety` | `MCParallelRunner`, `ParallelSafety.cfg` | `TypeOK`, `SummaryIsComplete`, `JoinIsSafe`, `CountsEachMessageOnce`, `NoJobVanishes` hold; 1.5 million states |
| `parallel_liveness` | `ParallelLiveness.cfg` | `RunEnds`, `FailuresStay` and the refinement `ImplementsLedger` hold |
| `all_time_out` | `AllTimeOut.cfg` | `CountRemainsAccurate` (comment 984-990) is violated |
| `late_answer` | `LateAnswer.cfg` | `ErrorMeansCrash` (comment 1034-1036) is violated |
| `dirty_shutdown` | `DirtyShutdown.cfg` | `AlwaysShipsShutdown` (comment 1006-1009) is violated |
| `time_limit` | `TimeLimit`, `TimeLimit.cfg` | `TypeOK`, `OneVerdict`, `TimeoutMeansOverrun`, `InterruptsInsideOnly`, `DisposesAlone`, `EveryTestEnds` hold |
| `runner_safety` | `MCTestRunner`, `RunnerSafety.cfg` | `TypeOK`, `NoFalseBlame`, `OnlyCurrentEnvRuns`, `NothingLeftRunning`, `GreenMeansNoFailure`, `CrashesAreReported` hold; 4.5 million states |
| `masked_failure` | `MaskedFailure.cfg` | `SubtestFailureReported` (README.md 219-235) is violated |
| `totals_negative` | `TotalsNegative.cfg` | `TotalsAddUp` (line 1066) is violated |
| `env_runner` | `MCEnvRunner`, `EnvRunner.cfg` | `TypeOK`, `NoProcessForgotten`, `FailedStartCleansUp`, `StopReachesAll`, `FirstCrashIsReported`, `PortsDistinct`, `SlotsPartitioned`, `CallsReturn`, `StopsReturn` and the refinement `ServersAsPromised` hold; 0.66 million states |
| `port_registry` | `PortRegistry`, `PortRegistry.cfg` | `TypeOK`, `RegistryKnowsOwners`, `PortsExclusive`, `CallsEnd` hold |
| `configuration` | `MCConfiguration`, `Configuration.cfg` | `TypeOK`, `ServersAsIfNew`, `ArgsReachModules`, `OneServerToDebug`, `DefaultsUntouched`, `SameSpecReuses` hold |

The five violations, in words:

* **all_time_out**: a worker that times out exits. If all do while jobs are
  queued, nobody runs the rest; the coordinator raises "Failed to get job
  result ..." and prints no summary, though each worker had shipped both
  messages that were meant to keep the count right.
* **late_answer**: the coordinator's `get` expires, then the last messages are
  written and the workers exit, then `is_alive` is asked: an error although
  all results are in the pipe.
* **dirty_shutdown**: with `--env-reuse --check-exitcode` a dirty exit of the
  last Env raises before the shutdown message, so its failure is lost and the
  coordinator raises instead of reporting it.
* **masked_failure**: two methods of a class share the Env of its `__init__`.
  The first raises, so the sum is 1. The second fails an assertion: the Env
  counts 1, which is not above the sum, and the method is printed as passed.
  Two methods, the first with one failed assertion and the second with none,
  mask the third in the same way.
* **totals_negative**: a class whose `__init__` raises adds a name to the
  failures and nothing to `done`.

### Bounds

* Workers 2 and tests 3: one worker may be late, stopped or dead while the
  other goes on, and a worker can take a second test while the message of its
  first is unwritten, with a third test queued. The liveness run has 2 tests.
* `PipeCapacity` 1: the second message already blocks.
* `MaxTimeouts` 2: both workers can time out, with a job left. `MaxCrashes` 1
  and `MaxKills` 1 happen in any state. Each bound is in the guard of the
  action it limits.
* `Limit` 3, `Subtests` 3: three subtests can use up more than one limit
  together and each less than it, and a reset can meet the watcher between load and
  comparison.
* Runner: one class with two methods and one function, in either order;
  2 servers, so that an Env can be replaced and a third Env share; at most 2
  failed assertions in an Env, since only comparisons of the count with the sum
  matter and the sum exceeds 2 with it.
* Symmetry of tests and of workers is used in the safety runs of
  `ParallelRunner` only: no property names one of them.
* `Options` restricts command lines: all eight in `parallel_safety`; in
  `runner_safety` the ones that differ in how an Env is taken down, and one
  each with `--exit-on-failure` and `--verbose-information-on-failure`.
* `EnvRunner`: clusters of 2 shards with room for a third, 5 hash slots (which 2
  does not divide, so that the ranges are rounded), one server that dies and one
  that falls silent in any state. `CallBounds`: a single server makes 4 calls
  (start, partial stop, start, stop), a cluster 3, one with slaves 2: a failed
  start and a second one, or a start, an addition and a stop. `terminateRetries`
  is set for clusters without slaves. Ports begin at 2 and are given:
  `--randomize-ports`, with which the shards begin with port 0, is left out.
* `PortRegistry`: 3 processes and 2 ports, so that somebody is refused and finds
  none; `MaxTries` 2 for the 10000 of the code; one process killed, in any state.
* `MCConfiguration`: every pair of switches on the command line, for a server and
  a cluster; each switch of a request for each kind of Env; two modules with
  arguments in every shape, from the line, the test, or both; and three modules on
  the line with five in a test, so that a list is shared. Sequences of
  requests have any length: the state is the current Env and its servers.
* Deadlock is not checked where the program really may stop: `EnvRunner` (calls
  are bounded, and a silent server blocks for ever), `PortRegistry` (all
  processes may be gone), `Configuration` (a command line may be refused).

### Fairness

`ParallelRunner`: weak fairness of each worker, each feeder thread and the
coordinator. Processes and threads are scheduled by the operating system, all
waits of the code are with a timeout or on one of these, and a running test
returns, raises or is cut short: that last assumption is what `TimeLimit`
shows for `--test-timeout` (`EveryTestEnds`), and what the user vouches for
otherwise. `parallel_liveness` has no kills: a worker killed while its feeder
holds the write lock leaves the others blocked for ever, a property of
`multiprocessing.Queue` (see hazards).

`TimeLimit`: weak fairness of the watcher, the clock and the delivery of the
signal, and of entering and of reporting. Nothing is assumed of the test. That
the signal is delivered fails for a main thread stuck in native code (line
391); this is listed as a hazard.

`EnvRunner`: weak fairness of `Work`, the next step of the call at hand: the
program goes on, and the waits of the code are loops with a sleep. Nothing is
assumed of servers. `CallsReturn` therefore excludes silent servers, and
`StopsReturn` shows that with `terminateRetries` a stop needs no such exception.

`PortRegistry`: weak fairness of the steps of each process in a call. That a
process waiting for `flock` gets it in the end needs no more: calls are bounded
by `MaxTries`, and nobody starts a new one for ever in the instance without also
letting go of the lock between two steps.

`TestLedger`: a run does not stay open for ever. `TestRunner` and
`Configuration` have no fairness; their properties are safety properties.

## 4. Abstract specification

`TestLedger` knows only the status of each test, the failing names and the
outcome. `ParallelRunner` implements it under the mapping in its last section:
a test is reported when the coordinator has read its message. The run checks
that every step of the detailed system is a step of the ledger or a stutter,
and that the ledger's liveness follows from the fairness above. `LedgerIsKept`
proves the first half, `TestLedger`'s `Safety`, for any number of tests and workers.

`ServerPromise` says how a server may change as `TestRunner` assumes it: it is
stopped and started, dies, or is left `starting` by a start that raised, by the
operators of `RedisServer` which `TestRunner` itself uses. `EnvRunner`
implements it (`ServersAsPromised`): each StandardEnv, seen through `Seen`, takes
only such steps, whatever is called on it or on its cluster. The mapping is for
environments without slaves (`TestRunner` has one process for each server);
those with slaves map to servers that do nothing. This is what makes the two
models one: what `TestRunner` shows holds of servers that behave as in
`EnvRunner`. `ServerPromise` states no fairness, so `PromiseIsKept` proves the whole
of this refinement, for any number of shards and calls.

## 5. Theorems

All are checked by `tlapm`, for every value of the constants that satisfies
the `ASSUME` of the module (`ParallelAssumption`: finitely many tests, at least
one worker, names kept apart; `TimeLimitAssumption`: a positive limit; `RunnerAssumption`:
finitely many tests and methods, names kept apart, positive bounds;
`NoneAssumption`, in two modules: None is not an Env, a request or a list;
`EnvRunnerAssumption`: at
least one shard and one slot; `PortAssumption`, `TornAssumption`, `WordsAssumption`,
`ConfigurationAssumption`: the types of the constants).

`ParallelRunnerProofs`:

1. `TypeCorrect`: `TypeOK`, with `LockHeld` (the write lock belongs to a worker
   that has something to write, or to a dead one). The lock is needed for the
   type of the pipe: `WritePipe` writes the head of a buffer.
2. `InvHolds`: the inductive invariant. `CountsEachMessageOnce` is not
   inductive: nothing in it says that the next message is new. `OnePlace` says
   that a message is in one place only (one buffer, the pipe, or read), and
   `NotYetPut` which messages a worker may still put, from its program counter
   and the queue; `LoopCount` ties the coordinator's state to its index.
3. `CountIsRight` and `JoinCannotBlock`: the loop ends with
   `n_jobs + parallelism` different messages, which are all there are; so none
   is in a buffer or in the pipe, and no worker can put another.
4. `SummaryIsRight`: by a second invariant, `Carried`: each message, wherever it
   is, carries what was recorded when it was put. In a buffer this needs that no
   worker writes to the dictionary again (`BindingRight`: a fresh dictionary for
   each message, line 974).
5. `NothingVanishes`: `NoJobVanishes` is inductive with `InvHolds`. The steps that
   move a message (`ShippedStays`) leave it in a buffer, in the pipe or read; the
   worker's steps put one for the job they end.
6. `FailuresRemain`: only `Receive` writes the coordinator's dictionary, and an
   update by another dictionary keeps the names it has (`UpdatedNames`).
7. `LedgerIsKept`: each action maps to a step of `TestLedger` or to a stutter
   (`LedgerStep`). That `Receive` of a test's message is `Report`, for a test not
   reported before, is `OnePlace`; that a printed summary is `Close` needs
   `CountsEachMessageOnce`; and that nothing is taken after the end needs `OverInv`:
   when the run is over all workers have ended.

`TimeLimitProofs`: `OneVerdictHolds`, `OverrunHolds`, `InterruptsInside` and
`DisposesSafely`, from one invariant: from its decision to time out the watcher
holds the lock to the end, `is_done` is set exactly when the main thread is out,
a pending signal or a running handler means a timeout, the deadline is the age of
the subtest, and what the watcher has loaded is the deadline unless `raced`
(`SeenIsDeadline`). `OverrunHolds` therefore has one exception, the reset between
load and comparison, and shows that it is the only one. `DisposesSafely` is about
all of the time the environment is taken down, not its beginning: what the handler
has told the watcher (`trace_printed`) stays true, so the main thread is asleep or
`woken`.

It also gives `TypeHolds`.

`TestRunnerProofs`: all five properties of the runner, and its types
(`TypeHolds`), from one invariant.

1. `OnlyCurrentRuns` is inductive with the types: an Env that is replaced stops
   its server before the next one starts, or hands it over. Servers whose start
   raised are `starting`, and the theorem is silent about them. `MadeEnv` and
   `TakenDown` say this once for the operators that several actions share.
2. `NothingIsLeft` adds `EnvGone`: there is no Env after the run, nor between
   tests that do not share one.
3. `FailuresAreSeen`: the count of an Env may not exceed the sum of the class,
   and then nothing new is entered. It holds because a positive sum already
   means a name (`FailuresBlamed`), for which a method that raised must have
   been entered before it is added. Under `--exit-on-failure` it is not entered, and
   its `tearDown` is followed by the end of the run instead of the sum.
4. `NobodyBlamedFalsely`: `ChecksAreTrouble`, a positive count of the current Env
   was made in the test at hand; it needs `EnvGone`, since otherwise the Env of
   the test before would bring its count along. This is what `--env-reuse` loses.
5. `DeadServersAreReported`: the only steps that lose an Env stop it, and a dead
   server cannot be flushed.

`EnvRunnerProofs`: for any number of shards, slots, calls and failures.

1. `TypeHolds`, with `EnvsInv`: what is known of every StandardEnv, carried
   through each operator by a lemma of its own (`StartEnvInv`, `StopEnvInv`, ...).
   It says that in a role's first life there is no exit code while there is a
   process, and no 0 after a bad end; so `CrashReported` follows at once.
2. `NothingForgotten`: `StartEnvInv` shows that a start never replaces a process
   that lives, and `AddShardStep` that a shard which is dropped was stopped.
3. `CleansUp` and `StopIsComplete`: by `DownInv`, the shards a loop has passed are
   down and stay down although servers die meanwhile (`Hurts`).
4. `SlotsAreServed`: by `SlotInv`, a shard has no slots or the ones of its range;
   the ranges are disjoint and cover all slots for every number of shards
   (`SlotsDisjoint`, `SlotsCover`, about `HashSlots \div n + 1`). So a refused
   ADDSLOTS means that the shard has its slots already, which is why ignoring the
   error is harmless until a shard is added.

`ServerPromiseProofs`:

1. `PortsAreOwn`, for ports that are given: by `PlacedInv`, the shard at place i has the ports 2i and 2i + 1.
   `PortsDistinct` alone is not inductive: the port of a shard that is added comes
   from the number of shards, so the ports of the others must be known by place.
2. `PromiseIsKept`: each outcome of each call is `Evolves`, one of `RedisServer`'s
   steps as `Seen`, shown operator by operator; it needs that a server without
   slaves that is up is healthy (`Sound`), since `startEnv` leaves such a one alone.

`PortRegistryProofs`: `TypeHolds`, `RegistryKnows` and `PortsAreExclusive`. The
file alone is not inductive: between `Register` and `Dump` it is empty and the
registrations are in the memory of the process that has the lock (`InMemory`,
`LockHeld`).

`ConfigurationProofs`, for any command lines, requests and sequences of Envs:

1. `DefaultsStay` (`DefaultsAreCopied`: no path through `fix_modulesArgs` changes
   the defaults it was lent) and `DebuggerHasOneServer`, from one invariant
   (`RunnerChecked`: the servers passed the checks for the parameters they were made
   with, also when they were handed on).
2. `TypeCorrect`: with texts, lists of texts and lists of lists of any length. That
   their parts are parts (`FoldType`) and that lists are merged into lists
   (`FixedType`) is induction over data. The library's induction theorems cannot be
   used, so `Induction` (in `FlattenProofs`) is proved from `WFMin`: the least number
   without a property, for a property written as a set. `FlattenProofs` unfolds
   `FlattenSeq` with it, `ConfigurationProofs` `FoldLeft`.
3. `SameRequestReuses`: `AskedFor`, the Env at hand is what the last granted request
   resolves to; so an equal one compares equal to it.
4. `ServersFit`: how many servers there are, how they are reached and what they load
   depends on parameters that are compared only, and on Defaults that stay. The
   property does not mention the list of compared parameters: it speaks of all
   but `useTLS`.
5. `ArgsArrive`: `AskedFor` and `LoadsMade` reduce `ArgsReachModules` to two facts
   about operators. `WordsLoaded`: the second pass through `fix_modulesArgs`, in the
   constructor of the servers, and `createCmdArgs` keep each module's list (what is
   added is empty, `ExtendedIs`, and `Loadable` counts the lists). `ArgsFixed`: each
   list of the first pass holds what was given and then the defaults not named,
   by cases on the ways through it (`FixingIs`) and on the module (given, added,
   beyond). `FlattenConcat` connects the lists with the words that are loaded.
   `Parts` itself is not compared with another definition of splitting.

With these every invariant and action property of the passing runs is a theorem.
Model-checked only are the liveness properties `RunEnds`, `EveryTestEnds`,
`CallsReturn`, `StopsReturn` and `CallsEnd`, and the liveness part of
`ImplementsLedger`: fairness and ENABLED are out of the prover's reach.

## 6. Hazards

`PROJECT.json` lists each place of the code where an order of events, a stale
value or a failure half way matters, with the properties that watch it or the
reason why none does yet.

## 7. Plan

In this order, the most important behaviour first:

1. `TestLedger`, `ParallelRunner` with proofs (done).
2. `TimeLimit` with proofs (done).
3. `TestRunner` with proofs (done).
4. `StandardEnv`, `EnvRunner`, `ServerPromise` with proofs (done).
5. `PortRegistry` with proofs (done).
6. `ModuleArgs`, `Configuration` with proofs (done).
7. `ServerPromiseProofs`, the step simulation of `TestLedger`, and the theorems on
   module arguments (done).

What is left is in section 6: places no property watches, most of them outside the
modelled parts of the code.

## 8. Not modelled

Colours, progress bar, logs, summaries' wording and the GitHub Actions groups;
the loader (imports files, no changing state); the check of keyword names by
`env_spec`; `--stop-on-failure`, `--env-only` and the dialogue with a debugger
(they wait for a person); debuggers (command lines); the rest of the command line
of redis-server; the binary repository (downloads); existing environments (start
and stop do nothing). The enterprise environments drive proprietary programs whose
behaviour the repository does not show; `env.py` imports no `EnterpriseClusterEnv`,
and its `startEnv` calls `wait_for_conn` without the process it asks for, so no run
of this commit gets past its start.

In `TestRunner` a test that starts or asserts on an Env it has already replaced, a
timeout in the middle of `Env.__init__`, and a server of another test answering on
the port of one that did not start are left out. In `EnvRunner` one thread makes all
calls, ports are given (no `--randomize-ports`), and servers agree about the
cluster as soon as their slots are complete or not at all before the timeout. Two
errors of `_stopProcess` are left out: an OSError while a living process is stopped,
which is printed, and the FileNotFoundError of `verbose_analyse_server_log`
(`redis_std.py` 455, 509) for a dead process without a log file, which nothing
catches: it leaves the handle in place and ends the loop over the shards, so
`StopReachesAll`, `FailedStartCleansUp` and `NoProcessForgotten` hold for servers that
have written a log. In `PortRegistry` pids are not reused.

Disagreements between code and documents that were met on the way and are modelled
as the code has them, without a run of their own:

* `ClusterEnv.startEnv` returns early while `envIsUp`, which `stopEnv(slaves=False)`
  leaves true: the masters of a cluster with slaves stay down.
* A server that dies in a later life keeps the exit code 0 of an earlier one and is
  not reported (`redis_std.py` 449-456); `FirstCrashIsReported` speaks of the first.
* "use a fresh port" (`redis_cluster.py` 238): the last port plus 2 is fresh if ports
  are given. With `--randomize-ports` it may be that of another shard or of another
  process's server; it is not taken from the port registry. `PortsDistinct` is
  therefore a property of given ports.
* `reset` (400) takes no lock: if it runs between the watcher's load of the deadline
  and the call of `time.time()` (386), a subtest that has just begun is timed out.
  `TimeoutMeansOverrun` excepts this window by `raced`; without that disjunct TLC
  finds the race in `TimeLimit.cfg`.
* "sleep forever process will be killed soon" (382) is a sleep of 1000 seconds. If
  taking the environment down takes longer, the main thread goes on with the test and
  uses the environment at the same time (`WakeUp`); `DisposesAlone` excepts it by
  `woken`.
* `EnvCompareParams` (`env.py` 189-191) lacks `useTLS`, among others: a test that asks
  for TLS after one that does not takes over its servers, which do not speak TLS, and
  the checks for the certificates are not made. `ServersAsIfNew` excepts `useTLS`; TLC
  finds the example in `Configuration.cfg` when it does not.
* `utils.py` 119: "For each module, any default key not present in the explicit args
  is appended". When three modules have defaults and a test asks for five, giving
  arguments to the first, two lists are added for the next two, and they are one
  list (`[[]] * n`, 198): each of the two modules is loaded with the defaults of
  both. The proof of `ArgsReachModules` brought this up (its case of an added list
  fails for more than one); the property leaves it out by `SharesAList`, and TLC
  finds the example in `Configuration.cfg` when that conjunct is dropped.
* `utils.py` 118-119: "any default key not present in the explicit args is appended";
  for a list of fewer modules than there are defaults, the code raises IndexError.
* `utils.py` 136-138: missing defaults are appended to a plain string; with several
  modules only the first module's are, and the others get nothing.
* A plain text keeps a trailing semicolon, since only the number of its parts
  decides whether it is split.
* `env_spec.py` 6: the spec "is exactly the shape of the env"; a flag given as False
  is overruled by the command line (`EitherSet`).
* Help of `-i`: only without slaves; a test may still ask for slaves, and
  `--debugger` is not checked at all.
