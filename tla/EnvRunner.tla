------------------------------- MODULE EnvRunner -------------------------------
(***************************************************************************)
(* What is behind Env.envRunner: one StandardEnv (--env oss), or a         *)
(* ClusterEnv of several (--env oss-cluster, redis_cluster.py).  A test,   *)
(* or the runner, makes one call after the other; a call goes through the  *)
(* shards one at a time, and servers die or fall silent between its steps. *)
(***************************************************************************)
EXTENDS StandardEnv, RedisServer, Sequences

CONSTANTS
    Options,        \* the environments considered, see OptionsType
    ShardsCount,    \* shards of a cluster at first
    HashSlots,      \* 16384
    MaxShards,      \* bound on shards, with those added
    MaxCalls,       \* bound on calls, for each of the Options
    MaxCrashes,     \* bound on servers that die by themselves
    MaxHangs        \* bound on servers that fall silent

\* retries: terminateRetries is set.
OptionsType == [cluster : BOOLEAN, useSlaves : BOOLEAN, retries : BOOLEAN]

ASSUME EnvRunnerAssumption ==
    /\ Options \subseteq OptionsType
    /\ ShardsCount \in Nat \ {0} /\ HashSlots \in Nat \ {0}
    /\ MaxShards \in Nat /\ MaxShards >= ShardsCount
    /\ MaxCalls \in [Options -> Nat] /\ MaxCrashes \in Nat /\ MaxHangs \in Nat

VARIABLES
    opts,
    shards,         \* the StandardEnvs
    slots,          \* the hash slots each shard serves
    envIsUp,        \* of the ClusterEnv
    envIsHealthy,   \* of the ClusterEnv
    call,           \* the call at work and where it is
    result,         \* how the last call ended
    calls, crashes, hangs,
    lost            \* history: a live process nobody has a handle of

flags == <<envIsUp, envIsHealthy>>
bounds == <<calls, crashes, hangs>>
vars == <<opts, shards, slots, flags, call, result, bounds, lost>>

Idle == [step |-> "idle", at |-> 0, masters |-> TRUE, slaves |-> TRUE,
         for |-> "nothing", restart |-> FALSE]

\* at: the shard.  for: what waits for the cluster, or reloads all of it.
CallType ==
    [step : {"idle", "start", "clean up", "configure", "wait", "stop", "segfault",
             "reload"},
     at : 0..MaxShards, masters : BOOLEAN, slaves : BOOLEAN,
     for : {"nothing", "start", "add", "reload"}, restart : BOOLEAN]

TypeOK ==
    /\ opts \in Options
    /\ shards \in Seq(StandardEnvType) /\ Len(shards) \in 1..MaxShards
    /\ slots \in Seq(SUBSET (0..HashSlots - 1)) /\ Len(slots) = Len(shards)
    /\ envIsUp \in BOOLEAN /\ envIsHealthy \in BOOLEAN /\ lost \in BOOLEAN
    /\ call \in CallType
    /\ call.step \notin {"idle", "wait"} => call.at \in DOMAIN shards
    /\ result \in {"none", "ok", "early", "raised", "start failed"}
    /\ calls \in 0..MaxCalls[opts] /\ crashes \in 0..MaxCrashes
    /\ hangs \in 0..MaxHangs

\* The ports of a cluster are 2 apart, with or without slaves.  This is without
\* --randomize-ports: with it each shard has port 0 here and takes one that is
\* free, which PortRegistry models.
Init ==
    /\ opts \in Options
    /\ shards = [i \in 1..(IF opts.cluster THEN ShardsCount ELSE 1) |->
                    New(2 * i, opts.useSlaves)]
    /\ slots = [i \in DOMAIN shards |-> {}]
    /\ envIsUp = FALSE /\ envIsHealthy = FALSE
    /\ call = Idle
    /\ result = "none"
    /\ calls = 0 /\ crashes = 0 /\ hangs = 0
    /\ lost = FALSE

-----------------------------------------------------------------------------
Calls(c) ==
    /\ call = Idle
    /\ calls < MaxCalls[opts]
    /\ calls' = calls + 1
    /\ call' = c
    /\ UNCHANGED <<opts, crashes, hangs>>

Ends(how) == call' = Idle /\ result' = how

\* Fault: one shard too many.
ProceedsPastTheLast(after) ==
    IF opts.cluster /\ call.at <= Len(shards)
    THEN call' = [call EXCEPT !.at = @ + 1] /\ UNCHANGED result
    ELSE after

\* On to the next shard, or to what follows the last.
Proceeds(after) ==
    IF opts.cluster /\ call.at < Len(shards)
    THEN call' = [call EXCEPT !.at = @ + 1] /\ UNCHANGED result
    ELSE after

WaitsFor(what) ==
    /\ call' = [Idle EXCEPT !.step = "wait", !.for = what]
    /\ UNCHANGED result

\* The shard at hand is left as env.
Becomes(env) == shards' = [shards EXCEPT ![call.at] = env]

\* A process that had a handle in old is alive and has none in new.
Abandons(old, new) ==
    \E role \in Roles : Alive(old[role]) /\ new[role].lives # old[role].lives

-----------------------------------------------------------------------------
\* startEnv.  A cluster that is up is left alone.
Start(masters, slaves) ==
    /\ IF opts.cluster /\ envIsUp
       THEN Calls(Idle) /\ result' = "early"
       ELSE /\ Calls([Idle EXCEPT !.step = "start", !.at = 1,
                                  !.masters = masters, !.slaves = slaves])
            /\ UNCHANGED result
    /\ UNCHANGED <<shards, slots, flags, lost>>

\* The shards are started in order; one that raises makes a cluster stop all.
StartShard ==
    /\ call.step = "start"
    /\ \E r \in StartEnv(shards[call.at], call.masters, call.slaves) :
          /\ Becomes(r.env)
          /\ lost' = (lost \/ Abandons(shards[call.at], r.env))
          /\ IF r.raised
             THEN IF opts.cluster
                  THEN /\ call' = [Idle EXCEPT !.step = "clean up", !.at = 1]
                       /\ UNCHANGED result
                  ELSE Ends("raised")
             ELSE Proceeds(
                    IF opts.cluster
                    THEN /\ call' = [Idle EXCEPT !.step = "configure", !.at = 1]
                         /\ UNCHANGED result
                    ELSE Ends("ok"))
    /\ UNCHANGED <<opts, slots, flags, bounds>>

CleanUpShard ==
    /\ call.step = "clean up"
    /\ \E env \in StopEnv(shards[call.at], TRUE, TRUE, opts.retries) : Becomes(env)
    /\ Proceeds(Ends("start failed"))
    /\ UNCHANGED <<opts, slots, flags, bounds, lost>>

\* Fault: as many slots each as there are, rounded down.
SlotsRoundedDown(i, n) ==
    LET slots_per_node == HashSlots \div n
        start_slot == (i - 1) * slots_per_node
        end_slot == start_slot + slots_per_node
    IN  start_slot..(IF end_slot > HashSlots THEN HashSlots ELSE end_slot) - 1

\* The slots of shard i of n.
SlotsOf(i, n) ==
    LET slots_per_node == (HashSlots \div n) + 1
        start_slot == (i - 1) * slots_per_node
        end_slot == start_slot + slots_per_node
    IN  start_slot..(IF end_slot > HashSlots THEN HashSlots ELSE end_slot) - 1

\* Each shard meets all, outside of the try statement.  A node refuses all of
\* its slots if it knows that one is taken, by itself or, when it has heard of
\* that, by another; the error is only printed.
ConfigureShard ==
    /\ call.step = "configure"
    /\ LET i == call.at
           mine == SlotsOf(i, Len(shards))
           taken == UNION {slots[j] : j \in DOMAIN slots}
       IN  CASE shards[i].master.handle = "serving" ->
                  /\ \/ /\ mine \cap slots[i] = {}
                        /\ slots' = [slots EXCEPT ![i] = @ \cup mine]
                     \/ mine \cap taken # {} /\ UNCHANGED slots
                  /\ Proceeds(WaitsFor("start"))
             [] shards[i].master.handle \in {"none", "dead"} ->
                  Ends("raised") /\ UNCHANGED slots
             [] OTHER -> FALSE
    /\ UNCHANGED <<opts, shards, flags, bounds, lost>>

\* waitCluster: all masters answer that all slots are served.
ClusterOk ==
    /\ \A i \in DOMAIN shards : shards[i].master.handle = "serving"
    /\ UNION {slots[i] : i \in DOMAIN slots} = 0..HashSlots - 1

WaitSucceeds ==
    /\ call.step = "wait"
    /\ ClusterOk
    /\ IF call.for = "start" THEN envIsUp' = TRUE /\ envIsHealthy' = TRUE ELSE UNCHANGED flags
    /\ Ends("ok")
    /\ UNCHANGED <<opts, shards, slots, bounds, lost>>

\* Fault: a round in which a shard gives an error does not count as time.
WaitTimesOutIfAnswered ==
    /\ call.step = "wait"
    /\ \A i \in DOMAIN shards : shards[i].master.handle = "serving"
    /\ Ends("raised")
    /\ UNCHANGED <<opts, shards, slots, flags, bounds, lost>>

\* The timeout is looked at between two rounds, so not while a shard is silent.
WaitTimesOut ==
    /\ call.step = "wait"
    /\ \A i \in DOMAIN shards : shards[i].master.handle # "silent"
    /\ Ends("raised")
    /\ UNCHANGED <<opts, shards, slots, flags, bounds, lost>>

-----------------------------------------------------------------------------
Stop(masters, slaves) ==
    /\ Calls([Idle EXCEPT !.step = "stop", !.at = 1,
                          !.masters = masters, !.slaves = slaves])
    /\ envIsUp' = FALSE /\ envIsHealthy' = FALSE
    /\ UNCHANGED <<shards, slots, result, lost>>

StopShard ==
    /\ call.step = "stop"
    /\ \E env \in StopEnv(shards[call.at], call.masters, call.slaves, opts.retries) :
          /\ Becomes(env)
          /\ envIsUp' = (opts.cluster /\ (envIsUp \/ env.envIsUp))
          /\ envIsHealthy' = (opts.cluster /\ envIsHealthy /\ env.envIsUp)
    /\ Proceeds(Ends("ok"))
    /\ UNCHANGED <<opts, slots, bounds, lost>>

SegFault(masters, slaves) ==
    /\ Calls([Idle EXCEPT !.step = "segfault", !.at = 1,
                          !.masters = masters, !.slaves = slaves])
    /\ UNCHANGED <<shards, slots, flags, result, lost>>

SegFaultShard ==
    /\ call.step = "segfault"
    /\ Becomes(StopEnvWithSegFault(shards[call.at], call.masters, call.slaves))
    /\ Proceeds(Ends("ok"))
    /\ UNCHANGED <<opts, slots, flags, bounds, lost>>

\* dumpAndReload of all shards, or of one (shardId); only the first waits.
Reload(restart, all) ==
    /\ \E i \in IF all THEN {1} ELSE DOMAIN shards :
          Calls([Idle EXCEPT !.step = "reload", !.at = i, !.restart = restart,
                             !.for = IF all THEN "reload" ELSE "nothing"])
    /\ UNCHANGED <<shards, slots, flags, result, lost>>

ReloadShard ==
    /\ call.step = "reload"
    /\ \E r \in DumpAndReload(shards[call.at], call.restart, opts.retries) :
          /\ Becomes(r.env)
          /\ IF r.raised THEN Ends("raised")
             ELSE IF call.for = "reload"
             THEN Proceeds(IF opts.cluster THEN WaitsFor("reload") ELSE Ends("ok"))
             ELSE Ends("ok")
    /\ UNCHANGED <<opts, slots, flags, bounds, lost>>

\* Fault: the port next to the last one.
NextPort == shards[Len(shards)].port + 1

\* "use a fresh port": fresh as long as the ports are those of Init.  With
\* --randomize-ports it may be any server's, and nothing checks it.
FreshPort == shards[Len(shards)].port + 2

\* addShardToCluster: a new shard whose startEnv raises is stopped and never
\* becomes one of the shards; one that died within its grace does, and the
\* first CLUSTER MEET raises.
AddShard ==
    /\ opts.cluster /\ Len(shards) < MaxShards
    /\ \E r \in StartEnv(New(FreshPort, opts.useSlaves), TRUE, TRUE) :
          IF r.raised
          THEN /\ Calls(Idle) /\ result' = "raised"
               /\ \E env \in StopEnv(r.env, TRUE, TRUE, opts.retries) :
                     lost' = (lost \/ Alive(env.master) \/ Alive(env.slave))
               /\ UNCHANGED <<shards, slots>>
          ELSE /\ shards' = Append(shards, r.env)
               /\ slots' = Append(slots, {})
               /\ IF r.env.master.handle = "serving"
                  THEN /\ Calls([Idle EXCEPT !.step = "wait", !.for = "add"])
                       /\ UNCHANGED result
                  ELSE Calls(Idle) /\ result' = "raised"
               /\ UNCHANGED lost
    /\ UNCHANGED flags

-----------------------------------------------------------------------------
\* A server dies by itself.
Crash ==
    /\ crashes < MaxCrashes
    /\ crashes' = crashes + 1
    /\ \E i \in DOMAIN shards, role \in Roles :
          /\ Alive(shards[i][role])
          /\ shards' = [shards EXCEPT ![i][role] = Dead(@)]
    /\ UNCHANGED <<opts, slots, flags, call, result, calls, hangs, lost>>

\* It is alive and answers nothing any more, SIGTERM included.
FallSilent ==
    /\ hangs < MaxHangs
    /\ hangs' = hangs + 1
    /\ \E i \in DOMAIN shards, role \in Roles :
          /\ shards[i][role].handle = "serving"
          /\ shards' = [shards EXCEPT ![i][role].handle = "silent"]
    /\ UNCHANGED <<opts, slots, flags, call, result, calls, crashes, lost>>

\* The steps of the calls.
Work ==
    \/ StartShard \/ CleanUpShard \/ ConfigureShard \/ WaitSucceeds
    \/ WaitTimesOut \/ StopShard \/ SegFaultShard \/ ReloadShard

\* The arguments that differ in what they do.
Tells(masters, slaves) == (masters \/ slaves) /\ (opts.useSlaves \/ slaves)

Caller ==
    \/ \E masters, slaves \in BOOLEAN :
          /\ Tells(masters, slaves)
          /\ \/ Start(masters, slaves)
             \/ Stop(masters, slaves)
             \/ SegFault(masters, slaves)
    \/ \E restart, all \in BOOLEAN : Reload(restart, all)
    \/ AddShard

Next == Work \/ Caller \/ Crash \/ FallSilent

\* The program goes on with the call it is in.
Spec == Init /\ [][Next]_vars /\ WF_vars(Work)
-----------------------------------------------------------------------------
\* Every process that was started is stopped or held by a handle through which
\* it can be: startEnv never starts a second one over it, also after a start
\* that raised with the flags down, and a shard that could not be added is
\* stopped (redis_std.py:384-402, redis_cluster.py:243-246).
NoProcessForgotten == ~lost

\* When a shard's start raises, the cluster's startEnv leaves no process
\* behind, not of the shards before it, nor of those left by an earlier call
\* that failed (redis_cluster.py:133-143).
FailedStartCleansUp ==
    call = Idle /\ result = "start failed" =>
        \A i \in DOMAIN shards, role \in Roles : shards[i][role].handle = "none"

\* stop() reaches every process, whatever the flags say and whichever starts,
\* reloads or additions failed before (redis_cluster.py:178-184,
\* redis_std.py:519-527).
StopReachesAll ==
    [][ call.step = "stop" /\ call.masters /\ call.slaves /\ call' = Idle =>
          \A i \in DOMAIN shards' :
              /\ shards'[i].master.handle = "none"
              /\ shards'[i].slave.handle = "none"
              /\ ~shards'[i].envIsUp ]_vars

\* A server that died in its only life is reported by checkExitCode, master
\* or slave, however it was stopped (redis_std.py:449-456, 616-625).
FirstCrashIsReported ==
    \A i \in DOMAIN shards, role \in Roles :
        /\ role = "slave" => shards[i].useSlaves
        /\ shards[i][role].lives < 2 /\ shards[i][role].ended = "dirty"
        => ~CheckExitCode(shards[i])

\* Without --randomize-ports no two servers of a cluster share a port, those
\* added included, with slaves or without (redis_cluster.py:32-39, 238,
\* redis_std.py:79-81).  With it this does not hold of an added shard: the last
\* port + 2 may be that of another shard, or of another run's server.
PortsDistinct ==
    \A i, j \in DOMAIN shards :
        i # j => {shards[i].port, shards[i].slavePort} \cap
                 ({shards[j].port, shards[j].slavePort} \ {0}) = {}

\* Until a shard is added, which moves the bounds, no slot is given to two
\* shards, and all are given when startEnv begins to wait, although ADDSLOTS
\* errors are ignored and earlier starts stopped half way
\* (redis_cluster.py:147-167).
SlotsPartitioned ==
    Len(shards) = ShardsCount =>
        /\ \A i, j \in DOMAIN slots : i # j => slots[i] \cap slots[j] = {}
        /\ call.step = "wait" /\ call.for = "start" =>
              UNION {slots[i] : i \in DOMAIN slots} = 0..HashSlots - 1

\* The server of RedisServer behind a StandardEnv without slaves.
Seen(env) ==
    [proc |-> CASE env.master.handle = "none" -> "none"
                [] env.master.handle # "none" /\ ~env.envIsUp -> "starting"
                [] Alive(env.master) /\ env.envIsUp -> "running"
                [] OTHER -> "crashed",
     clean |-> env.master.exitCode = "zero"]

Promise == INSTANCE ServerPromise WITH
    Servers <- 1..MaxShards,
    servers <- [i \in 1..MaxShards |->
                  IF i \in DOMAIN shards /\ ~opts.useSlaves
                  THEN Seen(shards[i]) ELSE Fresh]

\* Whatever is called and whatever fails, each StandardEnv changes only as
\* TestRunner assumes of the servers behind its Envs.
ServersAsPromised == Promise!Spec

\* A call returns unless a server that is alive says nothing: dead servers,
\* failed starts and a cluster that never agrees only make it raise.
CallsReturn ==
    []( \A i \in DOMAIN shards, role \in Roles :
            shards[i][role].handle # "silent" )
    => (call # Idle ~> call = Idle)

\* With terminateRetries stop() returns even then (redis_std.py:484-496).
StopsReturn == opts.retries => (call.step \in {"stop", "clean up"} ~> call = Idle)
================================================================================
