---------------------------- MODULE EnvRunnerProofs ----------------------------
(***************************************************************************)
(* Proofs about EnvRunner, for any number of shards, calls, crashes and    *)
(* servers that fall silent.                                               *)
(***************************************************************************)
EXTENDS EnvRunner, SequenceTheorems, TLAPS

\* A role in its first life: no exit code is on record while there is a
\* process, nor a 0 for one that ended badly.
RoleInv(p) ==
    /\ p \in RoleType
    /\ p.lives = 0 => p.handle = "none" /\ p.exitCode = "None" /\ p.ended = "never"
    /\ p.lives < 2 /\ p.handle # "none" => p.exitCode = "None"
    /\ p.lives < 2 /\ p.ended = "dirty" => p.exitCode # "zero"

EnvInv(env) ==
    /\ env \in StandardEnvType
    /\ RoleInv(env.master) /\ RoleInv(env.slave)
    /\ ~env.useSlaves => env.slave.handle = "none"

\* Nothing runs, as far as the handles tell.
Down(env) ==
    env.master.handle = "none" /\ env.slave.handle = "none" /\ ~env.envIsUp

-----------------------------------------------------------------------------
(* The operators of StandardEnv.                                           *)

LEMMA OutcomeFields ==
    ASSUME NEW x
    PROVE  /\ Returns(x).env = x /\ Returns(x).raised = FALSE
           /\ Raises(x).env = x /\ Raises(x).raised = TRUE
  BY DEF Returns, Raises

\* A process that is started, and one that was there before.
LEMMA SpawnedInv ==
    ASSUME NEW p, RoleInv(p), p.handle = "none", NEW r \in Spawned(p)
    PROVE  /\ r.raised \in BOOLEAN
           /\ RoleInv(r.env)
<1> DEFINE born == [p EXCEPT !.lives = IF @ < 2 THEN @ + 1 ELSE @]
           died == [born EXCEPT !.ended = "dirty"]
<1>1. p \in RoleType /\ p.lives \in 0..2
  BY DEF RoleInv, RoleType
<1>2. born = [p EXCEPT !.lives = IF p.lives < 2 THEN p.lives + 1 ELSE p.lives]
  OBVIOUS
<1>3. /\ born \in RoleType /\ born.lives \in 1..2
      /\ born.lives < 2 => p.lives = 0
      /\ born.exitCode = p.exitCode /\ born.ended = p.ended
  BY <1>1, <1>2 DEF RoleType
<1>4. born.lives < 2 => born.exitCode = "None" /\ born.ended = "never"
  BY <1>3 DEF RoleInv
<1> HIDE DEF born
<1>5. /\ died \in RoleType /\ died.lives = born.lives
      /\ died.exitCode = born.exitCode
  BY <1>3 DEF RoleType
<1> HIDE DEF died
<1>6. RoleInv([born EXCEPT !.handle = "serving"])
  BY <1>3, <1>4 DEF RoleInv, RoleType
<1>7. RoleInv([died EXCEPT !.handle = "none"]) /\ RoleInv([died EXCEPT !.handle = "dead"])
  BY <1>3, <1>4, <1>5 DEF RoleInv, RoleType
<1>8. \/ r = Returns([born EXCEPT !.handle = "serving"])
      \/ r = Returns([died EXCEPT !.handle = "none"])
      \/ r = Raises([born EXCEPT !.handle = "serving"])
      \/ r = Raises([died EXCEPT !.handle = "dead"])
  BY DEF Spawned, born, died
<1> QED
  BY <1>6, <1>7, <1>8, OutcomeFields

LEMMA StartProcessInv ==
    ASSUME NEW p, RoleInv(p), NEW asked \in BOOLEAN, NEW r \in StartProcess(p, asked)
    PROVE  /\ r.raised \in BOOLEAN
           /\ RoleInv(r.env)
           /\ Alive(p) => r.env = p
           /\ ~asked => r.env = p /\ ~r.raised
<1>1. CASE asked /\ p.handle = "none"
  <2>1. r \in Spawned(p)
    BY <1>1 DEF StartProcess
  <2> QED
    BY <1>1, <2>1, SpawnedInv DEF Alive
<1>2. CASE ~(asked /\ p.handle = "none")
  <2>1. r = Returns(p)
    BY <1>2 DEF StartProcess
  <2> QED
    BY <2>1, <1>2, OutcomeFields
<1> QED
  BY <1>1, <1>2

LEMMA FlaggedInv ==
    ASSUME NEW env, EnvInv(env)
    PROVE  /\ EnvInv(Flagged(env))
           /\ Flagged(env).master = env.master /\ Flagged(env).slave = env.slave
           /\ Flagged(env).useSlaves = env.useSlaves
           /\ env.master.handle = "none" /\ env.slave.handle = "none" =>
                  Flagged(env).envIsUp = FALSE
<1>1. env \in StandardEnvType
  BY DEF EnvInv
<1>2. PICK up, healthy \in BOOLEAN :
          /\ Flagged(env) = [env EXCEPT !.envIsUp = up, !.envIsHealthy = healthy]
          /\ env.master.handle = "none" /\ env.slave.handle = "none" => up = FALSE
  BY <1>1 DEF Flagged, StandardEnvType
<1> QED
  BY <1>1, <1>2 DEF EnvInv, StandardEnvType

LEMMA RolesInv ==
    ASSUME NEW env, EnvInv(env), NEW m, RoleInv(m), NEW s, RoleInv(s),
           ~env.useSlaves => s.handle = "none"
    PROVE  EnvInv([env EXCEPT !.master = m, !.slave = s])
  BY DEF EnvInv, StandardEnvType, RoleInv

\* startEnv never starts a process over one that lives.
LEMMA StartEnvInv ==
    ASSUME NEW env, EnvInv(env), NEW masters \in BOOLEAN, NEW slaves \in BOOLEAN,
           NEW r \in StartEnv(env, masters, slaves)
    PROVE  /\ EnvInv(r.env)
           /\ r.raised \in BOOLEAN
           /\ r.env.useSlaves = env.useSlaves
           /\ ~Abandons(env, r.env)
<1>0. env \in StandardEnvType /\ RoleInv(env.master) /\ RoleInv(env.slave)
  BY DEF EnvInv
<1>1. CASE env.envIsUp /\ env.envIsHealthy
  <2>1. r = Returns(env)
    BY <1>1 DEF StartEnv
  <2> QED
    BY <2>1, OutcomeFields DEF Abandons
<1>2. CASE ~(env.envIsUp /\ env.envIsHealthy)
  <2>1. PICK m \in StartProcess(env.master, masters) :
           r \in IF m.raised THEN {Raises([env EXCEPT !.master = m.env])}
                ELSE {LET both == [env EXCEPT !.master = m.env, !.slave = s.env]
                      IN  IF s.raised THEN Raises(both) ELSE Returns(Flagged(both)) :
                        s \in StartProcess(env.slave, env.useSlaves /\ slaves)}
    BY <1>2 DEF StartEnv
  <2>2. RoleInv(m.env) /\ m.raised \in BOOLEAN /\ (Alive(env.master) => m.env = env.master)
    BY <1>0, StartProcessInv
  <2>3. CASE m.raised
    <3> DEFINE after == [env EXCEPT !.master = m.env]
    <3>1. r = Raises(after)
      BY <2>1, <2>3
    <3>2. EnvInv(after) /\ after.useSlaves = env.useSlaves
          /\ after.master = m.env /\ after.slave = env.slave
      BY <1>0, <2>2 DEF EnvInv, StandardEnvType, RoleInv
    <3> QED
      BY <2>2, <3>1, <3>2, OutcomeFields DEF Abandons, Roles
  <2>4. CASE ~m.raised
    <3>1. PICK s \in StartProcess(env.slave, env.useSlaves /\ slaves) :
             r = LET both == [env EXCEPT !.master = m.env, !.slave = s.env]
                 IN  IF s.raised THEN Raises(both) ELSE Returns(Flagged(both))
      BY <2>1, <2>4
    <3> DEFINE both == [env EXCEPT !.master = m.env, !.slave = s.env]
    <3>2. env.useSlaves \in BOOLEAN /\ (env.useSlaves /\ slaves) \in BOOLEAN
      BY <1>0 DEF StandardEnvType
    <3>3. /\ RoleInv(s.env) /\ s.raised \in BOOLEAN
          /\ Alive(env.slave) => s.env = env.slave
          /\ ~(env.useSlaves /\ slaves) => s.env = env.slave
      BY <1>0, <3>2, StartProcessInv
    <3>4. ~env.useSlaves => s.env.handle = "none"
      BY <3>3 DEF EnvInv
    <3>5. EnvInv(both) /\ both.useSlaves = env.useSlaves
          /\ both.master = m.env /\ both.slave = s.env
      BY <1>0, <2>2, <3>3, <3>4, RolesInv DEF StandardEnvType
    <3>6. /\ EnvInv(Flagged(both)) /\ Flagged(both).useSlaves = env.useSlaves
          /\ Flagged(both).master = m.env /\ Flagged(both).slave = s.env
      <4> HIDE DEF both
      <4> QED BY <3>5, FlaggedInv
    <3>7. r = Raises(both) \/ r = Returns(Flagged(both))
      BY <3>1
    <3> HIDE DEF both
    <3>8. /\ EnvInv(r.env) /\ r.raised \in BOOLEAN /\ r.env.useSlaves = env.useSlaves
          /\ r.env.master = m.env /\ r.env.slave = s.env
      BY <3>5, <3>6, <3>7, OutcomeFields
    <3> QED
      BY <2>2, <3>3, <3>8 DEF Abandons, Roles
  <2> QED
    BY <2>2, <2>3, <2>4
<1> QED
  BY <1>1, <1>2

LEMMA StopProcessInv ==
    ASSUME NEW p, RoleInv(p), NEW retries \in BOOLEAN, NEW q \in StopProcess(p, retries)
    PROVE  RoleInv(q) /\ q.handle = "none"
<1>0. p \in RoleType
  BY DEF RoleInv
<1>1. CASE ~Alive(p)
  <2>1. q = [p EXCEPT !.handle = "none"]
    BY <1>1 DEF StopProcess
  <2> QED
    BY <1>0, <2>1 DEF RoleInv, RoleType
<1>2. CASE Alive(p)
  <2>1. PICK code \in {"None", "zero", "bad"} :
           q = [p EXCEPT !.handle = "none", !.exitCode = code,
                         !.ended = IF code = "zero" THEN "clean" ELSE "dirty"]
    BY <1>2 DEF StopProcess
  <2>2. p.lives # 0
    BY <1>2 DEF RoleInv, Alive
  <2> QED
    BY <1>0, <2>1, <2>2 DEF RoleInv, RoleType
<1> QED
  BY <1>1, <1>2

LEMMA StopsInv ==
    ASSUME NEW p, RoleInv(p), NEW asked \in BOOLEAN, NEW retries \in BOOLEAN,
           NEW q \in Stops(p, asked, retries)
    PROVE  /\ RoleInv(q)
           /\ asked \/ p.handle = "none" => q.handle = "none"
<1>1. CASE asked /\ p.handle # "none"
  <2>1. q \in StopProcess(p, retries)
    BY <1>1 DEF Stops
  <2> QED
    BY <2>1, StopProcessInv
<1>2. CASE ~(asked /\ p.handle # "none")
  <2>1. q = p
    BY <1>2 DEF Stops
  <2> QED
    BY <1>2, <2>1
<1> QED
  BY <1>1, <1>2

\* stopEnv of both roles leaves no process, whatever the flags say.
LEMMA StopEnvInv ==
    ASSUME NEW env, EnvInv(env), NEW masters \in BOOLEAN, NEW slaves \in BOOLEAN,
           NEW retries \in BOOLEAN, NEW after \in StopEnv(env, masters, slaves, retries)
    PROVE  /\ EnvInv(after)
           /\ after.useSlaves = env.useSlaves
           /\ masters /\ slaves => Down(after)
<1>0. /\ env \in StandardEnvType /\ RoleInv(env.master) /\ RoleInv(env.slave)
      /\ env.useSlaves \in BOOLEAN /\ (env.useSlaves /\ slaves) \in BOOLEAN
      /\ ~env.useSlaves => env.slave.handle = "none"
  BY DEF EnvInv, StandardEnvType
<1>1. PICK m \in Stops(env.master, masters, retries) :
         \E s \in Stops(env.slave, env.useSlaves /\ slaves, retries) :
            after = Flagged([env EXCEPT !.master = m, !.slave = s])
  BY DEF StopEnv
<1>2. PICK s \in Stops(env.slave, env.useSlaves /\ slaves, retries) :
         after = Flagged([env EXCEPT !.master = m, !.slave = s])
  BY <1>1
<1>3. RoleInv(m) /\ (masters => m.handle = "none")
  BY <1>0, StopsInv
<1>4. RoleInv(s) /\ (~env.useSlaves \/ slaves => s.handle = "none")
  BY <1>0, StopsInv
<1> DEFINE both == [env EXCEPT !.master = m, !.slave = s]
<1>5. EnvInv(both) /\ both.useSlaves = env.useSlaves /\ both.master = m /\ both.slave = s
  BY <1>0, <1>3, <1>4, RolesInv DEF StandardEnvType
<1>6. after = Flagged(both)
  BY <1>2
<1> HIDE DEF both
<1> QED
  BY <1>3, <1>4, <1>5, <1>6, FlaggedInv DEF Down

\* A process that dies.
LEMMA DeadInv ==
    ASSUME NEW p, RoleInv(p)
    PROVE  RoleInv(Dead(p)) /\ (p.handle = "none" <=> Dead(p).handle = "none")
  BY DEF RoleInv, RoleType, Dead, Alive

LEMMA SegFaultInv ==
    ASSUME NEW env, EnvInv(env), NEW masters \in BOOLEAN, NEW slaves \in BOOLEAN
    PROVE  EnvInv(StopEnvWithSegFault(env, masters, slaves))
<1> DEFINE m == IF masters THEN Dead(env.master) ELSE env.master
           s == IF slaves THEN Dead(env.slave) ELSE env.slave
<1>1. /\ RoleInv(m) /\ RoleInv(s)
      /\ ~env.useSlaves => s.handle = "none"
  BY DeadInv DEF EnvInv
<1>2. /\ StopEnvWithSegFault(env, masters, slaves) = [env EXCEPT !.master = m, !.slave = s]
      /\ EnvInv(env)
  BY DEF StopEnvWithSegFault
<1> HIDE DEF m, s
<1>3. EnvInv([env EXCEPT !.master = m, !.slave = s])
  BY <1>1, <1>2, RolesInv
<1> QED
  BY Zenon, <1>2, <1>3

LEMMA ReloadInv ==
    ASSUME NEW env, EnvInv(env), NEW restart \in BOOLEAN, NEW retries \in BOOLEAN,
           NEW r \in DumpAndReload(env, restart, retries)
    PROVE  EnvInv(r.env) /\ r.raised \in BOOLEAN
<1>0. /\ env.master.handle \in {"none", "serving", "silent", "dead"}
      /\ env.slave.handle \in {"none", "serving", "silent", "dead"}
  BY DEF EnvInv, RoleInv, RoleType
<1>1. \/ r = Raises(env)
      \/ r = Returns(env)
      \/ \E down \in StopEnv(env, TRUE, TRUE, retries) : r \in StartEnv(down, TRUE, TRUE)
  BY <1>0 DEF DumpAndReload
<1>2. ASSUME NEW down \in StopEnv(env, TRUE, TRUE, retries), r \in StartEnv(down, TRUE, TRUE)
      PROVE  EnvInv(r.env) /\ r.raised \in BOOLEAN
  <2>1. EnvInv(down)
    BY <1>2, StopEnvInv
  <2> QED
    BY <1>2, <2>1, StartEnvInv
<1> QED
  BY <1>1, <1>2, OutcomeFields

LEMMA NewInv ==
    ASSUME NEW port \in Nat, NEW useSlaves \in BOOLEAN
    PROVE  EnvInv(New(port, useSlaves)) /\ New(port, useSlaves).useSlaves = useSlaves
  BY DEF EnvInv, RoleInv, New, NoProcess, StandardEnvType, RoleType

-----------------------------------------------------------------------------
(* Types, with what is known of each shard.                                *)

EnvsInv == \A i \in DOMAIN shards : EnvInv(shards[i])

\* A single server has no cluster to configure.
ShapeInv ==
    /\ opts.cluster => Len(shards) >= ShardsCount
    /\ ~opts.cluster => Len(shards) = 1
    /\ call.step \in {"clean up", "configure", "wait"} => opts.cluster

TypeInv == TypeOK /\ EnvsInv /\ ShapeInv

LEMMA OptsTypes ==
    ASSUME TypeInv
    PROVE  /\ opts \in Options
           /\ opts.cluster \in BOOLEAN /\ opts.useSlaves \in BOOLEAN /\ opts.retries \in BOOLEAN
           /\ MaxCalls[opts] \in Nat
  BY EnvRunnerAssumption DEF TypeInv, TypeOK, OptionsType

LEMMA IdleType ==
    Idle \in CallType
  BY EnvRunnerAssumption DEF Idle, CallType

\* A shard at hand that is replaced by one as good.
LEMMA BecomesInv ==
    ASSUME TypeInv, call.at \in DOMAIN shards, NEW env, EnvInv(env), Becomes(env)
    PROVE  /\ shards' \in Seq(StandardEnvType) /\ Len(shards') = Len(shards)
           /\ DOMAIN shards' = DOMAIN shards
           /\ EnvsInv'
           /\ shards'[call.at] = env
           /\ \A i \in DOMAIN shards : i # call.at => shards'[i] = shards[i]
<1>1. shards \in Seq(StandardEnvType) /\ shards' = [shards EXCEPT ![call.at] = env]
  BY DEF TypeInv, TypeOK, Becomes
<1>2. env \in StandardEnvType
  BY DEF EnvInv
<1>3. /\ shards' \in Seq(StandardEnvType) /\ Len(shards') = Len(shards)
      /\ DOMAIN shards' = DOMAIN shards
  BY <1>1, <1>2
<1>4. /\ shards'[call.at] = env
      /\ \A i \in DOMAIN shards : i # call.at => shards'[i] = shards[i]
  BY <1>1
<1> QED
  BY <1>3, <1>4 DEF TypeInv, EnvsInv

\* A new call.
LEMMA CallsType ==
    ASSUME TypeInv, NEW c \in CallType,
           c.step \in {"idle", "start", "stop", "segfault", "reload"},
           c.step # "idle" => c.at \in DOMAIN shards,
           Calls(c), UNCHANGED <<shards, slots>>,
           envIsUp' \in BOOLEAN, envIsHealthy' \in BOOLEAN, lost' \in BOOLEAN,
           result' \in {result, "early"}
    PROVE  TypeInv'
<1>0. calls \in 0..MaxCalls[opts] /\ MaxCalls[opts] \in Nat
  BY OptsTypes DEF TypeInv, TypeOK
<1>1. calls' \in 0..MaxCalls[opts]
  BY <1>0 DEF Calls
<1>2. /\ call' = c /\ UNCHANGED <<opts, crashes, hangs, shards, slots>>
  BY DEF Calls
<1>3. TypeOK'
  BY <1>1, <1>2 DEF TypeInv, TypeOK
<1> QED
  BY <1>2, <1>3 DEF TypeInv, EnvsInv, ShapeInv

\* A step of a call.
LEMMA WorkType ==
    ASSUME TypeInv, UNCHANGED <<opts, bounds>>,
           shards' \in Seq(StandardEnvType), Len(shards') = Len(shards), EnvsInv',
           slots' \in Seq(SUBSET (0..HashSlots - 1)), Len(slots') = Len(slots),
           envIsUp' \in BOOLEAN, envIsHealthy' \in BOOLEAN, lost' \in BOOLEAN,
           call' \in CallType,
           call'.step \notin {"idle", "wait"} => call'.at \in 1..Len(shards),
           call'.step \in {"clean up", "configure", "wait"} => opts.cluster,
           result' \in {result, "ok", "raised", "start failed"}
    PROVE  TypeInv'
<1>1. UNCHANGED <<opts, calls, crashes, hangs>>
  BY DEF bounds
<1>2. TypeOK'
  <2>1. shards' \in Seq(StandardEnvType) /\ Len(shards') \in 1..MaxShards
        /\ slots' \in Seq(SUBSET (0..HashSlots - 1)) /\ Len(slots') = Len(shards')
    BY DEF TypeInv, TypeOK
  <2>2. DOMAIN shards' = 1..Len(shards)
    BY <2>1, LenProperties
  <2>3. /\ opts' \in Options
        /\ calls' \in 0..MaxCalls[opts]' /\ crashes' \in 0..MaxCrashes
        /\ hangs' \in 0..MaxHangs
    BY <1>1 DEF TypeInv, TypeOK
  <2>4. result' \in {"none", "ok", "early", "raised", "start failed"}
    BY DEF TypeInv, TypeOK
  <2> QED
    BY <2>1, <2>2, <2>3, <2>4 DEF TypeOK
<1> QED
  BY <1>1, <1>2 DEF TypeInv, ShapeInv

LEMMA ShardsLen ==
    ASSUME TypeInv
    PROVE  Len(shards) \in Nat
  BY LenProperties DEF TypeInv, TypeOK

\* A call that is not over.
LEMMA AtShard ==
    ASSUME TypeInv, call.step \notin {"idle", "wait"}
    PROVE  /\ call \in CallType /\ call.at \in 1..Len(shards) /\ call.at \in DOMAIN shards
           /\ call.masters \in BOOLEAN /\ call.slaves \in BOOLEAN /\ call.restart \in BOOLEAN
           /\ Len(shards) \in 1..MaxShards
           /\ DOMAIN shards = 1..Len(shards)
           /\ EnvInv(shards[call.at])
<1>1. DOMAIN shards = 1..Len(shards)
  BY LenProperties DEF TypeInv, TypeOK
<1> QED
  BY <1>1 DEF TypeInv, TypeOK, CallType, EnvsInv

LEMMA AtLast ==
    ASSUME TypeInv, call.step \notin {"idle", "wait"}, ~(call.at < Len(shards))
    PROVE  call.at = Len(shards)
  BY AtShard, ShardsLen

LEMMA NextShard ==
    ASSUME TypeInv, call.step \notin {"idle", "wait"}, call.at < Len(shards),
           call' = [call EXCEPT !.at = @ + 1]
    PROVE  /\ call' \in CallType /\ call'.at \in 1..Len(shards) /\ call'.at = call.at + 1
           /\ call'.step = call.step
           /\ call'.masters = call.masters /\ call'.slaves = call.slaves
           /\ call'.for = call.for
<1>1. call.at + 1 \in 1..Len(shards) /\ call.at + 1 \in 0..MaxShards
  BY AtShard, EnvRunnerAssumption
<1> QED
  BY <1>1, AtShard DEF CallType

LEMMA FirstShard ==
    ASSUME TypeInv
    PROVE  1 \in 0..MaxShards /\ 1 \in 1..Len(shards) /\ 1 \in DOMAIN shards
<1>1. Len(shards) \in 1..MaxShards /\ MaxShards \in Nat
  BY EnvRunnerAssumption DEF TypeInv, TypeOK
<1>2. DOMAIN shards = 1..Len(shards)
  BY LenProperties DEF TypeInv, TypeOK
<1>3. 1 \in 0..MaxShards /\ 1 \in 1..Len(shards)
  BY <1>1
<1> QED
  BY Zenon, <1>2, <1>3

\* Where a call goes when it turns to another loop.
LEMMA OtherLoop ==
    ASSUME TypeInv, NEW step \in {"start", "clean up", "configure", "stop", "segfault"}
    PROVE  /\ [Idle EXCEPT !.step = step, !.at = 1] \in CallType
           /\ 1 \in 1..Len(shards) /\ 1 \in DOMAIN shards
           /\ \A what \in {"start", "add", "reload"} :
                 [Idle EXCEPT !.step = "wait", !.for = what] \in CallType
<1>1. 1 \in 0..MaxShards /\ 1 \in 1..Len(shards) /\ 1 \in DOMAIN shards
  BY FirstShard
<1> QED
  BY <1>1, IdleType DEF CallType, Idle

\* Where a call may go from a shard.
Moves ==
    \/ call' = Idle /\ result' \in {"ok", "raised", "start failed"}
    \/ /\ call.at < Len(shards) /\ opts.cluster
       /\ call' = [call EXCEPT !.at = @ + 1] /\ result' = result
    \/ /\ opts.cluster
       /\ \E step \in {"clean up", "configure"} :
             call' = [Idle EXCEPT !.step = step, !.at = 1]
       /\ result' = result
    \/ /\ opts.cluster
       /\ \E what \in {"start", "reload"} :
             call' = [Idle EXCEPT !.step = "wait", !.for = what]
       /\ result' = result

LEMMA MovesType ==
    ASSUME TypeInv, call.step \notin {"idle", "wait"}, Moves
    PROVE  /\ call' \in CallType
           /\ call'.step \notin {"idle", "wait"} => call'.at \in 1..Len(shards)
           /\ call'.step \in {"clean up", "configure", "wait"} => opts.cluster
           /\ result' \in {result, "ok", "raised", "start failed"}
<1>1. CASE call' = Idle /\ result' \in {"ok", "raised", "start failed"}
  BY <1>1, IdleType DEF Idle
<1>2. CASE /\ call.at < Len(shards) /\ opts.cluster
           /\ call' = [call EXCEPT !.at = @ + 1] /\ result' = result
  BY <1>2, NextShard DEF TypeInv, ShapeInv
<1>3. CASE /\ opts.cluster
           /\ \E step \in {"clean up", "configure"} :
                 call' = [Idle EXCEPT !.step = step, !.at = 1]
           /\ result' = result
  BY <1>3, OtherLoop DEF Idle
<1>4. CASE /\ opts.cluster
           /\ \E what \in {"start", "reload"} :
                 call' = [Idle EXCEPT !.step = "wait", !.for = what]
           /\ result' = result
  BY <1>4, OtherLoop DEF Idle
<1> QED
  BY <1>1, <1>2, <1>3, <1>4 DEF Moves

\* A step that leaves each shard a good one.
LEMMA MovesInv ==
    ASSUME TypeInv, call.step \notin {"idle", "wait"}, Moves,
           UNCHANGED <<opts, slots, bounds>>,
           envIsUp' \in BOOLEAN, envIsHealthy' \in BOOLEAN, lost' = lost,
           NEW env, EnvInv(env), Becomes(env)
    PROVE  TypeInv'
<1>1. /\ shards' \in Seq(StandardEnvType) /\ Len(shards') = Len(shards) /\ EnvsInv'
  BY AtShard, BecomesInv
<1>2. /\ slots' \in Seq(SUBSET (0..HashSlots - 1)) /\ Len(slots') = Len(slots)
      /\ lost' \in BOOLEAN
  BY DEF TypeInv, TypeOK
<1> QED
  BY <1>1, <1>2, MovesType, WorkType

-----------------------------------------------------------------------------
\* StartShard, as the other steps of calls below: what becomes of the shard,
\* and where the call goes.
LEMMA StartShardStep ==
    ASSUME TypeInv, StartShard
    PROVE  /\ call.step = "start" /\ Moves /\ lost' = lost
           /\ UNCHANGED <<opts, slots, flags, bounds>>
           /\ call'.step # "wait"
           /\ call'.step = "idle" => result' # "start failed"
           /\ \E env : EnvInv(env) /\ Becomes(env)
<1>1. PICK r \in StartEnv(shards[call.at], call.masters, call.slaves) :
         /\ Becomes(r.env)
         /\ lost' = (lost \/ Abandons(shards[call.at], r.env))
         /\ \/ call' = [Idle EXCEPT !.step = "clean up", !.at = 1] /\ opts.cluster
               /\ result' = result
            \/ call' = Idle /\ result' \in {"raised", "ok"}
            \/ call' = [call EXCEPT !.at = @ + 1] /\ call.at < Len(shards)
               /\ opts.cluster /\ result' = result
            \/ call' = [Idle EXCEPT !.step = "configure", !.at = 1] /\ opts.cluster
               /\ result' = result
  BY DEF StartShard, Ends, Proceeds
<1>2. EnvInv(r.env) /\ ~Abandons(shards[call.at], r.env)
  BY AtShard, StartEnvInv DEF StartShard
<1>3. lost' = lost
  BY Zenon, <1>1, <1>2 DEF TypeInv, TypeOK
<1>4. Moves
  BY <1>1 DEF Moves
<1>5. (call'.step = "idle" => result' # "start failed") /\ call'.step # "wait"
  <2>1. call.step = "start" /\ call \in CallType
    BY AtShard DEF StartShard
  <2>2. CASE call' = [Idle EXCEPT !.step = "clean up", !.at = 1]
             \/ call' = [Idle EXCEPT !.step = "configure", !.at = 1]
    BY <2>2 DEF Idle
  <2>3. CASE call' = Idle /\ result' \in {"raised", "ok"}
    BY <2>3 DEF Idle
  <2>4. CASE call' = [call EXCEPT !.at = @ + 1]
    BY <2>1, <2>4 DEF CallType
  <2> QED
    BY <1>1, <2>2, <2>3, <2>4
<1> QED
  BY <1>1, <1>2, <1>3, <1>4, <1>5 DEF StartShard

\* The last shard is left for good.
LastShard ==
    \/ call.at = Len(shards) /\ call' = Idle
    \/ /\ call.at < Len(shards) /\ opts.cluster
       /\ call' = [call EXCEPT !.at = @ + 1] /\ result' = result

LEMMA CleanUpShardStep ==
    ASSUME TypeInv, CleanUpShard
    PROVE  /\ call.step = "clean up" /\ Moves /\ LastShard /\ lost' = lost
           /\ UNCHANGED <<opts, slots, flags, bounds>>
           /\ \E env : EnvInv(env) /\ Down(env) /\ Becomes(env)
<1>1. PICK env \in StopEnv(shards[call.at], TRUE, TRUE, opts.retries) : Becomes(env)
  BY DEF CleanUpShard
<1>2. EnvInv(env) /\ Down(env)
  BY AtShard, OptsTypes, StopEnvInv DEF CleanUpShard
<1>3. opts.cluster /\ call.step = "clean up" /\ call.at \in 1..Len(shards)
  BY AtShard DEF CleanUpShard, TypeInv, ShapeInv
<1>4. \/ call' = Idle /\ result' = "start failed" /\ ~(call.at < Len(shards))
      \/ call' = [call EXCEPT !.at = @ + 1] /\ call.at < Len(shards) /\ result' = result
  BY <1>3 DEF CleanUpShard, Ends, Proceeds
<1>5. Moves
  BY <1>3, <1>4 DEF Moves
<1>6. LastShard
  <2>1. ~(call.at < Len(shards)) => call.at = Len(shards)
    BY <1>3, AtLast
  <2> QED
    BY <1>3, <1>4, <2>1 DEF LastShard
<1> QED
  BY <1>1, <1>2, <1>3, <1>5, <1>6 DEF CleanUpShard

LEMMA StopShardStep ==
    ASSUME TypeInv, StopShard
    PROVE  /\ call.step = "stop" /\ Moves /\ LastShard /\ lost' = lost
           /\ UNCHANGED <<opts, slots, bounds>>
           /\ envIsUp' \in BOOLEAN /\ envIsHealthy' \in BOOLEAN
           /\ call'.step = "idle" => result' # "start failed"
           /\ \E env : EnvInv(env) /\ Becomes(env)
           /\ call.masters /\ call.slaves => \E env : EnvInv(env) /\ Becomes(env) /\ Down(env)
<1>1. PICK env \in StopEnv(shards[call.at], call.masters, call.slaves, opts.retries) :
         /\ Becomes(env)
         /\ envIsUp' = (opts.cluster /\ (envIsUp \/ env.envIsUp))
         /\ envIsHealthy' = (opts.cluster /\ envIsHealthy /\ env.envIsUp)
  BY DEF StopShard
<1>2. EnvInv(env) /\ (call.masters /\ call.slaves => Down(env))
  BY AtShard, OptsTypes, StopEnvInv DEF StopShard
<1>3. call.step = "stop" /\ call.at \in 1..Len(shards) /\ call \in CallType
  BY AtShard DEF StopShard
<1>4. \/ /\ call' = Idle /\ result' = "ok" /\ ~(opts.cluster /\ call.at < Len(shards))
      \/ /\ call' = [call EXCEPT !.at = @ + 1] /\ opts.cluster /\ call.at < Len(shards)
         /\ result' = result
  BY <1>3 DEF StopShard, Ends, Proceeds
<1>5. Moves
  BY <1>4 DEF Moves
<1>6. LastShard
  <2>1. ~(opts.cluster /\ call.at < Len(shards)) => call.at = Len(shards)
    <3>1. ~opts.cluster => Len(shards) = 1 /\ call.at = 1
      BY <1>3, ShardsLen DEF TypeInv, ShapeInv
    <3> QED
      BY <1>3, <3>1, AtLast
  <2> QED
    BY <1>4, <2>1 DEF LastShard
<1>7. envIsUp' \in BOOLEAN /\ envIsHealthy' \in BOOLEAN
  BY Zenon, <1>1
<1>8. call'.step = "idle" => result' # "start failed"
  BY <1>3, <1>4 DEF Idle, CallType
<1> QED
  BY <1>1, <1>2, <1>3, <1>5, <1>6, <1>7, <1>8 DEF StopShard

LEMMA SegFaultShardStep ==
    ASSUME TypeInv, SegFaultShard
    PROVE  /\ call.step = "segfault" /\ Moves /\ lost' = lost
           /\ UNCHANGED <<opts, slots, flags, bounds>>
           /\ call'.step # "wait"
           /\ call'.step = "idle" => result' # "start failed"
           /\ \E env : EnvInv(env) /\ Becomes(env)
<1>1. EnvInv(StopEnvWithSegFault(shards[call.at], call.masters, call.slaves))
  BY AtShard, SegFaultInv DEF SegFaultShard
<1>2. call.step = "segfault" /\ call \in CallType
  BY AtShard DEF SegFaultShard
<1>3. \/ call' = Idle /\ result' = "ok"
      \/ /\ call' = [call EXCEPT !.at = @ + 1] /\ opts.cluster /\ call.at < Len(shards)
         /\ result' = result
  BY DEF SegFaultShard, Ends, Proceeds
<1>4. (call'.step = "idle" => result' # "start failed") /\ call'.step # "wait"
  <2>1. CASE call' = Idle /\ result' = "ok"
    BY <2>1 DEF Idle
  <2>2. CASE call' = [call EXCEPT !.at = @ + 1]
    BY <1>2, <2>2 DEF CallType
  <2> QED
    BY <1>3, <2>1, <2>2
<1>5. Moves
  BY <1>3 DEF Moves
<1>6. \E env : EnvInv(env) /\ Becomes(env)
  BY Zenon, <1>1 DEF SegFaultShard
<1> QED
  BY <1>2, <1>4, <1>5, <1>6 DEF SegFaultShard

LEMMA ReloadShardStep ==
    ASSUME TypeInv, ReloadShard
    PROVE  /\ call.step = "reload" /\ Moves /\ lost' = lost
           /\ UNCHANGED <<opts, slots, flags, bounds>>
           /\ call'.step = "idle" => result' # "start failed"
           /\ call'.step \notin {"clean up", "configure"}
           /\ call'.step = "wait" => call'.for # "start"
           /\ \E env : EnvInv(env) /\ Becomes(env)
<1>1. PICK r \in DumpAndReload(shards[call.at], call.restart, opts.retries) :
         /\ Becomes(r.env)
         /\ \/ call' = Idle /\ result' \in {"raised", "ok"}
            \/ /\ call' = [call EXCEPT !.at = @ + 1] /\ opts.cluster
               /\ call.at < Len(shards) /\ result' = result
            \/ /\ call' = [Idle EXCEPT !.step = "wait", !.for = "reload"]
               /\ opts.cluster /\ result' = result
  BY DEF ReloadShard, Ends, Proceeds, WaitsFor
<1>2. EnvInv(r.env)
  BY AtShard, OptsTypes, ReloadInv DEF ReloadShard
<1>3. call.step = "reload" /\ call \in CallType
  BY AtShard DEF ReloadShard
<1>4. Moves
  BY <1>1 DEF Moves
<1>5. /\ call'.step = "idle" => result' # "start failed"
      /\ call'.step \notin {"clean up", "configure"}
      /\ call'.step = "wait" => call'.for # "start"
  <2>1. CASE call' = Idle /\ result' \in {"raised", "ok"}
    BY <2>1 DEF Idle
  <2>2. CASE call' = [call EXCEPT !.at = @ + 1]
    BY <1>3, <2>2 DEF CallType
  <2>3. CASE call' = [Idle EXCEPT !.step = "wait", !.for = "reload"]
    BY <2>3 DEF Idle
  <2> QED
    BY <1>1, <2>1, <2>2, <2>3
<1> QED
  BY <1>1, <1>2, <1>3, <1>4, <1>5 DEF ReloadShard

-----------------------------------------------------------------------------
(* The hash slots.                                                         *)

LEMMA SlotsRange ==
    ASSUME NEW n \in Nat \ {0}, NEW i \in 1..n
    PROVE  SlotsOf(i, n) \subseteq 0..HashSlots - 1
<1> DEFINE k == (HashSlots \div n) + 1
           start == (i - 1) * k
<1>1. HashSlots \in Nat /\ k \in Nat
  BY EnvRunnerAssumption
<1>2. start \in Nat
  <2> HIDE DEF k
  <2> QED BY <1>1
<1>3. SlotsOf(i, n) = start..(IF start + k > HashSlots THEN HashSlots ELSE start + k) - 1
  BY DEF SlotsOf
<1> HIDE DEF k, start
<1> QED
  BY <1>1, <1>2, <1>3

\* Two shards of as many get no slot in common.
LEMMA SlotsDisjoint ==
    ASSUME NEW n \in Nat \ {0}, NEW i \in 1..n, NEW j \in 1..n, i < j
    PROVE  SlotsOf(i, n) \cap SlotsOf(j, n) = {}
<1> DEFINE k == (HashSlots \div n) + 1
           start == (i - 1) * k
           next == (j - 1) * k
<1>1. HashSlots \in Nat /\ k \in Nat
  BY EnvRunnerAssumption
<1>2. start \in Nat /\ next \in Nat /\ start + k <= next
  <2> HIDE DEF k
  <2> QED BY <1>1
<1>3. /\ SlotsOf(i, n) = start..(IF start + k > HashSlots THEN HashSlots ELSE start + k) - 1
      /\ SlotsOf(j, n) = next..(IF next + k > HashSlots THEN HashSlots ELSE next + k) - 1
  BY DEF SlotsOf
<1> HIDE DEF k, start, next
<1> QED
  BY <1>1, <1>2, <1>3

\* The shards get all slots between them.
LEMMA SlotsCover ==
    ASSUME NEW n \in Nat \ {0}, NEW x \in 0..HashSlots - 1
    PROVE  \E i \in 1..n : x \in SlotsOf(i, n)
<1> DEFINE k == (HashSlots \div n) + 1
           i == (x \div k) + 1
<1>1. HashSlots \in Nat /\ k \in Nat \ {0}
  BY EnvRunnerAssumption
<1>2. HashSlots < n * k
  BY EnvRunnerAssumption
<1>3. i \in Nat \ {0} /\ (i - 1) * k <= x /\ x < (i - 1) * k + k
  <2> HIDE DEF k
  <2> QED BY <1>1
<1>4. i <= n
  <2>1. SUFFICES ASSUME i > n PROVE FALSE
    BY <1>3
  <2> HIDE DEF k, i
  <2>2. (i - 1) * k >= n * k
    BY <1>1, <1>3, <2>1
  <2> QED
    BY <1>1, <1>2, <1>3, <2>2
<1>5. SlotsOf(i, n) =
        ((i - 1) * k)..(IF (i - 1) * k + k > HashSlots THEN HashSlots ELSE (i - 1) * k + k) - 1
  <2> HIDE DEF i
  <2> QED BY DEF SlotsOf
<1>6. x \in SlotsOf(i, n)
  <2> DEFINE start == (i - 1) * k
  <2>1. start <= x /\ x < start + k
    BY <1>3
  <2>2. start \in Int
    <3> HIDE DEF k, i
    <3> QED BY <1>1, <1>3
  <2>3. SlotsOf(i, n) = start..(IF start + k > HashSlots THEN HashSlots ELSE start + k) - 1
    BY <1>5
  <2> HIDE DEF k, i, start
  <2> QED
    BY <1>1, <2>1, <2>2, <2>3
<1> QED
  <2> HIDE DEF i
  <2> QED BY <1>3, <1>4, <1>6

-----------------------------------------------------------------------------
(* The steps that are not about one shard.                                 *)

LEMMA ConfigureShardStep ==
    ASSUME TypeInv, ConfigureShard
    PROVE  /\ call.step = "configure" /\ Moves /\ lost' = lost
           /\ UNCHANGED <<opts, shards, flags, bounds>>
           /\ call'.step = "idle" => result' # "start failed"
           /\ \/ call' = Idle /\ slots' = slots
              \/ LET mine == SlotsOf(call.at, Len(shards))
                 IN  /\ \/ /\ mine \cap slots[call.at] = {}
                           /\ slots' = [slots EXCEPT ![call.at] = @ \cup mine]
                        \/ /\ mine \cap UNION {slots[j] : j \in DOMAIN slots} # {}
                           /\ slots' = slots
                     /\ \/ /\ call.at < Len(shards)
                           /\ call' = [call EXCEPT !.at = @ + 1]
                        \/ /\ call.at = Len(shards)
                           /\ call' = [Idle EXCEPT !.step = "wait", !.for = "start"]
<1> DEFINE mine == SlotsOf(call.at, Len(shards))
           taken == UNION {slots[j] : j \in DOMAIN slots}
           Given == \/ /\ mine \cap slots[call.at] = {}
                       /\ slots' = [slots EXCEPT ![call.at] = @ \cup mine]
                    \/ mine \cap taken # {} /\ slots' = slots
           Goes == \/ /\ opts.cluster /\ call.at < Len(shards)
                      /\ call' = [call EXCEPT !.at = @ + 1] /\ result' = result
                   \/ /\ ~(opts.cluster /\ call.at < Len(shards))
                      /\ call' = [Idle EXCEPT !.step = "wait", !.for = "start"]
                      /\ result' = result
<1>1. /\ call.step = "configure" /\ call \in CallType /\ opts.cluster
      /\ UNCHANGED <<opts, shards, flags, bounds, lost>>
      /\ shards[call.at].master.handle \in {"none", "serving", "silent", "dead"}
  BY AtShard DEF ConfigureShard, TypeInv, ShapeInv, EnvInv, RoleInv, RoleType
<1>2. \/ Given /\ Goes
      \/ call' = Idle /\ result' = "raised" /\ slots' = slots
  BY <1>1 DEF ConfigureShard, Proceeds, WaitsFor, Ends
<1>3. Given /\ Goes =>
        /\ Given
        /\ \/ call.at < Len(shards) /\ call' = [call EXCEPT !.at = @ + 1]
           \/ /\ call.at = Len(shards)
              /\ call' = [Idle EXCEPT !.step = "wait", !.for = "start"]
  <2>1. ~(call.at < Len(shards)) => call.at = Len(shards)
    BY <1>1, AtLast
  <2> HIDE DEF mine, taken
  <2> QED
    BY <1>1, <2>1
<1>4. Moves
  <2> HIDE DEF Given
  <2> QED BY <1>1, <1>2 DEF Moves
<1>5. call'.step = "idle" => result' # "start failed"
  <2> HIDE DEF Given
  <2>1. CASE Goes
    BY <1>1, <2>1 DEF Idle, CallType
  <2> QED
    BY <1>2, <2>1
<1> QED
  BY <1>1, <1>2, <1>3, <1>4, <1>5

LEMMA ConfigureShardSlots ==
    ASSUME TypeInv, ConfigureShard
    PROVE  slots' \in Seq(SUBSET (0..HashSlots - 1)) /\ Len(slots') = Len(slots)
<1> DEFINE mine == SlotsOf(call.at, Len(shards))
<1>1. slots' = slots \/ slots' = [slots EXCEPT ![call.at] = @ \cup mine]
  BY ConfigureShardStep
<1>2. /\ slots \in Seq(SUBSET (0..HashSlots - 1)) /\ Len(slots) = Len(shards)
      /\ DOMAIN slots = 1..Len(shards)
  BY LenProperties DEF TypeInv, TypeOK
<1>3. call.at \in 1..Len(shards) /\ Len(shards) \in Nat \ {0}
  BY AtShard, ShardsLen DEF ConfigureShard
<1>4. mine \subseteq 0..HashSlots - 1
  BY <1>3, SlotsRange
<1>5. slots[call.at] \cup mine \in SUBSET (0..HashSlots - 1)
  <2> HIDE DEF mine
  <2>1. slots[call.at] \in SUBSET (0..HashSlots - 1)
    BY <1>2, <1>3
  <2> QED BY <1>4, <2>1
<1> HIDE DEF mine
<1> QED
  BY <1>1, <1>2, <1>3, <1>5

LEMMA WaitStep ==
    ASSUME TypeInv, WaitSucceeds \/ WaitTimesOut
    PROVE  /\ call.step = "wait" /\ call' = Idle /\ result' \in {"ok", "raised"}
           /\ UNCHANGED <<opts, shards, slots, bounds, lost>>
           /\ envIsUp' \in BOOLEAN /\ envIsHealthy' \in BOOLEAN
<1>1. envIsUp \in BOOLEAN /\ envIsHealthy \in BOOLEAN
  BY DEF TypeInv, TypeOK
<1> QED
  BY <1>1 DEF WaitSucceeds, WaitTimesOut, Ends, flags

LEMMA AddShardStep ==
    ASSUME TypeInv, AddShard
    PROVE  /\ opts.cluster /\ Len(shards) < MaxShards /\ call = Idle /\ lost' = lost
           /\ calls < MaxCalls[opts] /\ calls' = calls + 1
           /\ UNCHANGED <<opts, flags, crashes, hangs>>
           /\ \/ UNCHANGED <<shards, slots>> /\ call' = Idle /\ result' = "raised"
              \/ /\ \E env : EnvInv(env) /\ shards' = Append(shards, env)
                 /\ slots' = Append(slots, {})
                 /\ \/ call' = Idle /\ result' = "raised"
                    \/ call' = [Idle EXCEPT !.step = "wait", !.for = "add"] /\ result' = result
<1> DEFINE new == New(FreshPort, opts.useSlaves)
<1>1. EnvInv(new)
  <2>1. shards[Len(shards)] \in StandardEnvType
    <3>1. Len(shards) \in 1..Len(shards)
      BY ShardsLen, FirstShard
    <3> QED
      BY <3>1, LenProperties DEF TypeInv, TypeOK
  <2>2. FreshPort \in Nat
    BY <2>1 DEF FreshPort, StandardEnvType
  <2> QED
    BY <2>2, OptsTypes, NewInv
<1>2. PICK r \in StartEnv(new, TRUE, TRUE) :
         \/ /\ Calls(Idle) /\ result' = "raised"
            /\ \E env \in StopEnv(r.env, TRUE, TRUE, opts.retries) :
                   lost' = (lost \/ Alive(env.master) \/ Alive(env.slave))
            /\ UNCHANGED <<shards, slots>>
         \/ /\ shards' = Append(shards, r.env) /\ slots' = Append(slots, {})
            /\ \/ /\ Calls([Idle EXCEPT !.step = "wait", !.for = "add"])
                  /\ UNCHANGED result
               \/ Calls(Idle) /\ result' = "raised"
            /\ UNCHANGED lost
  BY DEF AddShard
<1>3. EnvInv(r.env)
  <2> HIDE DEF new
  <2> QED BY <1>1, <1>2, StartEnvInv
<1>4. \A env \in StopEnv(r.env, TRUE, TRUE, opts.retries) :
         ~Alive(env.master) /\ ~Alive(env.slave)
  BY <1>3, OptsTypes, StopEnvInv DEF Down, Alive
<1>5. lost' = lost
  <2>1. lost \in BOOLEAN
    BY DEF TypeInv, TypeOK
  <2> QED
    BY Zenon, <1>2, <1>4, <2>1
<1> HIDE DEF new
<1>6. opts.cluster /\ Len(shards) < MaxShards /\ UNCHANGED flags
  BY DEF AddShard
<1> QED
  BY <1>2, <1>3, <1>5, <1>6 DEF Calls

\* A server that dies or falls silent.
Hurts(i, env) ==
    /\ EnvInv(env)
    /\ Down(shards[i]) => Down(env)
    /\ shards' = [shards EXCEPT ![i] = env]

LEMMA HurtInv ==
    ASSUME NEW env, EnvInv(env), NEW role \in Roles, NEW p, RoleInv(p),
           Alive(env[role])
    PROVE  EnvInv([env EXCEPT ![role] = p]) /\ ~Down(env)
<1>1. CASE role = "master"
  <2>1. [env EXCEPT ![role] = p] = [env EXCEPT !.master = p, !.slave = env.slave]
    BY <1>1 DEF EnvInv, StandardEnvType
  <2>2. EnvInv([env EXCEPT !.master = p, !.slave = env.slave])
    <3>1. RoleInv(env.slave) /\ (~env.useSlaves => env.slave.handle = "none")
      BY DEF EnvInv
    <3> QED BY <3>1, RolesInv
  <2> QED
    BY <1>1, <2>1, <2>2 DEF Alive, Down
<1>2. CASE role = "slave"
  <2>1. [env EXCEPT ![role] = p] = [env EXCEPT !.master = env.master, !.slave = p]
    BY <1>2 DEF EnvInv, StandardEnvType
  <2>2. env.useSlaves
    BY <1>2 DEF EnvInv, Alive, StandardEnvType
  <2>3. EnvInv([env EXCEPT !.master = env.master, !.slave = p])
    BY <2>2, RolesInv DEF EnvInv
  <2> QED
    BY <1>2, <2>1, <2>3 DEF Alive, Down
<1> QED
  BY <1>1, <1>2 DEF Roles

LEMMA SilentInv ==
    ASSUME NEW p, RoleInv(p), p.handle = "serving"
    PROVE  RoleInv([p EXCEPT !.handle = "silent"])
  BY DEF RoleInv, RoleType

LEMMA CrashStep ==
    ASSUME TypeInv, Crash \/ FallSilent
    PROVE  /\ UNCHANGED <<opts, slots, flags, call, result, calls, lost>>
           /\ crashes' \in 0..MaxCrashes /\ hangs' \in 0..MaxHangs
           /\ \E i \in DOMAIN shards : \E env : Hurts(i, env)
<1>1. /\ UNCHANGED <<opts, slots, flags, call, result, calls, lost>>
      /\ crashes' \in 0..MaxCrashes /\ hangs' \in 0..MaxHangs
  <2>1. crashes \in 0..MaxCrashes /\ hangs \in 0..MaxHangs /\ MaxCrashes \in Nat /\ MaxHangs \in Nat
    BY EnvRunnerAssumption DEF TypeInv, TypeOK
  <2> QED
    BY <2>1 DEF Crash, FallSilent
<1>2. PICK i \in DOMAIN shards, role \in Roles :
         /\ Alive(shards[i][role])
         /\ \/ shards' = [shards EXCEPT ![i][role] = Dead(@)]
            \/ /\ shards[i][role].handle = "serving"
               /\ shards' = [shards EXCEPT ![i][role].handle = "silent"]
  BY DEF Crash, FallSilent, Alive
<1>3. EnvInv(shards[i])
  BY DEF TypeInv, EnvsInv
<1>4. RoleInv(shards[i][role])
  BY <1>3 DEF EnvInv, Roles
<1>5. ASSUME NEW p, RoleInv(p), shards' = [shards EXCEPT ![i] = [shards[i] EXCEPT ![role] = p]]
      PROVE  \E env : Hurts(i, env)
  <2>1. EnvInv([shards[i] EXCEPT ![role] = p]) /\ ~Down(shards[i])
    BY <1>2, <1>3, <1>5, HurtInv
  <2> QED
    BY <1>5, <2>1 DEF Hurts
<1>6. CASE shards' = [shards EXCEPT ![i][role] = Dead(@)]
  <2>1. shards' = [shards EXCEPT ![i] = [shards[i] EXCEPT ![role] = Dead(shards[i][role])]]
    BY <1>6
  <2> QED
    BY <1>4, <1>5, <2>1, DeadInv, <1>1
<1>7. CASE /\ shards[i][role].handle = "serving"
           /\ shards' = [shards EXCEPT ![i][role].handle = "silent"]
  <2>1. shards' = [shards EXCEPT ![i] =
                     [shards[i] EXCEPT ![role] = [shards[i][role] EXCEPT !.handle = "silent"]]]
    BY <1>7
  <2> QED
    BY <1>4, <1>5, <1>7, <2>1, SilentInv, <1>1
<1> QED
  BY <1>2, <1>6, <1>7

LEMMA ShardStepTypes ==
    ASSUME TypeInv, StartShard \/ CleanUpShard \/ StopShard \/ SegFaultShard \/ ReloadShard
    PROVE  TypeInv' /\ lost' = lost
<1>0. envIsUp \in BOOLEAN /\ envIsHealthy \in BOOLEAN
  BY DEF TypeInv, TypeOK
<1>1. /\ call.step \notin {"idle", "wait"} /\ Moves
      /\ UNCHANGED <<opts, slots, bounds>> /\ lost' = lost
      /\ envIsUp' \in BOOLEAN /\ envIsHealthy' \in BOOLEAN
      /\ \E env : EnvInv(env) /\ Becomes(env)
  <2>1. CASE StartShard
    BY <1>0, <2>1, StartShardStep DEF flags
  <2>2. CASE CleanUpShard
    BY <1>0, <2>2, CleanUpShardStep DEF flags
  <2>3. CASE StopShard
    <3>1. \E env : EnvInv(env) /\ Becomes(env)
      BY <2>3, StopShardStep
    <3>2. call.step \notin {"idle", "wait"}
      BY <2>3, StopShardStep
    <3>3. Moves /\ UNCHANGED <<opts, slots, bounds>> /\ lost' = lost
      BY <2>3, StopShardStep
    <3>4. envIsUp' \in BOOLEAN /\ envIsHealthy' \in BOOLEAN
      BY <2>3, StopShardStep
    <3> QED
      BY Zenon, <3>1, <3>2, <3>3, <3>4
  <2>4. CASE SegFaultShard
    BY <1>0, <2>4, SegFaultShardStep DEF flags
  <2>5. CASE ReloadShard
    BY <1>0, <2>5, ReloadShardStep DEF flags
  <2> QED
    BY <2>1, <2>2, <2>3, <2>4, <2>5
<1> QED
  BY <1>1, MovesInv

\* What a call begins with.
Shaped(c) ==
    /\ c \in CallType
    /\ c.step \in {"idle", "start", "stop", "segfault", "reload"}
    /\ c.step # "idle" => c.at \in DOMAIN shards
    /\ c.step = "stop" => c.at = 1

LEMMA ShapedCalls ==
    ASSUME TypeInv, NEW masters \in BOOLEAN, NEW slaves \in BOOLEAN
    PROVE  /\ Shaped(Idle)
           /\ \A step \in {"start", "stop", "segfault"} :
                 Shaped([Idle EXCEPT !.step = step, !.at = 1,
                                     !.masters = masters, !.slaves = slaves])
           /\ \A i \in DOMAIN shards, restart \in BOOLEAN, what \in {"reload", "nothing"} :
                 Shaped([Idle EXCEPT !.step = "reload", !.at = i, !.restart = restart,
                                     !.for = what])
<1>1. DOMAIN shards = 1..Len(shards) /\ Len(shards) \in 1..MaxShards /\ MaxShards \in Nat
  BY LenProperties, EnvRunnerAssumption DEF TypeInv, TypeOK
<1>2. Shaped(Idle)
  BY IdleType DEF Shaped, Idle
<1>3. ASSUME NEW step \in {"start", "stop", "segfault"}
      PROVE  Shaped([Idle EXCEPT !.step = step, !.at = 1,
                                 !.masters = masters, !.slaves = slaves])
  BY FirstShard, IdleType DEF Shaped, CallType, Idle
<1>4. ASSUME NEW i \in DOMAIN shards, NEW restart \in BOOLEAN,
             NEW what \in {"reload", "nothing"}
      PROVE  Shaped([Idle EXCEPT !.step = "reload", !.at = i, !.restart = restart,
                                 !.for = what])
  <2>1. i \in 0..MaxShards
    BY <1>1
  <2> QED
    BY <2>1, IdleType DEF Shaped, CallType, Idle
<1> QED
  BY <1>2, <1>3, <1>4

\* The calls that go through the shards in steps of their own.
LEMMA CallerStep ==
    ASSUME TypeInv, NEW masters \in BOOLEAN, NEW slaves \in BOOLEAN,
           \/ Start(masters, slaves) \/ Stop(masters, slaves) \/ SegFault(masters, slaves)
           \/ \E restart, all \in BOOLEAN : Reload(restart, all)
    PROVE  \E c : /\ Shaped(c) /\ Calls(c)
                  /\ shards' = shards /\ slots' = slots /\ lost' = lost
                  /\ envIsUp' \in BOOLEAN /\ envIsHealthy' \in BOOLEAN
                  /\ result' \in {result, "early"}
                  /\ c.step = "idle" => result' = "early"
<1>0. /\ envIsUp \in BOOLEAN /\ envIsHealthy \in BOOLEAN
  BY DEF TypeInv, TypeOK
<1>s. \A step \in {"start", "stop", "segfault"} :
         [Idle EXCEPT !.step = step, !.at = 1, !.masters = masters, !.slaves = slaves].step = step
  BY DEF Idle
<1>1. CASE Start(masters, slaves)
  BY <1>0, <1>1, <1>s, ShapedCalls DEF Start, flags
<1>2. CASE Stop(masters, slaves)
  BY <1>2, <1>s, ShapedCalls DEF Stop
<1>3. CASE SegFault(masters, slaves)
  BY <1>0, <1>3, <1>s, ShapedCalls DEF SegFault, flags
<1>4. ASSUME NEW restart \in BOOLEAN, NEW all \in BOOLEAN, Reload(restart, all)
      PROVE  \E c : /\ Shaped(c) /\ Calls(c) /\ c.step = "reload"
                    /\ UNCHANGED <<shards, slots, lost, envIsUp, envIsHealthy, result>>
  <2> DEFINE what == IF all THEN "reload" ELSE "nothing"
             asked(i) == [Idle EXCEPT !.step = "reload", !.at = i, !.restart = restart,
                                      !.for = what]
  <2>1. PICK i \in IF all THEN {1} ELSE DOMAIN shards : Calls(asked(i))
    BY <1>4 DEF Reload
  <2>2. i \in DOMAIN shards /\ what \in {"reload", "nothing"}
    BY FirstShard
  <2>3. asked(i).step = "reload"
    BY DEF Idle
  <2>4. Shaped(asked(i))
    <3> HIDE DEF what
    <3> QED BY <2>2, ShapedCalls
  <2>5. UNCHANGED <<shards, slots, lost, envIsUp, envIsHealthy, result>>
    BY <1>4 DEF Reload, flags
  <2> HIDE DEF asked
  <2> QED
    BY <2>1, <2>3, <2>4, <2>5
<1>5. (\E restart, all \in BOOLEAN : Reload(restart, all)) =>
         \E c : /\ Shaped(c) /\ Calls(c) /\ c.step = "reload"
                /\ UNCHANGED <<shards, slots, lost, envIsUp, envIsHealthy, result>>
  BY <1>4
<1> QED
  BY <1>0, <1>1, <1>2, <1>3, <1>5

LEMMA CallerTypes ==
    ASSUME TypeInv, NEW masters \in BOOLEAN, NEW slaves \in BOOLEAN,
           \/ Start(masters, slaves) \/ Stop(masters, slaves) \/ SegFault(masters, slaves)
           \/ \E restart, all \in BOOLEAN : Reload(restart, all)
    PROVE  TypeInv' /\ lost' = lost
<1>1. PICK c : /\ Shaped(c) /\ Calls(c)
               /\ shards' = shards /\ slots' = slots /\ lost' = lost
               /\ envIsUp' \in BOOLEAN /\ envIsHealthy' \in BOOLEAN
               /\ result' \in {result, "early"}
  BY CallerStep
<1>2. /\ c \in CallType /\ c.step \in {"idle", "start", "stop", "segfault", "reload"}
      /\ c.step # "idle" => c.at \in DOMAIN shards
  BY Zenon, <1>1 DEF Shaped
<1>3. lost' \in BOOLEAN
  BY Zenon, <1>1 DEF TypeInv, TypeOK
<1>4. Calls(c) /\ UNCHANGED <<shards, slots>> /\ result' \in {result, "early"}
  BY Zenon, <1>1
<1>5. envIsUp' \in BOOLEAN /\ envIsHealthy' \in BOOLEAN
  BY Zenon, <1>1
<1> QED
  BY Zenon, <1>1, <1>2, <1>3, <1>4, <1>5, CallsType

LEMMA AppendTypes ==
    ASSUME TypeInv, Len(shards) < MaxShards, NEW env, EnvInv(env)
    PROVE  /\ Append(shards, env) \in Seq(StandardEnvType)
           /\ Len(Append(shards, env)) = Len(shards) + 1
           /\ Len(Append(shards, env)) \in 1..MaxShards
           /\ \A i \in DOMAIN Append(shards, env) : EnvInv(Append(shards, env)[i])
           /\ Append(slots, {}) \in Seq(SUBSET (0..HashSlots - 1))
           /\ Len(Append(slots, {})) = Len(slots) + 1
<1>1. /\ shards \in Seq(StandardEnvType) /\ Len(shards) \in 1..MaxShards
      /\ slots \in Seq(SUBSET (0..HashSlots - 1)) /\ MaxShards \in Nat
      /\ env \in StandardEnvType
      /\ DOMAIN shards = 1..Len(shards)
  BY LenProperties, EnvRunnerAssumption DEF TypeInv, TypeOK, EnvInv
<1>2. /\ Append(shards, env) \in Seq(StandardEnvType)
      /\ Len(Append(shards, env)) = Len(shards) + 1
      /\ \A i \in 1..Len(shards) : Append(shards, env)[i] = shards[i]
      /\ Append(shards, env)[Len(shards) + 1] = env
  BY <1>1, AppendProperties
<1>3. /\ Append(slots, {}) \in Seq(SUBSET (0..HashSlots - 1))
      /\ Len(Append(slots, {})) = Len(slots) + 1
  BY <1>1, AppendProperties, {} \in SUBSET (0..HashSlots - 1)
<1>4. Len(Append(shards, env)) \in 1..MaxShards
  BY <1>1, <1>2
<1>5. ASSUME NEW i \in DOMAIN Append(shards, env)
      PROVE  EnvInv(Append(shards, env)[i])
  <2>1. i \in 1..(Len(shards) + 1) /\ Len(shards) \in Nat
    BY <1>1, <1>2, <1>5, LenProperties
  <2>2. CASE i = Len(shards) + 1
    BY <1>2, <2>2
  <2>3. CASE i # Len(shards) + 1
    <3>1. i \in 1..Len(shards)
      BY <2>1, <2>3
    <3>2. EnvInv(shards[i])
      BY <1>1, <3>1 DEF TypeInv, EnvsInv
    <3> QED
      BY <1>2, <3>1, <3>2
  <2> QED
    BY <2>2, <2>3
<1> QED
  BY <1>2, <1>3, <1>4, <1>5

LEMMA AddShardTypes ==
    ASSUME TypeInv, AddShard
    PROVE  TypeInv' /\ lost' = lost
<1>1. /\ opts.cluster /\ Len(shards) < MaxShards /\ call = Idle /\ lost' = lost
      /\ calls < MaxCalls[opts] /\ calls' = calls + 1
      /\ opts' = opts /\ crashes' = crashes /\ hangs' = hangs
      /\ envIsUp' = envIsUp /\ envIsHealthy' = envIsHealthy
  BY AddShardStep DEF flags
<1>2. /\ calls' \in 0..MaxCalls[opts]
      /\ [Idle EXCEPT !.step = "wait", !.for = "add"] \in CallType
  <2>1. MaxCalls[opts] \in Nat /\ calls \in 0..MaxCalls[opts]
    <3>1. MaxCalls[opts] \in Nat
      BY OptsTypes
    <3> QED
      BY <3>1 DEF TypeInv, TypeOK
  <2> QED
    BY <1>1, <2>1, OtherLoop
<1>3. CASE UNCHANGED <<shards, slots>> /\ call' = Idle /\ result' = "raised"
  <2>1. TypeOK'
    BY <1>1, <1>2, <1>3, IdleType DEF TypeInv, TypeOK, Idle
  <2>2. EnvsInv' /\ ShapeInv'
    BY <1>1, <1>3 DEF TypeInv, EnvsInv, ShapeInv, Idle
  <2> QED
    BY <1>1, <2>1, <2>2 DEF TypeInv
<1>4. CASE /\ \E env : EnvInv(env) /\ shards' = Append(shards, env)
           /\ slots' = Append(slots, {})
           /\ \/ call' = Idle /\ result' = "raised"
              \/ call' = [Idle EXCEPT !.step = "wait", !.for = "add"] /\ result' = result
  <2>1. PICK env : EnvInv(env) /\ shards' = Append(shards, env)
    BY <1>4
  <2>2. /\ shards' \in Seq(StandardEnvType) /\ Len(shards') = Len(shards) + 1
        /\ Len(shards') \in 1..MaxShards /\ EnvsInv'
        /\ slots' \in Seq(SUBSET (0..HashSlots - 1)) /\ Len(slots') = Len(shards')
    BY <1>1, <1>4, <2>1, AppendTypes DEF EnvsInv, TypeInv, TypeOK
  <2>3. /\ call' \in CallType /\ call'.step \in {"idle", "wait"}
        /\ result' \in {result, "raised"}
    <3>1. Idle.step = "idle" /\ [Idle EXCEPT !.step = "wait", !.for = "add"].step = "wait"
      BY DEF Idle
    <3> QED
      BY Zenon, <1>2, <1>4, <3>1, IdleType
  <2>4. TypeOK'
    <3>1. opts' \in Options /\ calls' \in 0..MaxCalls[opts']
          /\ crashes' \in 0..MaxCrashes /\ hangs' \in 0..MaxHangs
      BY <1>1, <1>2 DEF TypeInv, TypeOK
    <3>2. envIsUp' \in BOOLEAN /\ envIsHealthy' \in BOOLEAN /\ lost' \in BOOLEAN
      BY <1>1 DEF TypeInv, TypeOK
    <3>3. result' \in {"none", "ok", "early", "raised", "start failed"}
      BY <2>3 DEF TypeInv, TypeOK
    <3>4. call'.step \notin {"idle", "wait"} => call'.at \in DOMAIN shards'
      BY <2>3
    <3> QED
      BY Zenon, <2>2, <2>3, <3>1, <3>2, <3>3, <3>4 DEF TypeOK
  <2>5. ShapeInv'
    <3>1. opts'.cluster
      BY <1>1
    <3>2. Len(shards') >= ShardsCount
      BY <1>1, <2>2, ShardsLen, EnvRunnerAssumption DEF TypeInv, ShapeInv
    <3> QED
      BY Zenon, <3>1, <3>2 DEF ShapeInv
  <2> QED
    BY <1>1, <2>2, <2>4, <2>5 DEF TypeInv
<1> QED
  BY <1>3, <1>4, AddShardStep

LEMMA CrashTypes ==
    ASSUME TypeInv, Crash \/ FallSilent
    PROVE  TypeInv' /\ lost' = lost
<1>1. /\ opts' = opts /\ slots' = slots /\ call' = call /\ result' = result
      /\ envIsUp' = envIsUp /\ envIsHealthy' = envIsHealthy
      /\ calls' = calls /\ lost' = lost
      /\ crashes' \in 0..MaxCrashes /\ hangs' \in 0..MaxHangs
  BY CrashStep DEF flags
<1>2. PICK i \in DOMAIN shards : \E env : Hurts(i, env)
  BY CrashStep
<1>3. PICK env : Hurts(i, env)
  BY <1>2
<1>4. /\ shards \in Seq(StandardEnvType) /\ env \in StandardEnvType
      /\ shards' = [shards EXCEPT ![i] = env] /\ EnvInv(env)
  BY <1>3 DEF Hurts, EnvInv, TypeInv, TypeOK
<1>5. /\ shards' \in Seq(StandardEnvType) /\ Len(shards') = Len(shards)
      /\ DOMAIN shards' = DOMAIN shards
  BY <1>4
<1>6. EnvsInv'
  BY <1>4, <1>5 DEF TypeInv, EnvsInv
<1>7. TypeOK'
  BY <1>1, <1>5 DEF TypeInv, TypeOK
<1>8. ShapeInv'
  BY <1>1, <1>5 DEF TypeInv, ShapeInv
<1> QED
  BY <1>1, <1>6, <1>7, <1>8 DEF TypeInv

LEMMA TypeInit ==
    ASSUME Init
    PROVE  TypeInv
<1> DEFINE n == IF opts.cluster THEN ShardsCount ELSE 1
<1>1. /\ opts \in Options /\ opts.useSlaves \in BOOLEAN
      /\ n \in 1..MaxShards /\ (opts.cluster => n = ShardsCount) /\ (~opts.cluster => n = 1)
      /\ MaxCalls[opts] \in Nat /\ MaxCrashes \in Nat /\ MaxHangs \in Nat
  BY EnvRunnerAssumption DEF Init, OptionsType
<1>2. /\ shards = [i \in 1..n |-> New(2 * i, opts.useSlaves)]
      /\ slots = [i \in DOMAIN shards |-> {}]
  BY DEF Init
<1> HIDE DEF n
<1>3. \A i \in 1..n : EnvInv(New(2 * i, opts.useSlaves))
                       /\ New(2 * i, opts.useSlaves) \in StandardEnvType
  BY <1>1, NewInv DEF EnvInv
<1>4. /\ shards \in Seq(StandardEnvType) /\ Len(shards) = n /\ EnvsInv
      /\ slots \in Seq(SUBSET (0..HashSlots - 1)) /\ Len(slots) = n
  BY <1>1, <1>2, <1>3 DEF EnvsInv
<1>5. TypeOK
  <2>1. /\ envIsUp \in BOOLEAN /\ envIsHealthy \in BOOLEAN /\ lost \in BOOLEAN
        /\ call = Idle /\ result = "none" /\ calls = 0 /\ crashes = 0 /\ hangs = 0
    BY DEF Init
  <2>2. call \in CallType /\ call.step = "idle"
    BY <2>1, IdleType DEF Idle
  <2>3. calls \in 0..MaxCalls[opts] /\ crashes \in 0..MaxCrashes /\ hangs \in 0..MaxHangs
    BY <1>1, <2>1
  <2>4. result \in {"none", "ok", "early", "raised", "start failed"}
    BY <2>1
  <2> QED
    BY <1>1, <1>4, <2>1, <2>2, <2>3, <2>4 DEF TypeOK
<1>6. ShapeInv
  BY <1>1, <1>4 DEF Init, ShapeInv, Idle
<1> QED
  BY <1>4, <1>5, <1>6 DEF TypeInv

LEMMA TypeNext ==
    ASSUME TypeInv, [Next]_vars
    PROVE  TypeInv' /\ (lost' = lost)
<1>1. CASE Work
  <2>1. CASE ConfigureShard
    <3>1. /\ call.step = "configure" /\ Moves /\ lost' = lost
          /\ UNCHANGED <<opts, shards, flags, bounds>>
      BY <2>1, ConfigureShardStep
    <3>2. /\ call' \in CallType
          /\ call'.step \notin {"idle", "wait"} => call'.at \in 1..Len(shards)
          /\ call'.step \in {"clean up", "configure", "wait"} => opts.cluster
          /\ result' \in {result, "ok", "raised", "start failed"}
      BY <3>1, MovesType
    <3>3. /\ UNCHANGED <<opts, bounds>>
          /\ shards' \in Seq(StandardEnvType) /\ Len(shards') = Len(shards) /\ EnvsInv'
      BY <3>1 DEF TypeInv, TypeOK, EnvsInv
    <3>4. envIsUp' \in BOOLEAN /\ envIsHealthy' \in BOOLEAN /\ lost' \in BOOLEAN
      BY <3>1 DEF flags, TypeInv, TypeOK
    <3> QED
      BY <2>1, <3>1, <3>2, <3>3, <3>4, ConfigureShardSlots, WorkType
  <2>2. CASE WaitSucceeds \/ WaitTimesOut
    <3>1. /\ call' = Idle /\ result' \in {"ok", "raised"}
          /\ UNCHANGED <<opts, shards, slots, bounds, lost>>
          /\ envIsUp' \in BOOLEAN /\ envIsHealthy' \in BOOLEAN
      BY <2>2, WaitStep
    <3>2. /\ call' \in CallType /\ call'.step = "idle"
      BY <3>1, IdleType DEF Idle
    <3>3. /\ UNCHANGED <<opts, bounds>> /\ lost' = lost
          /\ shards' \in Seq(StandardEnvType) /\ Len(shards') = Len(shards) /\ EnvsInv'
          /\ slots' \in Seq(SUBSET (0..HashSlots - 1)) /\ Len(slots') = Len(slots)
      BY <3>1 DEF TypeInv, TypeOK, EnvsInv
    <3>4. lost' \in BOOLEAN
      BY <3>1 DEF TypeInv, TypeOK
    <3> QED
      BY <3>1, <3>2, <3>3, <3>4, WorkType
  <2> QED
    BY <1>1, <2>1, <2>2, ShardStepTypes DEF Work
<1>2. CASE Caller
  BY <1>2, CallerTypes, AddShardTypes DEF Caller
<1>3. CASE Crash \/ FallSilent
  BY <1>3, CrashTypes
<1>4. CASE UNCHANGED vars
  BY <1>4 DEF vars, flags, bounds, TypeInv, TypeOK, EnvsInv, ShapeInv
<1> QED
  BY <1>1, <1>2, <1>3, <1>4 DEF Next

\* Every variable keeps its type.
THEOREM TypeHolds == Spec => []TypeOK
<1>1. Init => TypeInv
  BY TypeInit
<1>2. TypeInv /\ [Next]_vars => TypeInv'
  BY TypeNext
<1>3. TypeInv => TypeOK
  BY DEF TypeInv
<1> QED
  BY <1>1, <1>2, <1>3, PTL DEF Spec

\* No call, whatever fails on its way, loses a process that lives.
THEOREM NothingForgotten == Spec => []NoProcessForgotten
<1> DEFINE Inv == TypeInv /\ ~lost
<1>1. Init => Inv
  BY TypeInit DEF Init
<1>2. Inv /\ [Next]_vars => Inv'
  BY TypeNext
<1>3. Inv => NoProcessForgotten
  BY DEF NoProcessForgotten
<1> QED
  BY <1>1, <1>2, <1>3, PTL DEF Spec

\* checkExitCode finds every bad end of a role's first process.
THEOREM CrashReported == Spec => []FirstCrashIsReported
<1>1. Init => TypeInv
  BY TypeInit
<1>2. TypeInv /\ [Next]_vars => TypeInv'
  BY TypeNext
<1>3. TypeInv => FirstCrashIsReported
  <2> SUFFICES ASSUME TypeInv, NEW i \in DOMAIN shards, NEW role \in Roles,
                      role = "slave" => shards[i].useSlaves,
                      shards[i][role].lives < 2, shards[i][role].ended = "dirty"
               PROVE  ~CheckExitCode(shards[i])
    BY DEF FirstCrashIsReported
  <2>1. RoleInv(shards[i].master) /\ RoleInv(shards[i].slave)
    BY DEF TypeInv, EnvsInv, EnvInv
  <2> QED
    BY <2>1 DEF RoleInv, CheckExitCode, Roles
<1> QED
  BY <1>1, <1>2, <1>3, PTL DEF Spec

-----------------------------------------------------------------------------
(* What the loops that stop all shards have done so far.                   *)

StopsAll == call.step = "clean up" \/ (call.step = "stop" /\ call.masters /\ call.slaves)

DownInv ==
    /\ StopsAll => \A i \in 1..Len(shards) : i < call.at => Down(shards[i])
    /\ call.step = "idle" /\ result = "start failed" =>
          \A i \in 1..Len(shards) : Down(shards[i])

LEMMA NoneBefore ==
    ASSUME NEW n
    PROVE  \A i \in 1..n : ~(i < 1)
  OBVIOUS

\* A move of a call that stops nothing.
LEMMA MovesDown ==
    ASSUME TypeInv, call.step \notin {"idle", "wait"}, Moves, ~StopsAll,
           call'.step = "idle" => result' # "start failed"
    PROVE  DownInv'
<1>1. CASE call' = Idle
  BY <1>1 DEF DownInv, StopsAll, Idle
<1>2. CASE call.at < Len(shards) /\ call' = [call EXCEPT !.at = @ + 1]
  <2>1. /\ call'.step = call.step
        /\ call'.masters = call.masters /\ call'.slaves = call.slaves
    BY <1>2, NextShard
  <2>2. ~StopsAll'
    BY Zenon, <2>1 DEF StopsAll
  <2> QED
    BY <2>1, <2>2 DEF DownInv
<1>3. ASSUME NEW step \in {"clean up", "configure"},
             call' = [Idle EXCEPT !.step = step, !.at = 1]
      PROVE  DownInv'
  <2>1. call'.at = 1 /\ call'.step # "idle"
    BY <1>3 DEF Idle
  <2>2. \A i \in 1..Len(shards') : ~(i < 1)
    BY NoneBefore
  <2>3. \A i \in 1..Len(shards') : ~(i < call'.at)
    BY Zenon, <2>1, <2>2
  <2> QED
    BY <2>1, <2>3 DEF DownInv
<1>4. ASSUME NEW what \in {"start", "reload"},
             call' = [Idle EXCEPT !.step = "wait", !.for = what]
      PROVE  DownInv'
  <2>1. call'.step = "wait"
    BY <1>4 DEF Idle
  <2> QED
    BY <2>1 DEF DownInv, StopsAll
<1> QED
  BY <1>1, <1>2, <1>3, <1>4 DEF Moves

\* A loop that stops its shards one after the other.
LEMMA LastShardDown ==
    ASSUME TypeInv, DownInv, StopsAll, LastShard,
           NEW env, EnvInv(env), Down(env), Becomes(env)
    PROVE  /\ DownInv'
           /\ call'.step = "idle" => \A i \in 1..Len(shards) : Down(shards'[i])
           /\ Len(shards') = Len(shards)
<1>0. /\ call.step \notin {"idle", "wait"} /\ call.at \in 1..Len(shards)
      /\ Len(shards) \in Nat /\ DOMAIN shards = 1..Len(shards)
  <2>1. call.step \notin {"idle", "wait"}
    BY DEF StopsAll
  <2> QED
    BY <2>1, AtShard, ShardsLen
<1>1. /\ Len(shards') = Len(shards)
      /\ shards'[call.at] = env
      /\ \A i \in 1..Len(shards) : i # call.at => shards'[i] = shards[i]
  BY <1>0, BecomesInv
<1>2. \A i \in 1..Len(shards) : i <= call.at => Down(shards'[i])
  <2> SUFFICES ASSUME NEW i \in 1..Len(shards), i <= call.at
               PROVE  Down(shards'[i])
    OBVIOUS
  <2>1. CASE i = call.at
    BY <1>1, <2>1
  <2>2. CASE i # call.at
    <3>1. i < call.at
      BY <1>0, <2>2
    <3>2. Down(shards[i])
      BY <3>1 DEF DownInv
    <3> QED
      BY <1>1, <2>2, <3>2
  <2> QED
    BY <2>1, <2>2
<1>3. CASE call.at = Len(shards) /\ call' = Idle
  <2>1. call'.step = "idle"
    BY <1>3 DEF Idle
  <2>2. \A i \in 1..Len(shards) : Down(shards'[i])
    BY <1>0, <1>2, <1>3
  <2>3. \A i \in 1..Len(shards') : Down(shards'[i])
    BY <1>1, <2>2
  <2> QED
    BY <1>1, <2>1, <2>2, <2>3 DEF DownInv, StopsAll
<1>4. CASE call.at < Len(shards) /\ call' = [call EXCEPT !.at = @ + 1]
  <2>1. call'.at = call.at + 1 /\ call'.step = call.step
    BY <1>0, <1>4, NextShard
  <2>2. \A i \in 1..Len(shards') : i < call'.at => Down(shards'[i])
    BY <1>0, <1>1, <1>2, <2>1
  <2> QED
    BY <1>0, <1>1, <2>1, <2>2 DEF DownInv
<1> QED
  BY <1>3, <1>4 DEF LastShard

LEMMA DownInit ==
    ASSUME Init
    PROVE  DownInv
<1>1. call.step = "idle" /\ result = "none"
  BY DEF Init, Idle
<1> QED
  BY <1>1 DEF DownInv, StopsAll

LEMMA DownNext ==
    ASSUME TypeInv, DownInv, [Next]_vars
    PROVE  DownInv'
<1>1. CASE StartShard
  BY <1>1, StartShardStep, MovesDown DEF StopsAll
<1>2. CASE CleanUpShard
  BY <1>2, CleanUpShardStep, LastShardDown DEF StopsAll
<1>3. CASE ConfigureShard
  BY <1>3, ConfigureShardStep, MovesDown DEF StopsAll
<1>4. CASE WaitSucceeds \/ WaitTimesOut
  <2>1. call' = Idle /\ result' \in {"ok", "raised"}
    BY <1>4, WaitStep
  <2>2. call'.step = "idle" /\ result' # "start failed"
    BY <2>1 DEF Idle
  <2> QED
    BY Zenon, <2>2 DEF DownInv, StopsAll
<1>5. CASE StopShard
  <2>1. CASE StopsAll
    BY <1>5, <2>1, StopShardStep, LastShardDown DEF StopsAll
  <2>2. CASE ~StopsAll
    BY <1>5, <2>2, StopShardStep, MovesDown
  <2> QED
    BY <2>1, <2>2
<1>6. CASE SegFaultShard
  BY <1>6, SegFaultShardStep, MovesDown DEF StopsAll
<1>7. CASE ReloadShard
  BY <1>7, ReloadShardStep, MovesDown DEF StopsAll
<1>8. ASSUME NEW masters \in BOOLEAN, NEW slaves \in BOOLEAN,
             \/ Start(masters, slaves) \/ Stop(masters, slaves) \/ SegFault(masters, slaves)
             \/ \E restart, all \in BOOLEAN : Reload(restart, all)
      PROVE  DownInv'
  <2>1. PICK c : /\ Shaped(c) /\ call' = c
                 /\ c.step = "idle" => result' = "early"
    BY <1>8, CallerStep DEF Calls
  <2>2. \A i \in 1..Len(shards') : ~(i < 1)
    BY NoneBefore
  <2>3. StopsAll' => call'.at = 1
    BY <2>1 DEF Shaped, StopsAll
  <2>4. StopsAll' => \A i \in 1..Len(shards') : i < call'.at => Down(shards'[i])
    BY Zenon, <2>2, <2>3
  <2> QED
    BY <2>1, <2>4 DEF DownInv
<1>9. CASE AddShard
  <2>1. \/ call'.step = "idle" /\ result' = "raised"
        \/ call'.step = "wait"
    <3>1. \/ call' = Idle /\ result' = "raised"
          \/ call' = [Idle EXCEPT !.step = "wait", !.for = "add"]
      BY Zenon, <1>9, AddShardStep
    <3>2. /\ Idle.step = "idle"
          /\ [Idle EXCEPT !.step = "wait", !.for = "add"].step = "wait"
      BY DEF Idle
    <3> QED
      BY Zenon, <3>1, <3>2
  <2> QED
    BY <2>1 DEF DownInv, StopsAll
<1>10. CASE Crash \/ FallSilent
  <2>1. PICK i \in DOMAIN shards : \E env : Hurts(i, env)
    BY <1>10, CrashStep
  <2>2. PICK env : Hurts(i, env)
    BY <2>1
  <2>3. /\ Len(shards') = Len(shards) /\ DOMAIN shards = 1..Len(shards)
        /\ \A j \in 1..Len(shards) : Down(shards[j]) => Down(shards'[j])
    <3>1. /\ shards \in Seq(StandardEnvType) /\ DOMAIN shards = 1..Len(shards)
          /\ env \in StandardEnvType /\ shards' = [shards EXCEPT ![i] = env]
          /\ Down(shards[i]) => Down(env)
      <4>1. EnvInv(env) /\ shards' = [shards EXCEPT ![i] = env] /\ (Down(shards[i]) => Down(env))
        BY <2>2 DEF Hurts
      <4>2. shards \in Seq(StandardEnvType)
        BY DEF TypeInv, TypeOK
      <4> QED
        BY <4>1, <4>2, LenProperties DEF EnvInv
    <3>2. Len(shards') = Len(shards)
      BY <3>1
    <3>3. ASSUME NEW j \in 1..Len(shards), Down(shards[j])
          PROVE  Down(shards'[j])
      <4>1. CASE j = i
        <5>1. shards'[i] = env
          BY <3>1
        <5> QED
          BY <3>1, <3>3, <4>1, <5>1
      <4>2. CASE j # i
        <5>1. shards'[j] = shards[j]
          BY <3>1, <4>2
        <5> QED
          BY <3>3, <5>1
      <4> QED
        BY <4>1, <4>2
    <3> QED
      BY <3>1, <3>2, <3>3
  <2>4. call' = call /\ result' = result
    BY <1>10, CrashStep
  <2> QED
    BY <2>3, <2>4 DEF DownInv, StopsAll
<1>11. CASE UNCHANGED vars
  BY <1>11 DEF vars, DownInv, StopsAll, Down
<1> QED
  BY <1>1, <1>2, <1>3, <1>4, <1>5, <1>6, <1>7, <1>8, <1>9, <1>10, <1>11
  DEF Next, Work, Caller

\* A cluster whose start raised holds no process any more.
THEOREM CleansUp == Spec => []FailedStartCleansUp
<1> DEFINE Inv == TypeInv /\ DownInv
<1>1. Init => Inv
  BY TypeInit, DownInit
<1>2. Inv /\ [Next]_vars => Inv'
  BY TypeNext, DownNext
<1>3. Inv => FailedStartCleansUp
  <2> SUFFICES ASSUME Inv, call = Idle, result = "start failed",
                      NEW i \in DOMAIN shards, NEW role \in Roles
               PROVE  shards[i][role].handle = "none"
    BY DEF FailedStartCleansUp
  <2>1. i \in 1..Len(shards) /\ call.step = "idle"
    BY LenProperties DEF TypeInv, TypeOK, Idle
  <2> QED
    BY <2>1 DEF DownInv, Down, Roles
<1> QED
  BY <1>1, <1>2, <1>3, PTL DEF Spec

\* stop() of masters and slaves leaves no process behind.
THEOREM StopIsComplete == Spec => StopReachesAll
<1> DEFINE Inv == TypeInv /\ DownInv
           Reached == call.step = "stop" /\ call.masters /\ call.slaves /\ call' = Idle =>
                         \A i \in DOMAIN shards' :
                             /\ shards'[i].master.handle = "none"
                             /\ shards'[i].slave.handle = "none"
                             /\ ~shards'[i].envIsUp
<1>1. Init => Inv
  BY TypeInit, DownInit
<1>2. Inv /\ [Next]_vars => Inv'
  BY TypeNext, DownNext
<1>3. Inv /\ [Next]_vars => [Reached]_vars
  <2> SUFFICES ASSUME Inv, Next, call.step = "stop", call.masters, call.slaves, call' = Idle
               PROVE  \A i \in DOMAIN shards' :
                          /\ shards'[i].master.handle = "none"
                          /\ shards'[i].slave.handle = "none"
                          /\ ~shards'[i].envIsUp
    OBVIOUS
  <2>1. StopShard
    <3>1. call # Idle /\ call' # call
      BY DEF Idle
    <3>2. ~Caller
      BY <3>1 DEF Caller, Start, Stop, SegFault, Reload, AddShard, Calls
    <3>3. ~Crash /\ ~FallSilent
      BY <3>1 DEF Crash, FallSilent
    <3> QED
      BY <3>2, <3>3 DEF Next, Work, StartShard, CleanUpShard, ConfigureShard, WaitSucceeds,
                        WaitTimesOut, SegFaultShard, ReloadShard
  <2>2. LastShard /\ \E env : EnvInv(env) /\ Becomes(env) /\ Down(env)
    BY <2>1, StopShardStep
  <2>3. StopsAll /\ call'.step = "idle"
    BY DEF StopsAll, Idle
  <2>4. \A i \in 1..Len(shards) : Down(shards'[i])
    BY <2>2, <2>3, LastShardDown
  <2>5. DOMAIN shards' = 1..Len(shards)
    BY <2>2, <2>3, LastShardDown, TypeNext, LenProperties DEF TypeInv, TypeOK
  <2> QED
    BY <2>4, <2>5 DEF Down
<1> QED
  BY <1>1, <1>2, <1>3, PTL DEF Spec, StopReachesAll

-----------------------------------------------------------------------------
(* The slots, until a shard is added.                                      *)

SlotInv ==
    Len(shards) = ShardsCount =>
        /\ \A j \in 1..ShardsCount : slots[j] \in {{}, SlotsOf(j, ShardsCount)}
        /\ call.step = "configure" =>
              \A j \in 1..ShardsCount : j < call.at => slots[j] = SlotsOf(j, ShardsCount)
        /\ call.step = "wait" /\ call.for = "start" =>
              \A j \in 1..ShardsCount : slots[j] = SlotsOf(j, ShardsCount)

LEMMA SlotsKept ==
    ASSUME SlotInv, slots' = slots, Len(shards') = Len(shards),
           ~(call'.step = "wait" /\ call'.for = "start"),
           call'.step = "configure" => call'.at = 1
    PROVE  SlotInv'
<1>1. \A j \in 1..ShardsCount : ~(j < 1)
  BY NoneBefore
<1>2. call'.step = "configure" => \A j \in 1..ShardsCount : ~(j < call'.at)
  BY Zenon, <1>1
<1> QED
  BY <1>2 DEF SlotInv

LEMMA MovesSlots ==
    ASSUME TypeInv, call.step \notin {"idle", "wait", "configure"}, Moves
    PROVE  call'.step = "configure" => call'.at = 1
<1>1. CASE call' = Idle
  BY <1>1 DEF Idle
<1>2. CASE call.at < Len(shards) /\ call' = [call EXCEPT !.at = @ + 1]
  BY <1>2, NextShard
<1>3. ASSUME NEW step \in {"clean up", "configure"},
             call' = [Idle EXCEPT !.step = step, !.at = 1]
      PROVE  call'.at = 1
  BY <1>3 DEF Idle
<1>4. ASSUME NEW what \in {"start", "reload"},
             call' = [Idle EXCEPT !.step = "wait", !.for = what]
      PROVE  call'.step = "wait"
  BY <1>4 DEF Idle
<1> QED
  BY <1>1, <1>2, <1>3, <1>4 DEF Moves

LEMMA LastShardStep ==
    ASSUME TypeInv, call.step \notin {"idle", "wait"}, LastShard
    PROVE  call'.step # "wait"
<1>1. CASE call' = Idle
  BY <1>1 DEF Idle
<1>2. CASE call.at < Len(shards) /\ call' = [call EXCEPT !.at = @ + 1]
  BY <1>2, NextShard
<1> QED
  BY <1>1, <1>2 DEF LastShard

LEMMA OneOwner ==
    ASSUME NEW i \in 1..ShardsCount, NEW j \in 1..ShardsCount, i # j
    PROVE  SlotsOf(i, ShardsCount) \cap SlotsOf(j, ShardsCount) = {}
<1>1. i < j \/ j < i
  BY EnvRunnerAssumption
<1> QED
  BY <1>1, SlotsDisjoint, EnvRunnerAssumption

\* A refusal means that the shard has its slots already.
LEMMA ConfigureSlots ==
    ASSUME TypeInv, SlotInv, ConfigureShard
    PROVE  SlotInv'
<1> DEFINE n == Len(shards)
           i == call.at
           mine == SlotsOf(i, n)
<1>0. /\ call.step = "configure" /\ shards' = shards
      /\ n \in Nat /\ i \in 1..n /\ call \in CallType
      /\ slots \in Seq(SUBSET (0..HashSlots - 1)) /\ DOMAIN slots = 1..n
  BY AtShard, ShardsLen, ConfigureShardStep, LenProperties DEF TypeInv, TypeOK
<1>1. CASE call' = Idle /\ slots' = slots
  <2>1. call'.step = "idle"
    BY <1>1 DEF Idle
  <2> QED
    BY <1>0, <1>1, <2>1, SlotsKept
<1>2. CASE /\ \/ /\ mine \cap slots[i] = {}
                 /\ slots' = [slots EXCEPT ![i] = @ \cup mine]
              \/ /\ mine \cap UNION {slots[j] : j \in DOMAIN slots} # {}
                 /\ slots' = slots
           /\ \/ i < n /\ call' = [call EXCEPT !.at = @ + 1]
              \/ i = n /\ call' = [Idle EXCEPT !.step = "wait", !.for = "start"]
  <2> SUFFICES ASSUME n = ShardsCount
               PROVE  SlotInv'
    BY <1>0 DEF SlotInv
  <2>1. \A j \in 1..n : slots[j] \in {{}, SlotsOf(j, n)}
    BY DEF SlotInv
  <2>2. \A j \in 1..n : j < i => slots[j] = SlotsOf(j, n)
    BY <1>0 DEF SlotInv
  <2>3. slots'[i] = mine
    <3>0. slots[i] \in {{}, mine}
      BY <1>0, <2>1
    <3>1. CASE slots' = [slots EXCEPT ![i] = @ \cup mine]
      <4> HIDE DEF mine
      <4> QED
        BY <1>0, <3>0, <3>1
    <3>2. CASE slots' = slots /\ mine \cap UNION {slots[j] : j \in DOMAIN slots} # {}
      <4>1. PICK j \in 1..n : mine \cap slots[j] # {}
        <5> HIDE DEF mine
        <5> QED BY <1>0, <3>2
      <4>2. CASE j # i
        <5>1. mine \cap SlotsOf(j, n) = {}
          BY <1>0, <4>2, OneOwner
        <5> HIDE DEF mine
        <5> QED
          BY <2>1, <4>1, <5>1
      <4>3. CASE j = i
        <5> HIDE DEF mine
        <5> QED
          BY <3>0, <3>2, <4>1, <4>3
      <4> QED
        BY <4>2, <4>3
    <3> QED
      BY <1>2, <3>1, <3>2
  <2>4. \A j \in 1..n : j # i => slots'[j] = slots[j]
    <3> HIDE DEF mine
    <3> QED
      BY <1>0, <1>2
  <2>5. \A j \in 1..n : slots'[j] \in {{}, SlotsOf(j, n)}
    BY <2>1, <2>3, <2>4
  <2>6. \A j \in 1..n : j < i + 1 => slots'[j] = SlotsOf(j, n)
    <3> SUFFICES ASSUME NEW j \in 1..n, j < i + 1
                 PROVE  slots'[j] = SlotsOf(j, n)
      OBVIOUS
    <3>1. CASE j = i
      BY <2>3, <3>1
    <3>2. CASE j # i
      <4>1. j < i
        BY <1>0, <3>2
      <4> QED
        BY <2>2, <2>4, <3>2, <4>1
    <3> QED
      BY <3>1, <3>2
  <2>7. CASE i < n /\ call' = [call EXCEPT !.at = @ + 1]
    <3>1. call'.at = i + 1 /\ call'.step = "configure"
      BY <1>0, <2>7, NextShard
    <3> QED
      BY <1>0, <2>5, <2>6, <3>1 DEF SlotInv
  <2>8. CASE i = n /\ call' = [Idle EXCEPT !.step = "wait", !.for = "start"]
    <3>1. call'.step = "wait"
      BY <2>8 DEF Idle
    <3>2. \A j \in 1..n : j < i + 1
      BY <1>0, <2>8
    <3>3. \A j \in 1..n : slots'[j] = SlotsOf(j, n)
      BY <2>6, <3>2
    <3> QED
      BY <1>0, <2>5, <3>1, <3>3 DEF SlotInv
  <2> QED
    BY <1>2, <2>7, <2>8
<1> QED
  BY <1>1, <1>2, ConfigureShardStep

LEMMA SlotsNext ==
    ASSUME TypeInv, SlotInv, [Next]_vars
    PROVE  SlotInv'
<1>1. CASE StartShard \/ CleanUpShard \/ StopShard \/ SegFaultShard \/ ReloadShard
  <2>1. /\ call.step \notin {"idle", "wait", "configure"} /\ Moves
        /\ slots' = slots
        /\ \E env : EnvInv(env) /\ Becomes(env)
        /\ ~(call'.step = "wait" /\ call'.for = "start")
    <3>1. CASE StartShard
      BY <3>1, StartShardStep
    <3>2. CASE CleanUpShard
      BY <3>2, CleanUpShardStep, LastShardStep
    <3>3. CASE StopShard
      BY <3>3, StopShardStep, LastShardStep
    <3>4. CASE SegFaultShard
      BY <3>4, SegFaultShardStep
    <3>5. CASE ReloadShard
      BY <3>5, ReloadShardStep
    <3> QED
      BY <1>1, <3>1, <3>2, <3>3, <3>4, <3>5
  <2>2. Len(shards') = Len(shards)
    BY <2>1, AtShard, BecomesInv
  <2> QED
    BY <2>1, <2>2, MovesSlots, SlotsKept
<1>2. CASE ConfigureShard
  BY <1>2, ConfigureSlots
<1>3. CASE WaitSucceeds \/ WaitTimesOut
  <2>1. call' = Idle /\ shards' = shards /\ slots' = slots
    BY <1>3, WaitStep
  <2>2. call'.step = "idle"
    BY <2>1 DEF Idle
  <2> QED
    BY <2>1, <2>2, SlotsKept
<1>4. ASSUME NEW masters \in BOOLEAN, NEW slaves \in BOOLEAN,
             \/ Start(masters, slaves) \/ Stop(masters, slaves) \/ SegFault(masters, slaves)
             \/ \E restart, all \in BOOLEAN : Reload(restart, all)
      PROVE  SlotInv'
  <2>1. PICK c : Shaped(c) /\ call' = c /\ shards' = shards /\ slots' = slots
    BY <1>4, CallerStep DEF Calls
  <2>2. call'.step \notin {"wait", "configure"}
    BY <2>1 DEF Shaped
  <2> QED
    BY <2>1, <2>2, SlotsKept
<1>5. CASE AddShard
  <2>1. CASE UNCHANGED <<shards, slots>> /\ call' = Idle
    <3>1. call'.step = "idle"
      BY <2>1 DEF Idle
    <3> QED
      BY <2>1, <3>1, SlotsKept
  <2>2. CASE \E env : EnvInv(env) /\ shards' = Append(shards, env)
    <3>1. Len(shards') = Len(shards) + 1
      BY <1>5, <2>2, AppendTypes, AddShardStep
    <3>2. Len(shards') # ShardsCount
      <4>1. opts.cluster
        BY <1>5, AddShardStep
      <4>2. Len(shards) >= ShardsCount
        BY Zenon, <4>1 DEF TypeInv, ShapeInv
      <4> QED
        BY <3>1, <4>2, ShardsLen, EnvRunnerAssumption
    <3> QED
      BY <3>2 DEF SlotInv
  <2> QED
    BY <1>5, <2>1, <2>2, AddShardStep
<1>6. CASE Crash \/ FallSilent
  <2>1. /\ call' = call /\ slots' = slots
        /\ \E i \in DOMAIN shards : \E env : Hurts(i, env)
    BY <1>6, CrashStep
  <2>2. Len(shards') = Len(shards)
    <3>1. PICK i \in DOMAIN shards : \E env : Hurts(i, env)
      BY <2>1
    <3>2. PICK env : Hurts(i, env)
      BY <3>1
    <3>3. shards' = [shards EXCEPT ![i] = env] /\ env \in StandardEnvType
      BY <3>2 DEF Hurts, EnvInv
    <3>4. shards \in Seq(StandardEnvType)
      BY DEF TypeInv, TypeOK
    <3> QED
      BY <3>3, <3>4
  <2> QED
    BY <2>1, <2>2 DEF SlotInv
<1>7. CASE UNCHANGED vars
  BY <1>7 DEF vars, SlotInv
<1> QED
  BY <1>1, <1>2, <1>3, <1>4, <1>5, <1>6, <1>7 DEF Next, Work, Caller

\* No slot has two shards and none is left out, however often and however far
\* the cluster was configured before.
THEOREM SlotsAreServed == Spec => []SlotsPartitioned
<1> DEFINE Inv == TypeInv /\ SlotInv
<1>1. Init => Inv
  <2> SUFFICES ASSUME Init
               PROVE  SlotInv
    BY TypeInit
  <2>1. call.step = "idle" /\ slots = [i \in DOMAIN shards |-> {}]
    BY DEF Init, Idle
  <2>2. DOMAIN shards = 1..Len(shards)
    BY TypeInit, LenProperties DEF TypeInv, TypeOK
  <2> QED
    BY <2>1, <2>2 DEF SlotInv
<1>2. Inv /\ [Next]_vars => Inv'
  BY TypeNext, SlotsNext
<1>3. Inv => SlotsPartitioned
  <2> SUFFICES ASSUME Inv, Len(shards) = ShardsCount
               PROVE  /\ \A i, j \in 1..ShardsCount : i # j => slots[i] \cap slots[j] = {}
                      /\ call.step = "wait" /\ call.for = "start" =>
                            UNION {slots[i] : i \in 1..ShardsCount} = 0..HashSlots - 1
    BY LenProperties DEF SlotsPartitioned, TypeInv, TypeOK
  <2>1. \A j \in 1..ShardsCount : slots[j] \in {{}, SlotsOf(j, ShardsCount)}
    BY DEF SlotInv
  <2>2. ASSUME NEW i \in 1..ShardsCount, NEW j \in 1..ShardsCount, i # j
        PROVE  slots[i] \cap slots[j] = {}
    BY <2>1, <2>2, OneOwner
  <2>3. ASSUME call.step = "wait", call.for = "start"
        PROVE  UNION {slots[i] : i \in 1..ShardsCount} = 0..HashSlots - 1
    <3>1. \A j \in 1..ShardsCount : slots[j] = SlotsOf(j, ShardsCount)
      BY <2>3 DEF SlotInv
    <3>2. \A j \in 1..ShardsCount : SlotsOf(j, ShardsCount) \subseteq 0..HashSlots - 1
      BY SlotsRange, EnvRunnerAssumption
    <3>3. \A x \in 0..HashSlots - 1 : \E j \in 1..ShardsCount : x \in SlotsOf(j, ShardsCount)
      BY SlotsCover, EnvRunnerAssumption
    <3> QED
      BY <3>1, <3>2, <3>3
  <2> QED
    BY <2>2, <2>3
<1> QED
  BY <1>1, <1>2, <1>3, PTL DEF Spec

================================================================================
