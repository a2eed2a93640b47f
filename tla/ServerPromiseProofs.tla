-------------------------- MODULE ServerPromiseProofs --------------------------
(***************************************************************************)
(* The ports of the shards, and that EnvRunner implements ServerPromise:   *)
(* TestRunner's assumption about the servers behind its Envs holds of the  *)
(* code of StandardEnv and ClusterEnv, however many shards, calls, crashes *)
(* and servers that fall silent there are.                                 *)
(***************************************************************************)
EXTENDS EnvRunnerProofs

\* Without slaves an env that is up is healthy: startEnv leaves it alone.
Sound(env) == EnvInv(env) /\ (~env.useSlaves /\ env.envIsUp => env.envIsHealthy)

SamePlace(old, new) ==
    new.port = old.port /\ new.slavePort = old.slavePort /\ new.useSlaves = old.useSlaves

\* What ServerPromise lets a server become, itself included.
Outcomes(sv) ==
    {sv} \cup Started(sv) \cup Stopped(sv) \cup Promise!Restarted(sv) \cup Promise!Died(sv)

\* What a step makes of a shard.
Evolves(old, new) ==
    /\ Sound(new)
    /\ SamePlace(old, new)
    /\ ~old.useSlaves => Seen(new) \in Outcomes(Seen(old))

-----------------------------------------------------------------------------
(* One StandardEnv.                                                        *)

\* The operators of RedisServer, reached both ways.
LEMMA SameServer ==
    ASSUME NEW sv
    PROVE  Promise!Started(sv) = Started(sv) /\ Promise!Stopped(sv) = Stopped(sv)
  BY DEF Started, Stopped, Up, Promise!Started, Promise!Stopped, Promise!Up

\* Which server is seen depends on the master's handle, the flag and the exit
\* code on record.
LEMMA SeenAs ==
    ASSUME NEW env
    PROVE  /\ Seen(env).clean = (env.master.exitCode = "zero")
           /\ env.master.handle = "none" => Seen(env).proc = "none"
           /\ env.master.handle # "none" /\ ~env.envIsUp => Seen(env).proc = "starting"
           /\ env.envIsUp /\ Alive(env.master) => Seen(env).proc = "running"
           /\ env.envIsUp /\ env.master.handle = "dead" => Seen(env).proc = "crashed"
           /\ Seen(env) \in ServerType
  BY DEF Seen, Alive, ServerType

LEMMA StartedTo ==
    ASSUME NEW sv \in ServerType, NEW after \in ServerType, after.clean = sv.clean,
           \/ Up(sv) /\ after.proc = sv.proc
           \/ sv.proc = "none" /\ after.proc \in {"none", "starting", "running"}
           \/ sv.proc = "starting" /\ after.proc \in {"running", "crashed"}
    PROVE  after \in Started(sv)
<1>1. after = [sv EXCEPT !.proc = after.proc]
  BY DEF ServerType
<1>2. sv = [sv EXCEPT !.proc = sv.proc]
  BY DEF ServerType
<1> QED
  BY <1>1, <1>2 DEF Started, Up

LEMMA FlagsFollow ==
    ASSUME NEW env, EnvInv(env)
    PROVE  /\ Sound(Flagged(env)) /\ SamePlace(env, Flagged(env))
           /\ Flagged(env).master = env.master
           /\ ~env.useSlaves => (Flagged(env).envIsUp <=> env.master.handle # "none")
<1>1. env \in StandardEnvType
  BY DEF EnvInv
<1>2. Flagged(env) =
        [env EXCEPT !.envIsUp = env.master.handle # "none" \/ env.slave.handle # "none",
                    !.envIsHealthy = env.master.handle # "none"
                                        /\ (env.useSlaves => env.slave.handle # "none")]
  BY DEF Flagged
<1>3. /\ SamePlace(env, Flagged(env)) /\ Flagged(env).master = env.master
      /\ Flagged(env).envIsUp = (env.master.handle # "none" \/ env.slave.handle # "none")
      /\ Flagged(env).envIsHealthy = (env.master.handle # "none"
                                        /\ (env.useSlaves => env.slave.handle # "none"))
  BY <1>1, <1>2 DEF SamePlace, StandardEnvType
<1>4. ~env.useSlaves => env.slave.handle = "none"
  BY DEF EnvInv
<1>5. EnvInv(Flagged(env))
  BY FlaggedInv
<1> QED
  BY Zenon, <1>3, <1>4, <1>5 DEF Sound, SamePlace

\* The four things that come of a startEnv.
LEMMA StartMaster ==
    ASSUME NEW p, RoleInv(p), NEW asked \in BOOLEAN, NEW r \in StartProcess(p, asked)
    PROVE  \/ p.handle # "none" /\ r = Returns(p)
           \/ /\ p.handle = "none" /\ r.env.exitCode = p.exitCode
              /\ \/ ~r.raised /\ r.env.handle \in {"none", "serving"}
                 \/ r.raised /\ r.env.handle \in {"serving", "dead"}
<1>1. p \in RoleType
  BY DEF RoleInv
<1>2. CASE asked /\ p.handle = "none"
  <2> DEFINE born == [p EXCEPT !.lives = IF @ < 2 THEN @ + 1 ELSE @]
             died == [born EXCEPT !.ended = "dirty"]
  <2>1. \/ r = Returns([born EXCEPT !.handle = "serving"])
        \/ r = Returns([died EXCEPT !.handle = "none"])
        \/ r = Raises([born EXCEPT !.handle = "serving"])
        \/ r = Raises([died EXCEPT !.handle = "dead"])
    BY <1>2 DEF StartProcess, Spawned
  <2>2. born \in RoleType /\ born.exitCode = p.exitCode
    <3>1. born = [p EXCEPT !.lives = IF p.lives < 2 THEN p.lives + 1 ELSE p.lives]
      OBVIOUS
    <3> QED BY <1>1, <3>1 DEF RoleType
  <2> HIDE DEF born
  <2>3. died \in RoleType /\ died.exitCode = p.exitCode
    BY <2>2 DEF RoleType
  <2> HIDE DEF died
  <2>4. /\ [born EXCEPT !.handle = "serving"].handle = "serving"
        /\ [died EXCEPT !.handle = "none"].handle = "none"
        /\ [died EXCEPT !.handle = "dead"].handle = "dead"
        /\ [born EXCEPT !.handle = "serving"].exitCode = p.exitCode
        /\ [died EXCEPT !.handle = "none"].exitCode = p.exitCode
        /\ [died EXCEPT !.handle = "dead"].exitCode = p.exitCode
    BY <2>2, <2>3 DEF RoleType
  <2>5. \/ r.env = [born EXCEPT !.handle = "serving"] /\ r.raised \in BOOLEAN
        \/ r.env = [died EXCEPT !.handle = "none"] /\ ~r.raised
        \/ r.env = [died EXCEPT !.handle = "dead"] /\ r.raised
    BY Zenon, <2>1, OutcomeFields
  <2> QED
    BY <1>2, <2>4, <2>5
<1>3. CASE ~(asked /\ p.handle = "none")
  <2>1. r = Returns(p)
    BY <1>3 DEF StartProcess
  <2> QED
    BY <2>1, OutcomeFields
<1> QED
  BY <1>2, <1>3

\* startEnv: what was up stays as it was, and what was not becomes as Started
\* says.
LEMMA StartEvolves ==
    ASSUME NEW env, Sound(env), NEW masters \in BOOLEAN, NEW slaves \in BOOLEAN,
           NEW r \in StartEnv(env, masters, slaves)
    PROVE  /\ Sound(r.env) /\ SamePlace(env, r.env)
           /\ ~env.useSlaves => Seen(r.env) \in Started(Seen(env))
<1>0. /\ EnvInv(env) /\ env \in StandardEnvType /\ RoleInv(env.master) /\ RoleInv(env.slave)
      /\ env.master.handle \in {"none", "serving", "silent", "dead"}
      /\ ~env.useSlaves => env.slave.handle = "none"
      /\ env.useSlaves \in BOOLEAN /\ env.envIsUp \in BOOLEAN
      /\ (env.useSlaves /\ slaves) \in BOOLEAN
      /\ EnvInv(r.env)
  BY StartEnvInv DEF Sound, EnvInv, StandardEnvType, RoleInv, RoleType
<1>1. CASE env.envIsUp /\ env.envIsHealthy
  <2>1. r.env = env
    BY <1>1, OutcomeFields DEF StartEnv
  <2>2. Seen(env) \in Started(Seen(env))
    BY <1>0, <1>1, SeenAs DEF Started, Up, Alive
  <2> QED
    BY <2>1, <2>2 DEF SamePlace
<1>2. CASE ~(env.envIsUp /\ env.envIsHealthy)
  <2>1. PICK m \in StartProcess(env.master, masters) :
           r \in IF m.raised THEN {Raises([env EXCEPT !.master = m.env])}
                ELSE {LET both == [env EXCEPT !.master = m.env, !.slave = s.env]
                      IN  IF s.raised THEN Raises(both) ELSE Returns(Flagged(both)) :
                        s \in StartProcess(env.slave, env.useSlaves /\ slaves)}
    BY <1>2 DEF StartEnv
  <2>2. RoleInv(m.env) /\ m.raised \in BOOLEAN
    BY <1>0, StartProcessInv
  <2>3. \/ env.master.handle # "none" /\ m = Returns(env.master)
        \/ /\ env.master.handle = "none" /\ m.env.exitCode = env.master.exitCode
           /\ \/ ~m.raised /\ m.env.handle \in {"none", "serving"}
              \/ m.raised /\ m.env.handle \in {"serving", "dead"}
    BY <1>0, StartMaster
  <2>4. ~env.useSlaves => ~env.envIsUp
    BY <1>0, <1>2 DEF Sound
  <2>5. CASE m.raised
    <3>1. r.env = [env EXCEPT !.master = m.env]
      BY <2>1, <2>5, OutcomeFields
    <3>2. /\ SamePlace(env, r.env) /\ r.env.master = m.env
          /\ r.env.envIsUp = env.envIsUp /\ r.env.envIsHealthy = env.envIsHealthy
      BY <1>0, <3>1 DEF SamePlace, StandardEnvType
    <3>3. /\ env.master.handle = "none" /\ m.env.exitCode = env.master.exitCode
          /\ m.env.handle \in {"serving", "dead"}
      BY <2>3, <2>5, OutcomeFields
    <3>4. Sound(r.env)
      BY <1>0, <3>2 DEF Sound, SamePlace
    <3>5. ASSUME ~env.useSlaves
          PROVE  Seen(r.env) \in Started(Seen(env))
      <4>1. /\ Seen(env).proc = "none" /\ Seen(r.env).proc = "starting"
            /\ Seen(r.env).clean = Seen(env).clean
        <5>1. ~env.envIsUp /\ ~r.env.envIsUp
          BY <2>4, <3>2, <3>5
        <5>2. r.env.master.handle # "none" /\ r.env.master.exitCode = env.master.exitCode
          BY <3>2, <3>3
        <5> QED
          BY <3>3, <5>1, <5>2, SeenAs
      <4> QED
        BY <4>1, SeenAs, StartedTo
    <3> QED
      BY <3>2, <3>4, <3>5
  <2>6. CASE ~m.raised
    <3>1. PICK s \in StartProcess(env.slave, env.useSlaves /\ slaves) :
             r = LET both == [env EXCEPT !.master = m.env, !.slave = s.env]
                 IN  IF s.raised THEN Raises(both) ELSE Returns(Flagged(both))
      BY <2>1, <2>6
    <3> DEFINE both == [env EXCEPT !.master = m.env, !.slave = s.env]
    <3>2. /\ RoleInv(s.env) /\ s.raised \in BOOLEAN
          /\ ~env.useSlaves => s.env = env.slave /\ ~s.raised
      BY <1>0, StartProcessInv
    <3>3. /\ EnvInv(both) /\ SamePlace(env, both) /\ both.master = m.env
          /\ both.envIsUp = env.envIsUp /\ both.envIsHealthy = env.envIsHealthy
      <4>1. ~env.useSlaves => s.env.handle = "none"
        BY <1>0, <3>2
      <4>2. EnvInv(both)
        BY <1>0, <2>2, <3>2, <4>1, RolesInv
      <4> QED
        BY <1>0, <4>2 DEF SamePlace, StandardEnvType
    <3>4. r = IF s.raised THEN Raises(both) ELSE Returns(Flagged(both))
      BY <3>1
    <3> HIDE DEF both
    <3>5. /\ Sound(Flagged(both)) /\ SamePlace(both, Flagged(both))
          /\ Flagged(both).master = m.env
          /\ ~both.useSlaves => (Flagged(both).envIsUp <=> m.env.handle # "none")
      BY <3>3, FlagsFollow
    <3>6. CASE s.raised
      <4>1. r.env = both /\ env.useSlaves
        BY <1>0, <3>2, <3>4, <3>6, OutcomeFields
      <4> QED
        BY <1>0, <3>3, <4>1 DEF Sound, SamePlace
    <3>7. CASE ~s.raised
      <4>1. r.env = Flagged(both)
        BY <3>4, <3>7, OutcomeFields
      <4>2. Sound(r.env) /\ SamePlace(env, r.env)
        BY <3>3, <3>5, <4>1 DEF SamePlace
      <4>3. ASSUME ~env.useSlaves
            PROVE  Seen(r.env) \in Started(Seen(env))
        <5>1. r.env.master = m.env /\ (r.env.envIsUp <=> m.env.handle # "none")
          BY <3>3, <3>5, <4>1, <4>3 DEF SamePlace
        <5>2. CASE env.master.handle # "none" /\ m = Returns(env.master)
          <6>1. m.env = env.master
            BY <5>2, OutcomeFields
          <6>2. /\ Seen(env).proc = "starting" /\ Seen(r.env).proc \in {"running", "crashed"}
                /\ Seen(r.env).clean = Seen(env).clean
            BY <1>0, <2>4, <4>3, <5>1, <5>2, <6>1, SeenAs DEF Alive
          <6> QED
            BY <6>2, SeenAs, StartedTo
        <5>3. CASE /\ env.master.handle = "none" /\ m.env.exitCode = env.master.exitCode
                   /\ m.env.handle \in {"none", "serving"}
          <6>1. /\ Seen(env).proc = "none" /\ Seen(r.env).proc \in {"none", "running"}
                /\ Seen(r.env).clean = Seen(env).clean
            BY <5>1, <5>3, SeenAs DEF Alive
          <6> QED
            BY <6>1, SeenAs, StartedTo
        <5> QED
          BY <2>3, <2>6, <5>2, <5>3
      <4> QED
        BY <4>2, <4>3
    <3> QED
      BY <3>2, <3>6, <3>7
  <2> QED
    BY <2>2, <2>5, <2>6
<1> QED
  BY <1>1, <1>2

\* The master's process that is stopped: only one that lives yields a code.
LEMMA StopMaster ==
    ASSUME NEW p, RoleInv(p), NEW asked \in BOOLEAN, NEW retries \in BOOLEAN,
           NEW q \in Stops(p, asked, retries)
    PROVE  /\ ~asked => q = p
           /\ asked => q.handle = "none"
           /\ ~Alive(p) => q.exitCode = p.exitCode
<1>1. p \in RoleType
  BY DEF RoleInv
<1>2. CASE asked /\ p.handle # "none" /\ ~Alive(p)
  BY <1>1, <1>2 DEF Stops, StopProcess, RoleType
<1>3. CASE asked /\ p.handle # "none" /\ Alive(p)
  BY <1>3, StopsInv
<1>4. CASE ~(asked /\ p.handle # "none")
  BY <1>4 DEF Stops
<1> QED
  BY <1>2, <1>3, <1>4

LEMMA StoppedTo ==
    ASSUME NEW sv \in ServerType, NEW after \in ServerType, after.proc = "none",
           sv.proc \in {"none", "crashed"} => after.clean = sv.clean
    PROVE  after \in Stopped(sv)
<1>1. after = [sv EXCEPT !.proc = "none", !.clean = after.clean]
  BY DEF ServerType
<1>2. after = [proc |-> "none", clean |-> after.clean] /\ after.clean \in BOOLEAN
  BY DEF ServerType
<1>3. CASE sv.proc \in {"none", "crashed"}
  <2>1. after = [sv EXCEPT !.proc = "none"]
    BY <1>3 DEF ServerType
  <2> QED
    BY <1>3, <2>1 DEF Stopped
<1>4. CASE sv.proc \notin {"none", "crashed"}
  BY <1>2, <1>4 DEF Stopped
<1> QED
  BY <1>3, <1>4

\* stopEnv: a stop, if the master is asked for; if only the slaves are, which
\* an env without slaves has none of, the flags are set anew as in a start.
LEMMA StopEvolves ==
    ASSUME NEW env, Sound(env), NEW masters \in BOOLEAN, NEW slaves \in BOOLEAN,
           NEW retries \in BOOLEAN, NEW after \in StopEnv(env, masters, slaves, retries)
    PROVE  /\ Sound(after) /\ SamePlace(env, after)
           /\ ~env.useSlaves /\ masters => Seen(after) \in Stopped(Seen(env))
           /\ ~env.useSlaves /\ ~masters => Seen(after) \in Started(Seen(env))
<1>0. /\ EnvInv(env) /\ env \in StandardEnvType /\ RoleInv(env.master) /\ RoleInv(env.slave)
      /\ env.master.handle \in {"none", "serving", "silent", "dead"}
      /\ ~env.useSlaves => env.slave.handle = "none"
      /\ env.useSlaves \in BOOLEAN /\ env.envIsUp \in BOOLEAN
      /\ (env.useSlaves /\ slaves) \in BOOLEAN
  BY DEF Sound, EnvInv, StandardEnvType, RoleInv, RoleType
<1>1. PICK m \in Stops(env.master, masters, retries) :
         \E s \in Stops(env.slave, env.useSlaves /\ slaves, retries) :
            after = Flagged([env EXCEPT !.master = m, !.slave = s])
  BY DEF StopEnv
<1>2. PICK s \in Stops(env.slave, env.useSlaves /\ slaves, retries) :
         after = Flagged([env EXCEPT !.master = m, !.slave = s])
  BY <1>1
<1> DEFINE both == [env EXCEPT !.master = m, !.slave = s]
<1>3. EnvInv(both) /\ SamePlace(env, both) /\ both.master = m
  <2>1. RoleInv(m) /\ RoleInv(s) /\ (~env.useSlaves => s.handle = "none")
    BY <1>0, StopsInv
  <2>2. EnvInv(both)
    BY <1>0, <2>1, RolesInv
  <2> QED
    BY <1>0, <2>2 DEF SamePlace, StandardEnvType
<1>4. after = Flagged(both)
  BY <1>2
<1> HIDE DEF both
<1>5. /\ Sound(after) /\ SamePlace(both, after) /\ after.master = m
      /\ ~both.useSlaves => (after.envIsUp <=> m.handle # "none")
  BY <1>3, <1>4, FlagsFollow
<1>6. Sound(after) /\ SamePlace(env, after)
  BY <1>3, <1>5 DEF SamePlace
<1>7. /\ ~masters => m = env.master
      /\ masters => m.handle = "none"
      /\ ~Alive(env.master) => m.exitCode = env.master.exitCode
  BY <1>0, StopMaster
<1>8. ASSUME ~env.useSlaves, masters
      PROVE  Seen(after) \in Stopped(Seen(env))
  <2>1. Seen(after).proc = "none"
    BY <1>5, <1>7, <1>8, SeenAs
  <2>2. Seen(env).proc \in {"none", "crashed"} => ~Alive(env.master)
    BY <1>0, SeenAs DEF Alive
  <2>3. Seen(env).proc \in {"none", "crashed"} => Seen(after).clean = Seen(env).clean
    BY <1>5, <1>7, <2>2, SeenAs
  <2> QED
    BY <2>1, <2>3, SeenAs, StoppedTo
<1>9. ASSUME ~env.useSlaves, ~masters
      PROVE  Seen(after) \in Started(Seen(env))
  <2>1. after.master = env.master /\ (after.envIsUp <=> env.master.handle # "none")
    BY <1>3, <1>5, <1>7, <1>9 DEF SamePlace
  <2>2. Seen(after).clean = Seen(env).clean
    BY <2>1, SeenAs
  <2>3. CASE env.master.handle = "none"
    <3>1. Seen(env).proc = "none" /\ Seen(after).proc = "none"
      BY <2>1, <2>3, SeenAs
    <3> QED
      BY <2>2, <3>1, SeenAs, StartedTo
  <2>4. CASE env.master.handle # "none" /\ env.envIsUp
    <3>1. Seen(env).proc \in {"running", "crashed"} /\ Seen(after).proc = Seen(env).proc
      BY <1>0, <2>1, <2>4, SeenAs DEF Alive
    <3> QED
      BY <2>2, <3>1, SeenAs, StartedTo DEF Up
  <2>5. CASE env.master.handle # "none" /\ ~env.envIsUp
    <3>1. Seen(env).proc = "starting" /\ Seen(after).proc \in {"running", "crashed"}
      BY <1>0, <2>1, <2>5, SeenAs DEF Alive
    <3> QED
      BY <2>2, <3>1, SeenAs, StartedTo
  <2> QED
    BY <2>3, <2>4, <2>5
<1> QED
  BY <1>6, <1>8, <1>9

\* A restart is a stop and a start, with nothing seen between them.
LEMMA ReloadEvolves ==
    ASSUME NEW env, Sound(env), NEW restart \in BOOLEAN, NEW retries \in BOOLEAN,
           NEW r \in DumpAndReload(env, restart, retries)
    PROVE  Evolves(env, r.env)
<1>0. /\ env.master.handle \in {"none", "serving", "silent", "dead"}
      /\ env.slave.handle \in {"none", "serving", "silent", "dead"}
  BY DEF Sound, EnvInv, RoleInv, RoleType
<1>1. \/ r.env = env
      \/ \E down \in StopEnv(env, TRUE, TRUE, retries) : r \in StartEnv(down, TRUE, TRUE)
  BY <1>0, OutcomeFields DEF DumpAndReload
<1>2. CASE r.env = env
  BY <1>2 DEF Evolves, SamePlace, Outcomes
<1>3. ASSUME NEW down \in StopEnv(env, TRUE, TRUE, retries), r \in StartEnv(down, TRUE, TRUE)
      PROVE  Evolves(env, r.env)
  <2>1. /\ Sound(down) /\ SamePlace(env, down)
        /\ ~env.useSlaves => Seen(down) \in Stopped(Seen(env))
    BY <1>3, StopEvolves
  <2>2. /\ Sound(r.env) /\ SamePlace(down, r.env)
        /\ ~down.useSlaves => Seen(r.env) \in Started(Seen(down))
    BY <1>3, <2>1, StartEvolves
  <2>3. SamePlace(env, r.env)
    BY <2>1, <2>2 DEF SamePlace
  <2>4. ASSUME ~env.useSlaves
        PROVE  Seen(r.env) \in Promise!Restarted(Seen(env))
    <3>1. ~down.useSlaves
      BY <2>1, <2>4 DEF SamePlace
    <3>2. Seen(down) \in Stopped(Seen(env)) /\ Seen(r.env) \in Started(Seen(down))
      BY <2>1, <2>2, <2>4, <3>1
    <3> QED
      BY <3>2, SameServer DEF Promise!Restarted
  <2> QED
    BY <2>2, <2>3, <2>4 DEF Evolves, Outcomes
<1> QED
  BY <1>1, <1>2, <1>3

\* A master that dies is a server that dies, unless startEnv never vouched for
\* it.
LEMMA DeathEvolves ==
    ASSUME NEW env, Sound(env), NEW after, EnvInv(after),
           SamePlace(env, after), after.envIsUp = env.envIsUp,
           after.envIsHealthy = env.envIsHealthy,
           after.master \in {env.master, Dead(env.master)}
    PROVE  Evolves(env, after)
<1>0. /\ env.master \in RoleType
      /\ env.master.handle \in {"none", "serving", "silent", "dead"}
  BY DEF Sound, EnvInv, RoleInv, RoleType
<1>1. Sound(after)
  BY DEF Sound, SamePlace
<1>2. CASE after.master = env.master \/ ~Alive(env.master)
  <2>1. after.master = env.master
    BY <1>2 DEF Dead
  <2>2. Seen(after) = Seen(env)
    BY <2>1 DEF Seen
  <2> QED
    BY <1>1, <2>2 DEF Evolves, Outcomes
<1>3. CASE after.master # env.master /\ Alive(env.master)
  <2>1. after.master.handle = "dead" /\ after.master.exitCode = env.master.exitCode
    BY <1>0, <1>3 DEF Dead, RoleType
  <2>2. Seen(after).clean = Seen(env).clean
    BY <2>1, SeenAs
  <2>3. CASE env.envIsUp
    <3>1. Seen(env).proc = "running" /\ Seen(after).proc = "crashed"
      BY <1>3, <2>1, <2>3, SeenAs
    <3>2. Seen(after) = [Seen(env) EXCEPT !.proc = "crashed"]
      BY <2>2, <3>1, SeenAs DEF ServerType
    <3> QED
      BY <1>1, <3>1, <3>2 DEF Evolves, Outcomes, Promise!Died
  <2>4. CASE ~env.envIsUp
    <3>1. Seen(env).proc = "starting" /\ Seen(after).proc = "starting"
      BY <1>3, <2>1, <2>4, SeenAs DEF Alive
    <3>2. Seen(after) = Seen(env)
      <4>1. Seen(env) \in ServerType /\ Seen(after) \in ServerType
        BY SeenAs
      <4> QED
        BY <2>2, <3>1, <4>1 DEF ServerType
    <3> QED
      BY <1>1, <3>2 DEF Evolves, Outcomes
  <2>5. env.envIsUp \in BOOLEAN
    BY DEF Sound, EnvInv, StandardEnvType
  <2> QED
    BY <2>3, <2>4, <2>5
<1> QED
  BY <1>2, <1>3

LEMMA SegFaultEvolves ==
    ASSUME NEW env, Sound(env), NEW masters \in BOOLEAN, NEW slaves \in BOOLEAN
    PROVE  Evolves(env, StopEnvWithSegFault(env, masters, slaves))
<1> DEFINE after == StopEnvWithSegFault(env, masters, slaves)
<1>1. env \in StandardEnvType /\ EnvInv(env)
  BY DEF Sound, EnvInv
<1>2. /\ SamePlace(env, after) /\ after.envIsUp = env.envIsUp
      /\ after.envIsHealthy = env.envIsHealthy
      /\ after.master \in {env.master, Dead(env.master)}
  BY <1>1 DEF StopEnvWithSegFault, SamePlace, StandardEnvType
<1>3. EnvInv(after)
  BY <1>1, SegFaultInv
<1> HIDE DEF after
<1>4. Evolves(env, after)
  BY <1>2, <1>3, DeathEvolves
<1> QED
  BY <1>4 DEF after

LEMMA NewIsFresh ==
    ASSUME NEW port \in Nat, NEW useSlaves \in BOOLEAN
    PROVE  LET new == New(port, useSlaves)
           IN  /\ Sound(new) /\ new.port = port
               /\ new.slavePort \in {0, port + 1} /\ new.useSlaves = useSlaves
               /\ Seen(new) = Fresh
<1>1. EnvInv(New(port, useSlaves)) /\ New(port, useSlaves).useSlaves = useSlaves
  BY NewInv
<1> QED
  BY <1>1 DEF New, Sound, Seen, NoProcess, Fresh, Alive

-----------------------------------------------------------------------------
(* All the shards.                                                         *)

\* Where shard i is: its ports are its own.
Placed(i, env) ==
    /\ Sound(env)
    /\ env.port = 2 * i /\ env.slavePort \in {0, 2 * i + 1}
    /\ env.useSlaves = opts.useSlaves

PlacedInv == \A i \in DOMAIN shards : Placed(i, shards[i])

ShardEvolves ==
    \E i \in DOMAIN shards : \E env :
        Evolves(shards[i], env) /\ shards' = [shards EXCEPT ![i] = env]

\* A shard that startEnv was called for before it became one of the cluster.
ShardAdded ==
    /\ Len(shards) < MaxShards
    /\ \E env :
          /\ Placed(Len(shards) + 1, env)
          /\ ~opts.useSlaves => Seen(env) \in Started(Fresh)
          /\ shards' = Append(shards, env)

LEMMA WorkEvolves ==
    ASSUME TypeInv, PlacedInv, Work
    PROVE  opts' = opts /\ (shards' = shards \/ ShardEvolves)
<1> DEFINE at == shards[call.at]
<1>1. CASE ConfigureShard
  BY <1>1 DEF ConfigureShard
<1>2. CASE WaitSucceeds \/ WaitTimesOut
  BY <1>2, WaitStep
<1>3. CASE StartShard \/ CleanUpShard \/ StopShard \/ SegFaultShard \/ ReloadShard
  <2>0. /\ call.at \in DOMAIN shards /\ Sound(at) /\ opts' = opts
        /\ call.masters \in BOOLEAN /\ call.slaves \in BOOLEAN /\ call.restart \in BOOLEAN
        /\ opts.retries \in BOOLEAN
    <3>1. call.step \notin {"idle", "wait"} /\ opts' = opts
      BY <1>3 DEF StartShard, CleanUpShard, StopShard, SegFaultShard, ReloadShard
    <3> QED
      BY <3>1, AtShard, OptsTypes DEF PlacedInv, Placed
  <2>1. SUFFICES \E env : Evolves(at, env) /\ Becomes(env)
    BY <2>0 DEF ShardEvolves, Becomes
  <2>2. CASE StartShard
    <3>1. PICK r \in StartEnv(at, call.masters, call.slaves) : Becomes(r.env)
      BY <2>2 DEF StartShard
    <3>2. Evolves(at, r.env)
      <4> HIDE DEF at
      <4> QED BY <2>0, StartEvolves DEF Evolves, Outcomes
    <3> QED
      BY <3>1, <3>2
  <2>3. CASE CleanUpShard
    <3>1. PICK env \in StopEnv(at, TRUE, TRUE, opts.retries) : Becomes(env)
      BY <2>3 DEF CleanUpShard
    <3>2. Evolves(at, env)
      <4> HIDE DEF at
      <4> QED BY <2>0, StopEvolves DEF Evolves, Outcomes
    <3> QED
      BY <3>1, <3>2
  <2>4. CASE StopShard
    <3>1. PICK env \in StopEnv(at, call.masters, call.slaves, opts.retries) : Becomes(env)
      BY <2>4 DEF StopShard
    <3>2. Evolves(at, env)
      <4> HIDE DEF at
      <4> QED BY <2>0, StopEvolves DEF Evolves, Outcomes
    <3> QED
      BY <3>1, <3>2
  <2>5. CASE SegFaultShard
    <3>1. Becomes(StopEnvWithSegFault(at, call.masters, call.slaves))
      BY <2>5 DEF SegFaultShard
    <3>2. Evolves(at, StopEnvWithSegFault(at, call.masters, call.slaves))
      <4> HIDE DEF at
      <4> QED BY <2>0, SegFaultEvolves
    <3> QED
      BY Zenon, <3>1, <3>2
  <2>6. CASE ReloadShard
    <3>1. PICK r \in DumpAndReload(at, call.restart, opts.retries) : Becomes(r.env)
      BY <2>6 DEF ReloadShard
    <3>2. Evolves(at, r.env)
      <4> HIDE DEF at
      <4> QED BY <2>0, ReloadEvolves
    <3> QED
      BY <3>1, <3>2
  <2> QED
    BY <1>3, <2>2, <2>3, <2>4, <2>5, <2>6
<1> QED
  BY <1>1, <1>2, <1>3 DEF Work

\* The port two above the last one's is free, and so is the next.
LEMMA AddShardEvolves ==
    ASSUME TypeInv, PlacedInv, AddShard
    PROVE  opts' = opts /\ (shards' = shards \/ ShardAdded)
<1> DEFINE n == Len(shards) + 1
           new == New(FreshPort, opts.useSlaves)
<1>1. opts' = opts /\ Len(shards) < MaxShards
  BY AddShardStep
<1>2. FreshPort = 2 * n /\ FreshPort \in Nat
  <2>1. Len(shards) \in DOMAIN shards /\ Len(shards) \in Nat
    <3>1. Len(shards) \in 1..Len(shards)
      BY ShardsLen, FirstShard
    <3> QED
      BY <3>1, ShardsLen, LenProperties DEF TypeInv, TypeOK
  <2>2. shards[Len(shards)].port = 2 * Len(shards)
    BY <2>1 DEF PlacedInv, Placed
  <2> QED
    BY <2>1, <2>2 DEF FreshPort
<1>3. /\ Sound(new) /\ new.port = 2 * n
      /\ new.slavePort \in {0, 2 * n + 1} /\ new.useSlaves = opts.useSlaves
      /\ Seen(new) = Fresh
  BY <1>2, OptsTypes, NewIsFresh
<1>4. PICK r \in StartEnv(new, TRUE, TRUE) : shards' = shards \/ shards' = Append(shards, r.env)
  BY DEF AddShard
<1> HIDE DEF new
<1>5. /\ Sound(r.env) /\ SamePlace(new, r.env)
      /\ ~new.useSlaves => Seen(r.env) \in Started(Seen(new))
  BY <1>3, <1>4, StartEvolves
<1>6. Placed(n, r.env) /\ (~opts.useSlaves => Seen(r.env) \in Started(Fresh))
  <2> HIDE DEF n
  <2> QED BY <1>3, <1>5 DEF Placed, SamePlace
<1> QED
  BY <1>1, <1>4, <1>6 DEF ShardAdded

LEMMA HurtEvolves ==
    ASSUME TypeInv, PlacedInv, Crash \/ FallSilent
    PROVE  opts' = opts /\ ShardEvolves
<1>1. opts' = opts
  BY DEF Crash, FallSilent
<1>2. PICK i \in DOMAIN shards, role \in Roles :
         /\ Alive(shards[i][role])
         /\ \/ shards' = [shards EXCEPT ![i][role] = Dead(@)]
            \/ /\ shards[i][role].handle = "serving"
               /\ shards' = [shards EXCEPT ![i][role].handle = "silent"]
  BY DEF Crash, FallSilent, Alive
<1> DEFINE env == shards[i]
           silent == [env[role] EXCEPT !.handle = "silent"]
<1>3. Sound(env) /\ EnvInv(env) /\ env \in StandardEnvType /\ RoleInv(env[role])
  BY <1>2 DEF PlacedInv, Placed, Sound, EnvInv, Roles
<1>4. PICK p \in {Dead(env[role]), silent} :
         /\ shards' = [shards EXCEPT ![i] = [env EXCEPT ![role] = p]]
         /\ p = silent => env[role].handle = "serving"
  <2>1. CASE shards' = [shards EXCEPT ![i][role] = Dead(@)]
    <3>1. Dead(env[role]) = silent => env[role].handle = "serving"
      BY <1>2, <1>3 DEF Dead, RoleInv, RoleType
    <3>2. shards' = [shards EXCEPT ![i] = [env EXCEPT ![role] = Dead(env[role])]]
      BY <2>1
    <3> QED
      BY <3>1, <3>2
  <2>2. CASE /\ shards[i][role].handle = "serving"
             /\ shards' = [shards EXCEPT ![i][role].handle = "silent"]
    BY <2>2
  <2> QED
    BY <1>2, <2>1, <2>2
<1> DEFINE after == [env EXCEPT ![role] = p]
<1>5. RoleInv(p)
  BY <1>3, <1>4, DeadInv, SilentInv
<1> HIDE DEF env
<1>6. /\ EnvInv(after) /\ SamePlace(env, after)
      /\ after.envIsUp = env.envIsUp /\ after.envIsHealthy = env.envIsHealthy
  <2>1. EnvInv(after)
    BY <1>2, <1>3, <1>5, HurtInv DEF env
  <2> QED
    BY <1>3, <2>1 DEF Roles, SamePlace, StandardEnvType
<1>7. Evolves(env, after)
  <2>1. CASE role = "slave" \/ p = Dead(env[role])
    <3>1. after.master \in {env.master, Dead(env.master)}
      BY <1>3, <2>1 DEF Roles, StandardEnvType
    <3> HIDE DEF after
    <3> QED
      BY <1>3, <1>6, <3>1, DeathEvolves
  <2>2. CASE role = "master" /\ p = silent /\ env[role].handle = "serving"
    <3>1. /\ after.master.handle = "silent" /\ after.master.exitCode = env.master.exitCode
          /\ env.master.handle = "serving"
      BY <1>3, <2>2 DEF StandardEnvType, RoleInv, RoleType
    <3> HIDE DEF after
    <3>2. Seen(after) = Seen(env)
      BY <1>6, <3>1 DEF Seen, Alive
    <3>3. Sound(after)
      BY <1>3, <1>6 DEF Sound, SamePlace
    <3> QED
      BY <1>6, <3>2, <3>3 DEF Evolves, Outcomes
  <2> QED
    BY <1>4, <2>1, <2>2 DEF Roles
<1> QED
  BY <1>1, <1>4, <1>7 DEF ShardEvolves, env

LEMMA NextEvolves ==
    ASSUME TypeInv, PlacedInv, [Next]_vars
    PROVE  opts' = opts /\ (shards' = shards \/ ShardEvolves \/ ShardAdded)
<1>1. CASE Work
  BY <1>1, WorkEvolves
<1>2. CASE Caller
  <2>1. CASE AddShard
    BY <2>1, AddShardEvolves
  <2>2. CASE \E masters, slaves \in BOOLEAN :
                Start(masters, slaves) \/ Stop(masters, slaves) \/ SegFault(masters, slaves)
    BY <2>2 DEF Start, Stop, SegFault, Calls
  <2>3. CASE \E restart, all \in BOOLEAN : Reload(restart, all)
    BY <2>3 DEF Reload, Calls
  <2> QED
    BY <1>2, <2>1, <2>2, <2>3 DEF Caller
<1>3. CASE Crash \/ FallSilent
  BY <1>3, HurtEvolves
<1>4. CASE UNCHANGED vars
  BY <1>4 DEF vars
<1> QED
  BY <1>1, <1>2, <1>3, <1>4 DEF Next

LEMMA PlacedInit ==
    ASSUME Init
    PROVE  PlacedInv
<1> DEFINE n == IF opts.cluster THEN ShardsCount ELSE 1
<1>1. /\ n \in Nat /\ opts.useSlaves \in BOOLEAN
      /\ shards = [i \in 1..n |-> New(2 * i, opts.useSlaves)]
  BY EnvRunnerAssumption DEF Init, OptionsType
<1> HIDE DEF n
<1>2. ASSUME NEW i \in 1..n
      PROVE  Placed(i, New(2 * i, opts.useSlaves))
  BY <1>1, NewIsFresh DEF Placed
<1> QED
  BY <1>1, <1>2 DEF PlacedInv

LEMMA PlacedNext ==
    ASSUME TypeInv, PlacedInv, [Next]_vars
    PROVE  PlacedInv'
<1>0. opts' = opts /\ shards \in Seq(StandardEnvType)
  BY NextEvolves DEF TypeInv, TypeOK
<1>1. CASE shards' = shards
  BY <1>0, <1>1 DEF PlacedInv, Placed
<1>2. CASE ShardEvolves
  <2>1. PICK i \in DOMAIN shards : \E env :
            Evolves(shards[i], env) /\ shards' = [shards EXCEPT ![i] = env]
    BY <1>2 DEF ShardEvolves
  <2>2. PICK env : Evolves(shards[i], env) /\ shards' = [shards EXCEPT ![i] = env]
    BY <2>1
  <2>3. Placed(i, shards[i])
    BY DEF PlacedInv
  <2>4. Sound(env) /\ SamePlace(shards[i], env)
    BY <2>2 DEF Evolves
  <2>5. Placed(i, env)'
    BY <1>0, <2>3, <2>4 DEF Placed, SamePlace
  <2>6. \A j \in DOMAIN shards : j # i => Placed(j, shards[j])'
    BY <1>0, <2>2 DEF PlacedInv, Placed
  <2> QED
    BY <1>0, <2>2, <2>5, <2>6 DEF PlacedInv
<1>3. CASE ShardAdded
  <2>1. PICK env : Placed(Len(shards) + 1, env) /\ shards' = Append(shards, env)
    BY <1>3 DEF ShardAdded
  <2>2. env \in StandardEnvType
    BY <2>1 DEF Placed, Sound, EnvInv
  <2>3. /\ DOMAIN shards' = 1..(Len(shards) + 1) /\ Len(shards) \in Nat
        /\ DOMAIN shards = 1..Len(shards)
        /\ \A j \in 1..Len(shards) : shards'[j] = shards[j]
        /\ shards'[Len(shards) + 1] = env
    BY <1>0, <2>1, <2>2, AppendProperties, LenProperties
  <2>4. \A j \in 1..Len(shards) : Placed(j, shards[j])'
    BY <1>0, <2>3 DEF PlacedInv, Placed
  <2>5. Placed(Len(shards) + 1, env)
    BY <2>1
  <2>6. ASSUME NEW j \in DOMAIN shards'
        PROVE  Placed(j, shards[j])'
    <3>1. CASE j \in 1..Len(shards)
      BY <2>4, <3>1
    <3>2. CASE j = Len(shards) + 1
      BY <1>0, <2>3, <2>5, <3>2 DEF Placed
    <3> QED
      BY <2>3, <3>1, <3>2
  <2> QED
    BY <2>6 DEF PlacedInv
<1> QED
  BY <1>1, <1>2, <1>3, NextEvolves

\* Where the ports are given, not chosen (no --randomize-ports), the servers of
\* a cluster never share one, with slaves or without, however many shards it
\* starts with and however many are added later (redis_cluster.py:32-39, 238).
THEOREM PortsAreOwn == Spec => []PortsDistinct
<1> DEFINE Inv == TypeInv /\ PlacedInv
<1>1. Init => Inv
  BY TypeInit, PlacedInit
<1>2. Inv /\ [Next]_vars => Inv'
  BY TypeNext, PlacedNext
<1>3. Inv => PortsDistinct
  <2> SUFFICES ASSUME Inv, NEW i \in DOMAIN shards, NEW j \in DOMAIN shards, i # j
               PROVE  {shards[i].port, shards[i].slavePort} \cap
                      ({shards[j].port, shards[j].slavePort} \ {0}) = {}
    BY DEF PortsDistinct
  <2>0. Len(shards) \in Nat /\ DOMAIN shards = 1..Len(shards)
    BY ShardsLen, LenProperties DEF TypeInv, TypeOK
  <2>1. i \in Nat /\ j \in Nat
    BY <2>0
  <2>2. /\ shards[i].port = 2 * i /\ shards[i].slavePort \in {0, 2 * i + 1}
        /\ shards[j].port = 2 * j /\ shards[j].slavePort \in {0, 2 * j + 1}
    BY DEF PlacedInv, Placed
  <2> QED
    BY <2>1, <2>2
<1> QED
  BY <1>1, <1>2, <1>3, PTL DEF Spec

-----------------------------------------------------------------------------
(* The servers of ServerPromise.                                           *)

\* The server seen behind shard i, as the refinement mapping has it.
SeenOf(i) == IF i \in DOMAIN shards /\ ~opts.useSlaves THEN Seen(shards[i]) ELSE Fresh

AllSeen == [i \in 1..MaxShards |-> SeenOf(i)]

LEMMA MappedInit ==
    ASSUME Init
    PROVE  Promise!Init
<1> DEFINE n == IF opts.cluster THEN ShardsCount ELSE 1
<1>1. /\ n \in Nat /\ opts.useSlaves \in BOOLEAN
      /\ shards = [i \in 1..n |-> New(2 * i, opts.useSlaves)]
  BY EnvRunnerAssumption DEF Init, OptionsType
<1> HIDE DEF n
<1>2. \A i \in 1..n : Seen(New(2 * i, opts.useSlaves)) = Fresh
  BY <1>1, NewIsFresh
<1>3. \A i \in 1..MaxShards : SeenOf(i) = Fresh
  BY <1>1, <1>2 DEF SeenOf
<1>4. Promise!Fresh = Fresh
  BY DEF Promise!Fresh, Fresh
<1> QED
  BY <1>3, <1>4 DEF Promise!Init, SeenOf

\* One server changes as ServerPromise says, or none.
LEMMA MappedStep ==
    ASSUME NEW i \in 1..MaxShards, SeenOf(i)' \in Outcomes(SeenOf(i)),
           \A j \in 1..MaxShards : j # i => SeenOf(j)' = SeenOf(j)
    PROVE  Promise!Next \/ AllSeen' = AllSeen
<1>1. AllSeen' = [AllSeen EXCEPT ![i] = SeenOf(i)']
  BY DEF AllSeen
<1>2. CASE SeenOf(i)' = SeenOf(i)
  BY <1>2 DEF AllSeen
<1>3. CASE SeenOf(i)' # SeenOf(i)
  <2>1. AllSeen[i] = SeenOf(i)
    BY DEF AllSeen
  <2>2. SeenOf(i)' \in Promise!Started(AllSeen[i]) \cup Promise!Stopped(AllSeen[i])
                        \cup Promise!Restarted(AllSeen[i]) \cup Promise!Died(AllSeen[i])
    BY <1>3, <2>1, SameServer DEF Outcomes
  <2> QED
    BY <1>1, <2>2 DEF Promise!Next, AllSeen, SeenOf
<1> QED
  BY <1>2, <1>3

LEMMA PromiseStep ==
    ASSUME TypeInv, PlacedInv, [Next]_vars
    PROVE  Promise!Next \/ AllSeen' = AllSeen
<1>0. /\ opts' = opts /\ shards \in Seq(StandardEnvType) /\ Len(shards) \in 1..MaxShards
      /\ MaxShards \in Nat /\ DOMAIN shards = 1..Len(shards) /\ Len(shards) \in Nat
  BY NextEvolves, ShardsLen, LenProperties, EnvRunnerAssumption DEF TypeInv, TypeOK
<1>1. CASE shards' = shards
  BY <1>0, <1>1 DEF AllSeen, SeenOf
<1>2. CASE ShardEvolves
  <2>1. PICK i \in DOMAIN shards : \E env :
            Evolves(shards[i], env) /\ shards' = [shards EXCEPT ![i] = env]
    BY <1>2 DEF ShardEvolves
  <2>2. PICK env : Evolves(shards[i], env) /\ shards' = [shards EXCEPT ![i] = env]
    BY <2>1
  <2>3. /\ DOMAIN shards' = DOMAIN shards /\ shards'[i] = env
        /\ \A j \in DOMAIN shards : j # i => shards'[j] = shards[j]
    BY <1>0, <2>2
  <2>4. i \in 1..MaxShards
    BY <1>0
  <2>5. SeenOf(i)' \in Outcomes(SeenOf(i))
    <3>1. CASE opts.useSlaves
      BY <1>0, <3>1 DEF SeenOf, Outcomes
    <3>2. CASE ~opts.useSlaves
      <4>1. SeenOf(i) = Seen(shards[i]) /\ SeenOf(i)' = Seen(env)
        BY <1>0, <2>3, <3>2 DEF SeenOf
      <4>2. ~shards[i].useSlaves
        BY <3>2 DEF PlacedInv, Placed
      <4> QED
        BY <2>2, <4>1, <4>2 DEF Evolves
    <3> QED
      BY <3>1, <3>2
  <2>6. \A j \in 1..MaxShards : j # i => SeenOf(j)' = SeenOf(j)
    BY <1>0, <2>3 DEF SeenOf
  <2> QED
    BY <2>4, <2>5, <2>6, MappedStep
<1>3. CASE ShardAdded
  <2>0. PICK n \in 1..MaxShards : n = Len(shards) + 1
    BY <1>0, <1>3 DEF ShardAdded
  <2>1. PICK env : /\ Placed(n, env) /\ shards' = Append(shards, env)
                   /\ ~opts.useSlaves => Seen(env) \in Started(Fresh)
    BY <1>3, <2>0 DEF ShardAdded
  <2>2. env \in StandardEnvType
    BY <2>1 DEF Placed, Sound, EnvInv
  <2>3. /\ DOMAIN shards' = 1..n /\ shards'[n] = env
        /\ \A j \in 1..Len(shards) : shards'[j] = shards[j]
    BY <1>0, <2>0, <2>1, <2>2, AppendProperties, LenProperties
  <2>4. n \notin DOMAIN shards
    BY <1>0, <2>0
  <2>5. SeenOf(n)' \in Outcomes(SeenOf(n))
    <3>1. SeenOf(n) = Fresh
      BY <2>4 DEF SeenOf
    <3>2. SeenOf(n)' = IF opts.useSlaves THEN Fresh ELSE Seen(env)
      <4>1. n \in DOMAIN shards'
        BY <1>0, <2>0, <2>3
      <4> QED BY <1>0, <2>3, <4>1 DEF SeenOf
    <3> QED
      BY <2>1, <3>1, <3>2 DEF Outcomes
  <2>6. \A j \in 1..MaxShards : j # n => SeenOf(j)' = SeenOf(j)
    <3> SUFFICES ASSUME NEW j \in 1..MaxShards, j # n
                 PROVE  SeenOf(j)' = SeenOf(j)
      OBVIOUS
    <3>1. j \in DOMAIN shards' <=> j \in DOMAIN shards
      BY <1>0, <2>0, <2>3
    <3>2. j \in DOMAIN shards => shards'[j] = shards[j]
      BY <1>0, <2>3
    <3> QED
      BY <1>0, <3>1, <3>2 DEF SeenOf
  <2> QED
    BY <2>5, <2>6, MappedStep
<1> QED
  BY <1>1, <1>2, <1>3, NextEvolves

\* What TestRunner assumes of the servers behind its Envs is what StandardEnv
\* and ClusterEnv do with them, whatever is called and whatever fails: every
\* step changes one server as ServerPromise lets it, or none.
THEOREM PromiseIsKept == Spec => ServersAsPromised
<1> DEFINE Inv == TypeInv /\ PlacedInv
<1>1. Init => Inv /\ Promise!Init
  BY TypeInit, PlacedInit, MappedInit
<1>2. Inv /\ [Next]_vars => Inv'
  BY TypeNext, PlacedNext
<1>3. Inv /\ [Next]_vars =>
          [Promise!Next]_([i \in 1..MaxShards |->
                             IF i \in DOMAIN shards /\ ~opts.useSlaves
                             THEN Seen(shards[i]) ELSE Fresh])
  BY PromiseStep DEF AllSeen, SeenOf
<1> QED
  BY <1>1, <1>2, <1>3, PTL DEF Spec, ServersAsPromised, Promise!Spec
================================================================================
