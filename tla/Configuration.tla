----------------------------- MODULE Configuration -----------------------------
(***************************************************************************)
(* From a command line and what the tests ask for to the servers they get: *)
(* RLTest.__init__ (__main__.py) checks the command line and sets the      *)
(* Defaults; Env.__init__ (env.py) resolves each parameter, keeps the      *)
(* servers it finds if they will do, and makes new ones otherwise; the     *)
(* constructors of StandardEnv and ClusterEnv have checks of their own.    *)
(***************************************************************************)
EXTENDS ModuleArgs

CONSTANTS
    Modules, Words,
    CommandLines,   \* the command lines considered
    Requests        \* what tests ask for

Envs == {"oss", "oss-cluster", "existing-env"}

ModuleType == Seq(Modules) \cup {None}

\* Lists of arguments, one list for each module.
ListsType == Seq(Seq(Seq(Words)))

\* The shapes of moduleArgs.
ArgsType ==
    [shape : {"nothing", "mixed"}] \cup [shape : {"text"}, text : Seq(Words)]
      \cup [shape : {"texts"}, texts : Seq(Seq(Words))]
      \cup [shape : {"lists"}, lists : ListsType]

\* The parameters that are checked, and one of each way to be resolved.
\* certificates: the files for TLS are there.  inTime: --cluster-start-timeout
\* is 5 or more.
CommandLineType ==
    [env : Envs, interactive : BOOLEAN, debugger : BOOLEAN, valgrind : BOOLEAN,
     useSlaves : BOOLEAN, noCatch : BOOLEAN, parallel : BOOLEAN, unix : BOOLEAN,
     useTLS : BOOLEAN, certificates : BOOLEAN, shardsCount : Nat \ {0},
     validPort : BOOLEAN, inTime : BOOLEAN, randomizePorts : BOOLEAN,
     enableDebugCommand : BOOLEAN, module : ModuleType, moduleArgs : ArgsType]

RequestType ==
    [env : Envs \cup {None}, useSlaves : BOOLEAN \cup {None},
     shardsCount : {None} \cup (Nat \ {0}), enableDebugCommand : BOOLEAN \cup {None},
     forceTcp : BOOLEAN, useTLS : BOOLEAN, freshEnv : BOOLEAN,
     noDefaultModuleArgs : BOOLEAN, module : ModuleType, moduleArgs : ArgsType]

\* What the command line sets, what an Env knows, and what its servers are.
DefaultsType ==
    [env : Envs, module : ModuleType, moduleArgs : ListsType \cup {None},
     useSlaves : BOOLEAN, shardsCount : Nat \ {0}, enableDebugCommand : BOOLEAN,
     useTLS : BOOLEAN, certificates : BOOLEAN, unix : BOOLEAN,
     randomizePorts : BOOLEAN, noCatch : BOOLEAN, interactive : BOOLEAN]

EnvType ==
    [module : ModuleType, moduleArgs : ListsType \cup {None}, env : Envs,
     useSlaves : BOOLEAN, shardsCount : Nat \ {0}, forceTcp : BOOLEAN,
     enableDebugCommand : BOOLEAN, useTLS : BOOLEAN]

LoadType == [path : Modules, words : Seq(Words)]

RunnerType ==
    [made : EnvType, shards : Nat \ {0}, port : {"given", "random", "unix"},
     interactive : BOOLEAN, loads : Seq(LoadType), serial : 0..1]

ASSUME NoneAssumption ==
    None \notin Requests \cup DefaultsType \cup EnvType \cup RunnerType \cup ListsType

ASSUME ConfigurationAssumption ==
    /\ Semicolon \in Words
    /\ CommandLines \subseteq CommandLineType
    /\ \A c \in CommandLines : c.moduleArgs.shape \in {"nothing", "lists"}
    /\ Requests \subseteq RequestType

VARIABLES
    cmd,            \* the command line
    defaults,       \* the Defaults, None before they are set
    current,        \* currEnv: its parameters, None if there is no Env
    runner,         \* its envRunner: the servers, what they were made with, and
                    \* a serial number modulo 2
    asked,          \* the last request, None if it failed
    ended           \* the program has ended

vars == <<cmd, defaults, current, runner, asked, ended>>

TypeOK ==
    /\ cmd \in CommandLines /\ ended \in BOOLEAN
    /\ defaults \in DefaultsType \cup {None}
    /\ current \in EnvType \cup {None} /\ runner \in RunnerType \cup {None}
    /\ asked \in Requests \cup {None}
    /\ current = None <=> runner = None
    /\ defaults = None => current = None
    /\ asked # None => current # None

Init ==
    /\ cmd \in CommandLines
    /\ defaults = None /\ current = None /\ runner = None /\ asked = None
    /\ ended = FALSE

-----------------------------------------------------------------------------
\* -i.  The number of shards it looks at is still the 1 of the class Defaults.
AllowsInteractive(c) ==
    c.env \in {"oss", "oss-cluster"} /\ ~c.valgrind /\ ~c.useSlaves

\* The checks of RLTest.__init__, all of which end the program.
Accepted(c) ==
    /\ c.validPort
    /\ c.interactive => AllowsInteractive(c) /\ ~c.parallel
    /\ c.debugger \/ c.valgrind => c.env # "existing-env"
    /\ c.moduleArgs.shape # "nothing" /\ c.module # None =>
          Len(c.module) = Len(c.moduleArgs.lists)
    /\ ~(c.noCatch /\ c.parallel)
    /\ c.inTime
    /\ ~(c.unix /\ c.useSlaves)

\* Valgrind takes the place of an interactive debugger; --debugger asks for
\* one after -i has been looked at.
DefaultsFrom(c) ==
    LET module == FixModules(c.module, None)
    IN  [env |-> c.env, module |-> module,
         moduleArgs |-> FixModulesArgs(module, c.moduleArgs, None, TRUE).args,
         useSlaves |-> c.useSlaves, shardsCount |-> c.shardsCount,
         enableDebugCommand |-> c.enableDebugCommand,
         useTLS |-> c.useTLS, certificates |-> c.certificates, unix |-> c.unix,
         randomizePorts |-> c.randomizePorts, noCatch |-> c.noCatch \/ c.interactive,
         interactive |-> (c.interactive \/ c.debugger) /\ ~c.valgrind]

ParseCommandLine ==
    /\ defaults = None /\ ~ended
    /\ IF Accepted(cmd) THEN defaults' = DefaultsFrom(cmd) /\ UNCHANGED ended
       ELSE ended' = TRUE /\ UNCHANGED defaults
    /\ UNCHANGED <<cmd, current, runner, asked>>

-----------------------------------------------------------------------------
\* Two ways to resolve a parameter: as a flag, which cannot be given as False.
EitherSet(value, default) == (value # None /\ value) \/ default
IfGiven(value, default) == IF value = None THEN default ELSE value

\* What an Env makes of a request, its module arguments being args.
Resolved(r, args) ==
    [module |-> FixModules(r.module, defaults.module),
     moduleArgs |-> args,
     env |-> IfGiven(r.env, defaults.env),
     useSlaves |-> EitherSet(r.useSlaves, defaults.useSlaves),
     shardsCount |-> IfGiven(r.shardsCount, defaults.shardsCount),
     forceTcp |-> r.forceTcp,
     enableDebugCommand |-> IfGiven(r.enableDebugCommand, defaults.enableDebugCommand),
     useTLS |-> EitherSet(r.useTLS, defaults.useTLS)]

\* Fault: a parameter that decides about the ports is missing from the list.
CompareParamsButTcp ==
    {"module", "moduleArgs", "env", "useSlaves", "shardsCount", "enableDebugCommand"}

\* EnvCompareParams, one for each way to be resolved.  useTLS is not in it; it
\* stands for all that are not (the files for TLS, dualTLS, decodeResponses,
\* logDir, the binaries, clusterNodeTimeout, terminateRetries and
\* terminateRetrySecs, redisConfigFile, startupGraceSecs).
EnvCompareParams ==
    {"module", "moduleArgs", "env", "useSlaves", "shardsCount", "forceTcp",
     "enableDebugCommand"}

\* Fault: everything is compared, the name of the test included.
CompareEnvsByName(a, b) == FALSE

CompareEnvs(a, b) ==
    b # None /\ \A param \in EnvCompareParams : a[param] = b[param]

\* getSingleArgs: the port of a single server, which is -1 with a Unix socket.
SinglePort(e) ==
    CASE e.forceTcp -> "random"
      [] ~e.forceTcp /\ defaults.unix -> "unix"
      [] OTHER -> IF defaults.randomizePorts THEN "random" ELSE "given"

\* Fault: no assertion about debuggers.
MayServeDebugged(e, cluster, serverId, port) ==
    /\ port = "unix" => ~cluster /\ ~e.useTLS
    /\ e.useTLS => defaults.certificates

\* StandardEnv.__init__: an assertion, and checks that raise a ValueError.
MayServe(e, cluster, serverId, port) ==
    /\ defaults.interactive /\ serverId > 1 =>
          defaults.noCatch /\ ~e.useSlaves /\ ~cluster
    /\ port = "unix" => ~cluster /\ ~e.useTLS
    /\ e.useTLS => defaults.certificates

\* createCmdArgs: what follows --loadmodule for each module, in words.
LoadModules(module, args) ==
    [i \in DOMAIN module |->
        [path |-> module[i],
         words |-> IF Truthy(args) THEN FlattenSeq(args[i]) ELSE <<>>]]

\* The module arguments go through fix_modulesArgs once more.
ServerArgs(e) ==
    FixModulesArgs(FixModules(e.module, None),
                   IF e.moduleArgs = None THEN [shape |-> "nothing"]
                   ELSE [shape |-> "lists", lists |-> e.moduleArgs],
                   None, FALSE).args

\* Otherwise createCmdArgs ends the program.
Loadable(e) ==
    e.module # None /\ Truthy(ServerArgs(e)) => Len(e.module) = Len(ServerArgs(e))

\* getEnvByName.  A cluster has no use for Unix sockets or forceTcp.
Shards(e) == IF e.env = "oss-cluster" THEN e.shardsCount ELSE 1

Port(e) ==
    IF e.env # "oss-cluster" THEN SinglePort(e)
    ELSE IF defaults.randomizePorts THEN "random" ELSE "given"

MayBeMade(e) ==
    e.env # "existing-env" =>
        \A serverId \in 1..Shards(e) :
            MayServe(e, e.env = "oss-cluster", serverId, Port(e))

NewRunner(e) ==
    [made |-> e, shards |-> Shards(e), port |-> Port(e),
     interactive |-> defaults.interactive,
     loads |-> IF e.module = None \/ e.env = "existing-env" THEN <<>>
               ELSE LoadModules(e.module, ServerArgs(e)),
     serial |-> IF runner = None THEN 0 ELSE 1 - runner.serial]

\* Env.__init__.  Nothing has changed when the module arguments are refused;
\* the servers that are replaced are stopped before new ones are made.
NewEnv(r) ==
    /\ defaults # None /\ ~ended
    /\ LET fixed == FixModulesArgs(FixModules(r.module, defaults.module), r.moduleArgs,
                        IF r.noDefaultModuleArgs THEN None ELSE defaults.moduleArgs, TRUE)
           e == Resolved(r, fixed.args)
           reuse == ~r.freshEnv /\ CompareEnvs(e, current)
           made == MayBeMade(e) /\ (e.env # "existing-env" => Loadable(e))
       IN  /\ defaults' = IF r.noDefaultModuleArgs THEN defaults
                          ELSE [defaults EXCEPT !.moduleArgs = fixed.defaults]
           /\ IF fixed.how = "returned" /\ (reuse \/ made)
              THEN /\ asked' = r
                   /\ current' = e
                   /\ runner' = IF reuse THEN runner ELSE NewRunner(e)
              ELSE asked' = None /\ UNCHANGED <<current, runner>>
           /\ ended' = \/ fixed.how = "exit"
                       \/ fixed.how = "returned" /\ ~reuse /\ ~made /\ MayBeMade(e)
    /\ UNCHANGED cmd

\* Fault: the servers of an Env that is taken down are kept.
TakeEnvDownKeepingServers ==
    /\ current # None /\ ~ended
    /\ current' = None /\ asked' = None
    /\ UNCHANGED <<cmd, defaults, runner, ended>>

\* takeEnvDown, between two tests that do not share an Env.
TakeEnvDown ==
    /\ current # None /\ ~ended
    /\ current' = None /\ runner' = None /\ asked' = None
    /\ UNCHANGED <<cmd, defaults, ended>>

Next ==
    \/ ParseCommandLine
    \/ \E r \in Requests : NewEnv(r)
    \/ TakeEnvDown

Spec == Init /\ [][Next]_vars
-----------------------------------------------------------------------------
\* No Env changes the Defaults that the Envs after it start from, although its
\* own module arguments are made out of the same lists (utils.py:182-198).
DefaultsUntouched == [][defaults # None => UNCHANGED defaults]_vars

\* The servers at hand are those that would be made for the Env at hand, however
\* many Envs have handed them on: as many, reached in the same way, each module
\* with the same arguments, and with the same parameters whether or not the
\* code compares them (env.py:189-204, 269-274).  The exception is useTLS: a
\* test that asks for TLS takes over servers that do not speak it.
ServersAsIfNew ==
    current # None =>
        /\ \A param \in DOMAIN current \ {"useTLS"} :
              runner.made[param] = current[param]
        /\ \A what \in {"shards", "port", "loads"} :
              runner[what] = NewRunner(current)[what]

\* A test that asks for what the last one asked for gets its servers: two
\* specs of the same spec_key share them (env_spec.py:131-141).
SameSpecReuses ==
    [][ asked # None /\ ~asked.freshEnv /\ asked' = asked => UNCHANGED runner ]_vars

\* What a request gives to module i.
GivenTo(args, i) ==
    CASE args.shape = "lists" /\ i \in DOMAIN args.lists -> AllParts(args.lists[i])
      [] args.shape = "texts" /\ i = 1 -> AllParts(args.texts)
      [] args.shape = "text" /\ i = 1 ->
           IF IsPlain(args) THEN << args.text >> ELSE Parts(args.text)
      [] OTHER -> <<>>

DefaultOf(r, i) ==
    IF ~r.noDefaultModuleArgs /\ Truthy(defaults.moduleArgs)
         /\ i \in DOMAIN defaults.moduleArgs
    THEN defaults.moduleArgs[i] ELSE <<>>

\* How many lists of arguments a request gives.
GivenLists(args) ==
    CASE args.shape = "nothing" -> 0
      [] args.shape = "lists" -> Len(args.lists)
      [] OTHER -> 1

\* Module i is loaded with the arguments the test gives it and then with those
\* defaults of its own that the test does not give.
HasItsArgs(i) ==
    LET given == GivenTo(asked.moduleArgs, i)
        named == IF IsPlain(asked.moduleArgs) THEN ToSet(asked.moduleArgs.text)
                 ELSE Keys(given)
    IN  runner.loads[i].words =
            FlattenSeq(given) \o FlattenSeq(Unnamed(DefaultOf(asked, i), named))

\* Module i is one of several that had no arguments and got one list (utils.py:198).
SharesAList(i) ==
    LET given == GivenLists(asked.moduleArgs)
        missing == Len(runner.loads) - Len(defaults.moduleArgs)
    IN  /\ ~asked.noDefaultModuleArgs /\ Truthy(defaults.moduleArgs)
        /\ given > 0 /\ missing > 1
        /\ i \in (given + 1)..(given + missing)

\* Each module has its arguments, whatever the shape of those the test gives,
\* and after three passes through fix_modulesArgs (utils.py:101-213,
\* redis_std.py:33, 198-214); but a plain text drops the defaults of the
\* modules after the first, and modules that share a list get the defaults of
\* one another.
ArgsReachModules ==
    asked # None /\ current.env # "existing-env" =>
        \A i \in DOMAIN runner.loads :
            ~SharesAList(i) /\ (IsPlain(asked.moduleArgs) => i = 1) => HasItsArgs(i)

\* No cluster of several shards is started under an interactive debugger,
\* though --debugger and the number of shards are read after -i was checked
\* (__main__.py:440, 465-470, 519, redis_std.py:87-88).
OneServerToDebug == runner # None /\ runner.interactive => runner.shards = 1
================================================================================
