---------------------------- MODULE MCConfiguration ----------------------------
(***************************************************************************)
(* Instances of Configuration for TLC: command lines and requests that     *)
(* differ from the plain one in few parameters.                            *)
(***************************************************************************)
EXTENDS Configuration, FiniteSets

Nothing == [shape |-> "nothing"]
Text(t) == [shape |-> "text", text |-> t]
Lists(l) == [shape |-> "lists", lists |-> l]

PlainLine ==
    [env |-> "oss", interactive |-> FALSE, debugger |-> FALSE, valgrind |-> FALSE,
     useSlaves |-> FALSE, noCatch |-> FALSE, parallel |-> FALSE, unix |-> FALSE,
     useTLS |-> FALSE, certificates |-> TRUE, shardsCount |-> 1,
     validPort |-> TRUE, inTime |-> TRUE, randomizePorts |-> FALSE,
     enableDebugCommand |-> FALSE, module |-> None, moduleArgs |-> Nothing]

PlainRequest ==
    [env |-> None, useSlaves |-> None, shardsCount |-> None,
     enableDebugCommand |-> None, forceTcp |-> FALSE, useTLS |-> FALSE,
     freshEnv |-> FALSE, noDefaultModuleArgs |-> FALSE,
     module |-> None, moduleArgs |-> Nothing]

\* One parameter changed, by name and value.
LineChanges ==
    ({"interactive", "debugger", "valgrind", "useSlaves", "noCatch", "parallel",
      "unix", "useTLS", "randomizePorts", "enableDebugCommand"} \X {TRUE})
      \cup ({"certificates", "validPort", "inTime"} \X {FALSE})

RequestChanges ==
    ({"forceTcp", "useTLS", "freshEnv"} \X {TRUE})
      \cup ({"useSlaves", "enableDebugCommand"} \X BOOLEAN)

Change(record, change) == [record EXCEPT ![change[1]] = change[2]]

Changed(records, changes) ==
    records \cup {Change(r, change) : r \in records, change \in changes}

\* Two switches of a single server or of a cluster of two, one of the rest.
SwitchLines ==
    {[line EXCEPT !.env = env, !.shardsCount = IF env = "oss" THEN 1 ELSE 2] :
        line \in Changed(Changed({PlainLine}, LineChanges), LineChanges),
        env \in {"oss", "oss-cluster"}}
      \cup {[line EXCEPT !.env = "existing-env"] : line \in Changed({PlainLine}, LineChanges)}

SwitchRequests ==
    {[r EXCEPT !.env = env] :
        r \in Changed({PlainRequest}, RequestChanges), env \in Envs \cup {None}}
      \cup {[PlainRequest EXCEPT !.env = "oss-cluster", !.shardsCount = 3]}

\* Two modules; an argument is a key and a value.
ArgsOfLines ==
    {Nothing, Lists(<< << <<"K", "1">> >> >>), Lists(<< << <<"K", "1", ";", "L", "1">> >> >>),
     Lists(<< << <<"K", "1">> >>, << <<"L", "1">>, <<"K", "2">> >> >>)}

ModuleLines ==
    {[PlainLine EXCEPT !.module = m, !.moduleArgs = args] :
        m \in {None, <<"x">>, <<"x", "y">>}, args \in ArgsOfLines}

ArgsOfRequests ==
    {Nothing, [shape |-> "mixed"], Text(<<>>), Text(<<"K", "2">>),
     Text(<<"L", "K">>), Text(<<"K", "2", ";", "M", "esc", "1">>),
     [shape |-> "texts", texts |-> <<>>],
     [shape |-> "texts", texts |-> << <<"M", "2", ";", "L", "2">>, <<"esc">> >>],
     Lists(<< << <<"K", "2", "L", "2">> >> >>),
     Lists(<< << <<"M", "1">> >>, << <<"L", "2", ";", "M", "2">> >> >>)}

ModuleRequests ==
    {[PlainRequest EXCEPT !.module = m, !.moduleArgs = args] :
        m \in {None, <<"x", "y">>}, args \in ArgsOfRequests}
      \cup {[PlainRequest EXCEPT !.module = m, !.noDefaultModuleArgs = no] :
                m \in {<<>>, <<"x">>}, no \in BOOLEAN}

\* Three modules by default, and a test of five that gives one list.
LongLines ==
    {[PlainLine EXCEPT !.module = <<"x", "y", "z">>, !.moduleArgs =
        Lists(<< << <<"K", "1">> >>, << <<"L", "1">> >>, << <<"M", "1">> >> >>)]}

LongRequests ==
    {[PlainRequest EXCEPT !.module = <<"x", "y", "z", "v", "w">>, !.moduleArgs = args] :
        args \in {Nothing, Text(<<"K", "2", ";", "L", "2">>), Lists(<< << <<"K", "2">> >> >>)}}

SomeLines == SwitchLines \cup ModuleLines \cup LongLines
SomeRequests == SwitchRequests \cup ModuleRequests \cup LongRequests
================================================================================
