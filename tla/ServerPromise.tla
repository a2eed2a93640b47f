----------------------------- MODULE ServerPromise -----------------------------
(***************************************************************************)
(* What the rest of RLTest relies on of the servers behind the Envs: each  *)
(* is only started, stopped, stopped and started again, or dies, with the  *)
(* outcomes of RedisServer.                                                *)
(***************************************************************************)
EXTENDS RedisServer

CONSTANT Servers
VARIABLE servers

Init == servers = [s \in Servers |-> Fresh]

Restarted(sv) == UNION {Started(down) : down \in Stopped(sv)}

Died(sv) == IF sv.proc = "running" THEN {[sv EXCEPT !.proc = "crashed"]} ELSE {}

Next ==
    \E s \in Servers :
        \E sv \in Started(servers[s]) \cup Stopped(servers[s])
                    \cup Restarted(servers[s]) \cup Died(servers[s]) :
            servers' = [servers EXCEPT ![s] = sv]

Spec == Init /\ [][Next]_servers
================================================================================
