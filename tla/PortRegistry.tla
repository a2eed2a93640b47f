----------------------------- MODULE PortRegistry -----------------------------
(***************************************************************************)
(* random_port.py: processes that pick ports for their servers and keep    *)
(* /tmp/rltest_portfile.lock, a dictionary from ports to process ids.  The *)
(* file is rewritten in place under flock, entries of dead processes are   *)
(* dropped by whoever comes next, and processes may be killed anywhere.    *)
(***************************************************************************)
EXTENDS Naturals

CONSTANTS
    Procs,          \* processes that call get_random_port
    Ports,          \* the ports it picks from
    None,           \* no process, no port
    Torn,           \* a file that json.load cannot read
    MaxTries,       \* 10000 in the code
    MaxKills        \* bound on processes killed

ASSUME PortAssumption ==
    /\ None \notin Procs \cup Ports
    /\ MaxTries \in Nat /\ MaxKills \in Nat

Entries == [Ports -> Procs \cup {None}]
Empty == [q \in Ports |-> None]

ASSUME TornAssumption == Torn \notin Entries

VARIABLES
    alive,          \* the processes that live
    pc,             \* where each is in get_random_port
    port, tries,    \* its locals
    granted,        \* what register_port is going to return
    entries,        \* the dictionary register_port has read and changed
    lock,           \* who holds the flock
    file,           \* the contents of the file
    owned,          \* the ports get_random_port has returned to each
    listening,      \* whose server listens on a port
    kills,
    spoiled         \* history: a process was killed while rewriting

local == <<port, tries, granted, entries>>
vars == <<alive, pc, local, lock, file, owned, listening, kills, spoiled>>

Trying == {"choose", "register", "dump"}

TypeOK ==
    /\ alive \subseteq Procs
    /\ pc \in [Procs -> {"idle", "failed"} \cup Trying]
    /\ port \in [Procs -> Ports \cup {None}]
    /\ \A p \in alive : pc[p] \in {"register", "dump"} => port[p] \in Ports
    /\ tries \in [Procs -> 0..MaxTries]
    /\ granted \in [Procs -> BOOLEAN]
    /\ entries \in [Procs -> Entries]
    /\ lock \in Procs \cup {None}
    /\ file \in Entries \cup {Torn}
    /\ owned \in [Procs -> SUBSET Ports]
    /\ listening \in Entries
    /\ kills \in 0..MaxKills
    /\ spoiled \in BOOLEAN

Init ==
    /\ alive = Procs
    /\ pc = [p \in Procs |-> "idle"]
    /\ port = [p \in Procs |-> None]
    /\ tries = [p \in Procs |-> 0]
    /\ granted = [p \in Procs |-> FALSE]
    /\ entries = [p \in Procs |-> Empty]
    /\ lock = None
    /\ file = Empty
    /\ owned = [p \in Procs |-> {}]
    /\ listening = Empty
    /\ kills = 0
    /\ spoiled = FALSE

Goes(p, to) == pc' = [pc EXCEPT ![p] = to]

\* register_port returns: its locals are gone.
Returns(p) ==
    /\ port' = [port EXCEPT ![p] = None]
    /\ granted' = [granted EXCEPT ![p] = FALSE]
    /\ entries' = [entries EXCEPT ![p] = Empty]

\* A process is gone, with all it had in memory.
Dies(p) ==
    /\ alive' = alive \ {p}
    /\ Goes(p, "idle")
    /\ tries' = [tries EXCEPT ![p] = 0]
    /\ owned' = [owned EXCEPT ![p] = {}]
    /\ Returns(p)

-----------------------------------------------------------------------------
Call(p) ==
    /\ p \in alive /\ pc[p] = "idle"
    /\ Goes(p, "choose")
    /\ UNCHANGED <<alive, tries, port, granted, entries, lock, file, owned, listening,
                   kills, spoiled>>

\* Fault: the tries are counted and never looked at.
ChooseForEver(p) ==
    /\ p \in alive /\ pc[p] = "choose"
    /\ tries' = [tries EXCEPT ![p] = @ + 1]
    /\ \E q \in Ports :
          /\ port' = [port EXCEPT ![p] = q]
          /\ Goes(p, IF listening[q] = None THEN "register" ELSE "choose")
    /\ UNCHANGED <<alive, granted, entries, lock, file, owned, listening, kills,
                   spoiled>>

\* A port at random; bind() tells whether a server listens on it, and the
\* socket is closed again before the port is registered.
Choose(p) ==
    /\ p \in alive /\ pc[p] = "choose"
    /\ tries[p] < MaxTries
    /\ tries' = [tries EXCEPT ![p] = @ + 1]
    /\ \E q \in Ports :
          /\ port' = [port EXCEPT ![p] = q]
          /\ Goes(p, IF listening[q] = None THEN "register" ELSE "choose")
    /\ UNCHANGED <<alive, granted, entries, lock, file, owned, listening, kills,
                   spoiled>>

FindsNone(p) ==
    /\ p \in alive /\ pc[p] = "choose"
    /\ tries[p] = MaxTries
    /\ Goes(p, "failed")
    /\ UNCHANGED <<alive, local, lock, file, owned, listening, kills, spoiled>>

\* Fault: who has no server listening counts as dead.
ResponsiveServers ==
    [q \in Ports |-> IF listening[q] = file[q] THEN file[q] ELSE None]

\* The entries of processes that live.
Responsive == [q \in Ports |-> IF file[q] \in alive THEN file[q] ELSE None]

\* The dictionary, and whether the port was given, go to memory; an unreadable
\* file raises.
Reads(p) ==
    /\ p \in alive /\ pc[p] = "register"
    /\ IF file = Torn
       THEN /\ Goes(p, "failed")
            /\ Returns(p)
            /\ UNCHANGED <<lock, file>>
       ELSE /\ Goes(p, "dump")
            /\ lock' = p
            /\ granted' = [granted EXCEPT ![p] = Responsive[port[p]] = None]
            /\ entries' = [entries EXCEPT ![p] =
                  IF granted'[p] THEN [Responsive EXCEPT ![port[p]] = p]
                                 ELSE Responsive]
            /\ file' = Empty
            /\ UNCHANGED port
    /\ UNCHANGED <<alive, tries, owned, listening, kills, spoiled>>

\* Fault: the file is read without waiting for the lock.
RegisterUnlocked(p) == Reads(p)

\* register_port: with the lock, the file is read and truncated.  It is one
\* step, since nobody else sees the file before the lock is given up.
Register(p) == lock = None /\ Reads(p)

\* json.dump fills a buffer; closing the file writes it and gives up the lock.
Dump(p) ==
    /\ p \in alive /\ pc[p] = "dump" /\ lock = p
    /\ file' = entries[p]
    /\ lock' = None
    /\ owned' = [owned EXCEPT ![p] = IF granted[p] THEN @ \cup {port[p]} ELSE @]
    /\ Goes(p, IF granted[p] THEN "idle" ELSE "choose")
    /\ tries' = [tries EXCEPT ![p] = IF granted[p] THEN 0 ELSE @]
    /\ Returns(p)
    /\ UNCHANGED <<alive, listening, kills, spoiled>>

-----------------------------------------------------------------------------
\* Between its calls a process starts a server on a port of its own, or stops it.
Listen(p) ==
    /\ p \in alive /\ pc[p] = "idle"
    /\ \E q \in owned[p] :
          /\ listening[q] = None
          /\ listening' = [listening EXCEPT ![q] = p]
    /\ UNCHANGED <<alive, pc, local, lock, file, owned, kills, spoiled>>

StopServer(p) ==
    /\ p \in alive /\ pc[p] = "idle"
    /\ \E q \in owned[p] :
          /\ listening[q] = p
          /\ listening' = [listening EXCEPT ![q] = None]
    /\ UNCHANGED <<alive, pc, local, lock, file, owned, kills, spoiled>>

\* A process ends, its servers stopped.
Exit(p) ==
    /\ p \in alive /\ pc[p] \in {"idle", "failed"}
    /\ Dies(p)
    /\ listening' = [q \in Ports |-> IF listening[q] = p THEN None ELSE listening[q]]
    /\ UNCHANGED <<lock, file, kills, spoiled>>

\* Fault: the lock survives the process that held it.
KillKeepsLock(p) ==
    /\ p \in alive /\ kills < MaxKills
    /\ kills' = kills + 1
    /\ Dies(p)
    /\ IF pc[p] = "dump"
       THEN spoiled' = TRUE /\ file' \in {Empty, Torn}
       ELSE UNCHANGED <<spoiled, file>>
    /\ UNCHANGED <<lock, listening>>

\* It is killed: flock goes with it, its servers stay.  What it had buffered
\* is lost, or the part that did not fit the buffer is in the file.
Kill(p) ==
    /\ p \in alive /\ kills < MaxKills
    /\ kills' = kills + 1
    /\ Dies(p)
    /\ lock' = IF lock = p THEN None ELSE lock
    /\ IF pc[p] = "dump"
       THEN spoiled' = TRUE /\ file' \in {Empty, Torn}
       ELSE UNCHANGED <<spoiled, file>>
    /\ UNCHANGED listening

Step(p) == Choose(p) \/ FindsNone(p) \/ Register(p) \/ Dump(p)

Next ==
    \E p \in Procs :
        Call(p) \/ Step(p) \/ Listen(p) \/ StopServer(p) \/ Exit(p) \/ Kill(p)

\* Each process goes on with the call it is in.
Spec == Init /\ [][Next]_vars /\ \A p \in Procs : WF_vars(Step(p))

-----------------------------------------------------------------------------
\* The file knows every port a living process was given, so that nobody else
\* is given it; unless somebody was killed in the middle of rewriting, which
\* forgets them all (28-40).
RegistryKnowsOwners ==
    ~spoiled /\ lock = None =>
        /\ file # Torn
        /\ \A p \in alive : \A q \in owned[p] : file[q] = p

\* No port is given to two processes that live, although it is free for a
\* moment between bind() and register_port (45-56).
PortsExclusive ==
    ~spoiled =>
        \A p, r \in alive : p # r => owned[p] \cap owned[r] = {}

\* Every call returns or raises: no process waits for ever for the lock, also
\* when its holder is killed (21, 45-63).
CallsEnd ==
    \A p \in Procs :
        p \in alive /\ pc[p] \in Trying ~> p \notin alive \/ pc[p] \notin Trying
===============================================================================
