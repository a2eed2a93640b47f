-------------------------- MODULE PortRegistryProofs --------------------------
(***************************************************************************)
(* Proofs about PortRegistry, for any number of processes and ports.       *)
(***************************************************************************)
EXTENDS PortRegistry, TLAPS

\* A dictionary in which every living process finds the ports it was given.
Knows(f) == \A p \in alive : \A q \in owned[p] : f[q] = p

\* Whoever rewrites the file holds the lock, and the dead do nothing.
LockHeld ==
    /\ \A p \in Procs : lock = p <=> pc[p] = "dump"
    /\ \A p \in Procs : pc[p] # "idle" => p \in alive

\* While the file is empty, what it ought to say is in the memory of the
\* process that rewrites it.
InMemory ==
    ~spoiled =>
        \A p \in Procs : pc[p] = "dump" =>
            /\ Knows(entries[p])
            /\ granted[p] => /\ entries[p][port[p]] = p
                             /\ \A r \in alive : port[p] \notin owned[r]

\* The inductive invariant.
IInv == TypeOK /\ LockHeld /\ InMemory /\ RegistryKnowsOwners

-------------------------------------------------------------------------------
LEMMA InitType == Init => TypeOK
  <1> SUFFICES ASSUME Init
               PROVE  TypeOK
    OBVIOUS
  <1> USE PortAssumption DEF Init, Entries, Empty
  <1>1. /\ alive \subseteq Procs /\ pc \in [Procs -> {"idle", "failed"} \cup Trying]
        /\ \A p \in alive : pc[p] \notin {"register", "dump"}
    OBVIOUS
  <1>2. /\ port \in [Procs -> Ports \cup {None}] /\ tries \in [Procs -> 0..MaxTries]
        /\ owned \in [Procs -> SUBSET Ports] /\ kills \in 0..MaxKills
    OBVIOUS
  <1>3. /\ entries \in [Procs -> Entries] /\ file \in Entries \cup {Torn}
        /\ listening \in Entries /\ lock \in Procs \cup {None}
    OBVIOUS
  <1>4. granted \in [Procs -> BOOLEAN] /\ spoiled \in BOOLEAN
    BY Zenon
  <1> QED
    BY <1>1, <1>2, <1>3, <1>4 DEF TypeOK

\* What it is for a process to be gone, in the types.
LEMMA DiesType ==
    ASSUME TypeOK, NEW p \in Procs, Dies(p),
           lock' \in Procs \cup {None}, file' \in Entries \cup {Torn},
           listening' \in Entries, kills' \in 0..MaxKills, spoiled' \in BOOLEAN
    PROVE  TypeOK'
  <1> USE PortAssumption DEF TypeOK, Dies, Goes, Returns, Trying
  <1>1. alive' \subseteq Procs /\ tries' \in [Procs -> 0..MaxTries]
    OBVIOUS
  <1>2. pc' \in [Procs -> {"idle", "failed"} \cup Trying]
    OBVIOUS
  <1>3. port' \in [Procs -> Ports \cup {None}] /\ granted' \in [Procs -> BOOLEAN]
    OBVIOUS
  <1>4. entries' \in [Procs -> Entries]
    BY DEF Entries, Empty
  <1>5. owned' \in [Procs -> SUBSET Ports]
    OBVIOUS
  <1>6. \A r \in alive' : pc'[r] \in {"register", "dump"} => port'[r] \in Ports
    OBVIOUS
  <1> QED
    BY <1>1, <1>2, <1>3, <1>4, <1>5, <1>6

LEMMA StepType == TypeOK /\ [Next]_vars => TypeOK'
  <1> SUFFICES ASSUME TypeOK, [Next]_vars
               PROVE  TypeOK'
    OBVIOUS
  <1> USE PortAssumption DEF Trying
  <1>1. ASSUME NEW p \in Procs, Call(p)
        PROVE  TypeOK'
    BY <1>1 DEF TypeOK, Call, Goes
  <1>2. ASSUME NEW p \in Procs, Choose(p)
        PROVE  TypeOK'
    BY <1>2 DEF TypeOK, Choose, Goes
  <1>3. ASSUME NEW p \in Procs, FindsNone(p)
        PROVE  TypeOK'
    BY <1>3 DEF TypeOK, FindsNone, Goes, local
  <1>4. ASSUME NEW p \in Procs, Register(p)
        PROVE  TypeOK'
    <2>1. p \in alive /\ port[p] \in Ports
      BY <1>4 DEF Register, Reads, TypeOK
    <2>2. Empty \in Entries
      BY DEF Empty, Entries
    <2>3. UNCHANGED <<alive, tries, owned, listening, kills, spoiled>>
      BY <1>4 DEF Register, Reads
    <2>4. /\ alive' \subseteq Procs /\ tries' \in [Procs -> 0..MaxTries]
          /\ owned' \in [Procs -> SUBSET Ports] /\ listening' \in Entries
          /\ kills' \in 0..MaxKills
      BY <2>3 DEF TypeOK
    <2>5. spoiled' \in BOOLEAN
      BY <2>3, Zenon DEF TypeOK
    <2>6. lock' \in Procs \cup {None} /\ file' \in Entries \cup {Torn}
      BY <1>4, <2>2 DEF Register, Reads, TypeOK
    <2>7. CASE file = Torn
      <3>1. /\ granted' = [granted EXCEPT ![p] = FALSE]
            /\ entries' = [entries EXCEPT ![p] = Empty]
        BY <1>4, <2>7 DEF Register, Reads, Returns
      <3>2. granted' \in [Procs -> BOOLEAN]
        BY <3>1 DEF TypeOK
      <3>3. entries' \in [Procs -> Entries]
        BY <3>1, <2>2 DEF TypeOK
      <3>4. /\ pc' \in [Procs -> {"idle", "failed"} \cup Trying]
            /\ port' \in [Procs -> Ports \cup {None}]
        BY <1>4, <2>7 DEF TypeOK, Register, Reads, Goes, Returns
      <3>5. \A r \in alive' : pc'[r] \in {"register", "dump"} => port'[r] \in Ports
        BY <1>4, <2>7 DEF TypeOK, Register, Reads, Goes, Returns
      <3> QED
        BY <2>4, <2>5, <2>6, <3>4, <3>5, <3>2, <3>3 DEF TypeOK
    <2>8. CASE file # Torn
      <3>1. Responsive \in Entries
        BY <2>8 DEF TypeOK, Responsive, Entries
      <3>2. [Responsive EXCEPT ![port[p]] = p] \in Entries
        BY <3>1, <2>1 DEF Entries
      <3>3. entries' \in [Procs -> Entries]
        BY <1>4, <2>8, <3>1, <3>2 DEF TypeOK, Register, Reads
      <3>4. granted' = [granted EXCEPT ![p] = Responsive[port[p]] = None]
        BY <1>4, <2>8 DEF Register, Reads
      <3>5. granted' \in [Procs -> BOOLEAN]
        BY <3>4 DEF TypeOK
      <3>6. port' \in [Procs -> Ports \cup {None}]
        BY <1>4, <2>8 DEF TypeOK, Register, Reads
      <3>7. pc' \in [Procs -> {"idle", "failed"} \cup Trying]
        BY <1>4, <2>8 DEF TypeOK, Register, Reads, Goes
      <3>8. \A r \in alive' : pc'[r] \in {"register", "dump"} => port'[r] \in Ports
        BY <1>4, <2>1, <2>8 DEF TypeOK, Register, Reads, Goes
      <3> QED
        BY <2>4, <2>5, <2>6, <3>3, <3>6, <3>7, <3>8, <3>5 DEF TypeOK
    <2> QED
      BY <2>7, <2>8
  <1>5. ASSUME NEW p \in Procs, Dump(p)
        PROVE  TypeOK'
    <2>1. Empty \in Entries
      BY DEF Empty, Entries
    <2>2. owned' \in [Procs -> SUBSET Ports]
      BY <1>5 DEF TypeOK, Dump
    <2>3. tries' \in [Procs -> 0..MaxTries] /\ file' \in Entries \cup {Torn}
      BY <1>5 DEF TypeOK, Dump
    <2> QED
      BY <1>5, <2>1, <2>2, <2>3 DEF TypeOK, Dump, Goes, Returns
  <1>6. ASSUME NEW p \in Procs, Listen(p)
        PROVE  TypeOK'
    BY <1>6 DEF TypeOK, Listen, local, Entries
  <1>7. ASSUME NEW p \in Procs, StopServer(p)
        PROVE  TypeOK'
    BY <1>7 DEF TypeOK, StopServer, local, Entries
  <1>8. ASSUME NEW p \in Procs, Exit(p)
        PROVE  TypeOK'
    <2>1. listening' \in Entries
      BY <1>8 DEF TypeOK, Exit, Entries
    <2> QED
      BY <1>8, <2>1, DiesType DEF Exit, TypeOK
  <1>9. ASSUME NEW p \in Procs, Kill(p)
        PROVE  TypeOK'
    <2>1. file' \in Entries \cup {Torn} /\ spoiled' \in BOOLEAN
      BY <1>9 DEF TypeOK, Kill, Entries, Empty
    <2> QED
      BY <1>9, <2>1, DiesType DEF Kill, TypeOK
  <1>10. CASE UNCHANGED vars
    BY <1>10 DEF TypeOK, vars, local
  <1> QED
    BY <1>1, <1>2, <1>3, <1>4, <1>5, <1>6, <1>7, <1>8, <1>9, <1>10 DEF Next, Step

\* The type invariant of a process's locals, of the file and of the lock.
THEOREM TypeHolds == Spec => []TypeOK
  BY InitType, StepType, PTL DEF Spec

-------------------------------------------------------------------------------
LEMMA InitInv == Init => LockHeld /\ InMemory /\ RegistryKnowsOwners
  BY PortAssumption, TornAssumption
     DEF Init, LockHeld, InMemory, RegistryKnowsOwners, Knows, Entries, Empty

\* Only the holder of the lock rewrites the file, and it lets go as it dies.
LEMMA StepLock == TypeOK /\ LockHeld /\ [Next]_vars => LockHeld'
  <1> SUFFICES ASSUME TypeOK, LockHeld, [Next]_vars
               PROVE  LockHeld'
    OBVIOUS
  <1> USE PortAssumption DEF TypeOK, LockHeld, Trying
  <1>1. ASSUME NEW p \in Procs, Call(p)
        PROVE  LockHeld'
    BY <1>1 DEF Call, Goes
  <1>2. ASSUME NEW p \in Procs, Choose(p)
        PROVE  LockHeld'
    BY <1>2 DEF Choose, Goes
  <1>3. ASSUME NEW p \in Procs, FindsNone(p)
        PROVE  LockHeld'
    BY <1>3 DEF FindsNone, Goes
  <1>4. ASSUME NEW p \in Procs, Register(p)
        PROVE  LockHeld'
    BY <1>4 DEF Register, Reads, Goes
  <1>5. ASSUME NEW p \in Procs, Dump(p)
        PROVE  LockHeld'
    BY <1>5 DEF Dump, Goes
  <1>6. ASSUME NEW p \in Procs, Listen(p) \/ StopServer(p)
        PROVE  LockHeld'
    BY <1>6 DEF Listen, StopServer
  <1>7. ASSUME NEW p \in Procs, Exit(p)
        PROVE  LockHeld'
    BY <1>7 DEF Exit, Dies, Goes
  <1>8. ASSUME NEW p \in Procs, Kill(p)
        PROVE  LockHeld'
    BY <1>8 DEF Kill, Dies, Goes
  <1>9. CASE UNCHANGED vars
    BY <1>9 DEF vars, local
  <1> QED
    BY <1>1, <1>2, <1>3, <1>4, <1>5, <1>6, <1>7, <1>8, <1>9 DEF Next, Step

\* A process that dies takes nothing from what the others know.
LEMMA DiesKnows ==
    ASSUME TypeOK, LockHeld, InMemory, RegistryKnowsOwners, NEW p \in Procs, Dies(p),
           lock' = (IF lock = p THEN None ELSE lock),
           spoiled' \/ (pc[p] # "dump" /\ UNCHANGED <<spoiled, file>>)
    PROVE  InMemory' /\ RegistryKnowsOwners'
  <1> SUFFICES ASSUME ~spoiled', pc[p] # "dump", UNCHANGED <<spoiled, file>>
               PROVE  InMemory' /\ RegistryKnowsOwners'
    BY DEF InMemory, RegistryKnowsOwners
  <1>1. \A r \in alive' : r # p /\ r \in alive /\ owned'[r] = owned[r]
    BY DEF Dies, TypeOK
  <1>2. \A r \in Procs \ {p} : /\ pc'[r] = pc[r] /\ entries'[r] = entries[r]
                               /\ granted'[r] = granted[r] /\ port'[r] = port[r]
    BY DEF Dies, Goes, Returns, TypeOK
  <1>3. pc'[p] = "idle"
    BY DEF Dies, Goes, TypeOK
  <1>4. InMemory'
    BY <1>1, <1>2, <1>3 DEF InMemory, Knows
  <1>5. RegistryKnowsOwners'
    BY <1>1, PortAssumption DEF RegistryKnowsOwners, LockHeld
  <1> QED
    BY <1>4, <1>5

LEMMA StepKnows == IInv /\ [Next]_vars => InMemory' /\ RegistryKnowsOwners'
  <1> SUFFICES ASSUME IInv, [Next]_vars
               PROVE  InMemory' /\ RegistryKnowsOwners'
    OBVIOUS
  <1> USE PortAssumption DEF IInv, Trying
  <1>1. ASSUME NEW p \in Procs, Call(p) \/ Choose(p) \/ FindsNone(p)
        PROVE  InMemory' /\ RegistryKnowsOwners'
    <2>1. UNCHANGED <<alive, granted, entries, lock, file, owned, spoiled>>
      BY <1>1 DEF Call, Choose, FindsNone, local
    <2>2. \A r \in Procs : pc'[r] = "dump" => pc[r] = "dump" /\ port'[r] = port[r]
      BY <1>1 DEF Call, Choose, FindsNone, Goes, TypeOK, local
    <2> QED
      BY <2>1, <2>2 DEF InMemory, RegistryKnowsOwners, Knows
  <1>2. ASSUME NEW p \in Procs, Register(p)
        PROVE  InMemory' /\ RegistryKnowsOwners'
    <2>1. UNCHANGED <<alive, owned, spoiled>> /\ lock = None
      BY <1>2 DEF Register, Reads
    <2>2. \A r \in Procs : pc[r] # "dump"
      BY <2>1 DEF LockHeld
    <2>3. CASE file = Torn
      BY <1>2, <2>1, <2>2, <2>3
         DEF Register, Reads, Goes, InMemory, RegistryKnowsOwners, TypeOK
    <2>4. CASE file # Torn
      <3> SUFFICES ASSUME ~spoiled
                   PROVE  InMemory' /\ RegistryKnowsOwners'
        BY <2>1 DEF InMemory, RegistryKnowsOwners
      <3>1. port[p] \in Ports /\ UNCHANGED port /\ lock' = p
        BY <1>2, <2>4 DEF Register, Reads, TypeOK
      <3>2. Knows(Responsive)
        BY <2>1 DEF RegistryKnowsOwners, Knows, Responsive, TypeOK
      <3>3. granted'[p] => Responsive[port[p]] = None
        BY <1>2, <2>4 DEF Register, Reads, TypeOK
      <3>4. granted'[p] => \A r \in alive : port[p] \notin owned[r]
        BY <3>2, <3>3 DEF Knows, TypeOK
      <3>5. entries'[p] = IF granted'[p] THEN [Responsive EXCEPT ![port[p]] = p]
                                         ELSE Responsive
        BY <1>2, <2>4 DEF Register, Reads, TypeOK
      <3>6. \A q \in Ports \ {port[p]} : entries'[p][q] = Responsive[q]
        BY <3>5 DEF Responsive
      <3>7. granted'[p] => entries'[p][port[p]] = p
        BY <3>1, <3>5 DEF Responsive
      <3>8. \A r \in alive : \A q \in owned[r] : entries'[p][q] = r
        <4>1. CASE granted'[p]
          BY <4>1, <3>2, <3>4, <3>6 DEF Knows, TypeOK
        <4>2. CASE ~granted'[p]
          BY <4>2, <3>2, <3>5 DEF Knows
        <4> QED
          BY <4>1, <4>2
      <3>9. \A r \in Procs : pc'[r] = "dump" => r = p
        BY <1>2, <2>2, <2>4 DEF Register, Reads, Goes, TypeOK
      <3>10. InMemory'
        BY <2>1, <3>1, <3>4, <3>7, <3>8, <3>9 DEF InMemory, Knows
      <3> QED
        BY <3>1, <3>10 DEF RegistryKnowsOwners
    <2> QED
      BY <2>3, <2>4
  <1>3. ASSUME NEW p \in Procs, Dump(p)
        PROVE  InMemory' /\ RegistryKnowsOwners'
    <2>1. UNCHANGED <<alive, spoiled>> /\ pc[p] = "dump" /\ file' = entries[p]
      BY <1>3 DEF Dump
    <2>2. \A r \in Procs : pc'[r] # "dump"
      BY <1>3 DEF Dump, Goes, LockHeld, TypeOK
    <2>3. InMemory'
      BY <2>2 DEF InMemory
    <2> SUFFICES ASSUME ~spoiled
                 PROVE  RegistryKnowsOwners'
      BY <2>1, <2>3 DEF RegistryKnowsOwners
    <2>4. Knows(entries[p]) /\ (granted[p] => entries[p][port[p]] = p)
      BY <2>1 DEF InMemory
    <2>5. \A r \in alive : owned'[r] \subseteq
              owned[r] \cup (IF r = p /\ granted[p] THEN {port[p]} ELSE {})
      BY <1>3 DEF Dump, TypeOK
    <2>6. entries[p] # Torn
      BY TornAssumption DEF TypeOK
    <2> QED
      BY <2>1, <2>4, <2>5, <2>6 DEF RegistryKnowsOwners, Knows
  <1>4. ASSUME NEW p \in Procs, Listen(p) \/ StopServer(p)
        PROVE  InMemory' /\ RegistryKnowsOwners'
    BY <1>4 DEF Listen, StopServer, local, InMemory, RegistryKnowsOwners, Knows
  <1>5. ASSUME NEW p \in Procs, Exit(p)
        PROVE  InMemory' /\ RegistryKnowsOwners'
    <2>1. pc[p] # "dump" /\ lock # p /\ Dies(p) /\ UNCHANGED <<lock, file, spoiled>>
      BY <1>5 DEF Exit, LockHeld
    <2> QED
      BY <2>1, DiesKnows
  <1>6. ASSUME NEW p \in Procs, Kill(p)
        PROVE  InMemory' /\ RegistryKnowsOwners'
    BY <1>6, DiesKnows DEF Kill
  <1>7. CASE UNCHANGED vars
    BY <1>7 DEF vars, local, InMemory, RegistryKnowsOwners, Knows
  <1> QED
    BY <1>1, <1>2, <1>3, <1>4, <1>5, <1>6, <1>7 DEF Next, Step

LEMMA Invariant == Spec => []IInv
  <1>1. Init => IInv
    BY InitType, InitInv DEF IInv
  <1>2. IInv /\ [Next]_vars => IInv'
    BY StepType, StepLock, StepKnows DEF IInv
  <1> QED
    BY <1>1, <1>2, PTL DEF Spec

-------------------------------------------------------------------------------
\* The file, whenever it is not being rewritten, knows the ports of all
\* processes that live, unless one was killed while it rewrote it.
THEOREM RegistryKnows == Spec => []RegistryKnowsOwners
  BY Invariant, PTL DEF IInv

\* No port is given to two living processes: what each was given is in the
\* file, or in the memory of the process that is rewriting it.
THEOREM PortsAreExclusive == Spec => []PortsExclusive
  <1>1. IInv => PortsExclusive
    <2> SUFFICES ASSUME IInv, ~spoiled
                 PROVE  \A p, r \in alive : p # r => owned[p] \cap owned[r] = {}
      BY DEF PortsExclusive
    <2>1. CASE lock = None
      BY <2>1 DEF IInv, RegistryKnowsOwners
    <2>2. CASE lock # None
      <3>1. lock \in Procs /\ pc[lock] = "dump"
        BY <2>2 DEF IInv, TypeOK, LockHeld
      <3>2. Knows(entries[lock])
        BY <3>1 DEF IInv, InMemory
      <3> QED
        BY <3>2 DEF Knows
    <2> QED
      BY <2>1, <2>2
  <1> QED
    BY <1>1, Invariant, PTL
===============================================================================
