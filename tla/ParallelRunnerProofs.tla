------------------------ MODULE ParallelRunnerProofs ------------------------
(***************************************************************************)
(* Theorems about ParallelRunner, for every number of tests and workers,   *)
(* every pipe capacity and every bound on timeouts, crashes and kills.     *)
(***************************************************************************)
EXTENDS ParallelRunner, SequenceTheorems, FiniteSetTheorems, TLAPS

(***************************************************************************)
(* Typing of the operators the actions are built from.                     *)
(***************************************************************************)

\* Entering a reason under a name yields a dictionary.
LEMMA AddedType ==
    ASSUME NEW f \in Dict, NEW name, NEW why \in SUBSET Reasons
    PROVE  Added(f, name, why) \in Dict
BY DEF Added, Dict

\* dict.update yields a dictionary.
LEMMA UpdatedType ==
    ASSUME NEW f \in Dict, NEW g \in Dict
    PROVE  Updated(f, g) \in Dict
BY DEF Updated, Dict

\* Shipping well-typed messages leaves heap, buffers and history well-typed.
LEMMA ShipType ==
    ASSUME TypeOK, NEW w \in Workers, NEW f \in Dict,
           NEW ms \in Seq(Messages), ms[1] \in Messages, Ship(w, f, ms)
    PROVE  /\ heap' \in [Ids -> Dict]
           /\ buffer' \in [Workers -> Seq(Messages)]
           /\ recorded' \in [Ids -> Dict]
<1>1. buffer[w] \o ms \in Seq(Messages)
  BY ConcatProperties DEF TypeOK
<1>2. buffer' \in [Workers -> Seq(Messages)]
  BY <1>1 DEF TypeOK, Ship
<1>3. heap' \in [Ids -> Dict]
  BY DEF TypeOK, Ship
<1>4. recorded' \in [Ids -> Dict]
  BY DEF TypeOK, Ship, Messages
<1> QED BY <1>2, <1>3, <1>4

-----------------------------------------------------------------------------
\* A living process that holds the write lock has a message to write.
LockHeld ==
    \A w \in Workers : wlock = w => pc[w] = "dead" \/ buffer[w] # <<>>

\* TypeOK: in every reachable state every variable has its type.
LEMMA TypeInit == Init => TypeOK
<1> SUFFICES ASSUME Init PROVE TypeOK OBVIOUS
<1>1. NoFailures \in Dict
  BY DEF NoFailures, Dict
<1> QED BY <1>1, ParallelAssumption, EmptySeq
      DEF Init, TypeOK, Ids

LEMMA TypeNext == TypeOK /\ LockHeld /\ [Next]_vars => TypeOK'
<1> SUFFICES ASSUME TypeOK, LockHeld, [Next]_vars PROVE TypeOK' OBVIOUS
<1> USE DEF workerVars, queueVars, coordVars, counters
<1>0. NoFailures \in Dict
  BY DEF NoFailures, Dict
<1>1. ASSUME NEW w \in Workers, GetJob(w) PROVE TypeOK'
  BY <1>0, <1>1 DEF GetJob, Rebind, TypeOK, Ids
<1>2. ASSUME NEW w \in Workers, NoJob(w) PROVE TypeOK'
  BY <1>0, <1>2 DEF NoJob, TypeOK, Ids
<1>3. ASSUME NEW w \in Workers, FinishTest(w) PROVE TypeOK'
  <2>1. PICK failed \in BOOLEAN, created \in BOOLEAN, down \in BOOLEAN,
             dirty \in BOOLEAN :
          LET e == IF created THEN cur[w] ELSE env[w]
              f == Added(heap[dict[w]], cur[w],
                         IF failed THEN {"failure"} ELSE {})
          IN  /\ Ship(w, IF dirty THEN Added(f, e, {"dirty"}) ELSE f,
                      <<Message(cur[w], dict[w])>>)
              /\ env' = [env EXCEPT ![w] = IF down THEN None ELSE e]
    BY <1>3 DEF FinishTest
  <2> DEFINE e == IF created THEN cur[w] ELSE env[w]
             f == Added(heap[dict[w]], cur[w],
                        IF failed THEN {"failure"} ELSE {})
             g == IF dirty THEN Added(f, e, {"dirty"}) ELSE f
  <2>2. heap[dict[w]] \in Dict
    BY DEF TypeOK
  <2>3. f \in Dict
    BY <2>2, AddedType DEF Reasons
  <2>4. g \in Dict
    <3> HIDE DEF f
    <3> QED BY <2>3, AddedType DEF Reasons
  <2>5. /\ <<Message(cur[w], dict[w])>> \in Seq(Messages)
        /\ <<Message(cur[w], dict[w])>>[1] \in Messages
    BY <1>3 DEF FinishTest, TypeOK, Messages, Message, Ids
  <2>6. Ship(w, g, <<Message(cur[w], dict[w])>>)
    BY <2>1
  <2>7. /\ heap' \in [Ids -> Dict]
        /\ buffer' \in [Workers -> Seq(Messages)]
        /\ recorded' \in [Ids -> Dict]
    <3> HIDE DEF g
    <3> QED BY <2>4, <2>5, <2>6, ShipType
  <2>8. env' \in [Workers -> Tests \cup {None}]
    BY <2>1 DEF TypeOK
  <2> HIDE DEF e, f, g
  <2>9. /\ UNCHANGED <<args, jobs, cur, dict, wlock, pipe>>
        /\ UNCHANGED <<coordVars, counters>>
        /\ pc' = [pc EXCEPT ![w] = "get"]
    BY <1>3 DEF FinishTest
  <2> QED BY <2>7, <2>8, <2>9 DEF TypeOK
<1>4. ASSUME NEW w \in Workers, CrashTest(w) PROVE TypeOK'
  BY <1>4 DEF CrashTest, TypeOK
<1>5. ASSUME NEW w \in Workers, Timeout(w) PROVE TypeOK'
  <2> DEFINE ms == <<Message(cur[w], dict[w]), Message(w, w)>>
  <2>1. PICK why \in {{"timeout"}, {"failure", "timeout"}} :
          Ship(w, Added(heap[dict[w]], cur[w], why), ms)
    BY <1>5 DEF Timeout
  <2>2. Added(heap[dict[w]], cur[w], why) \in Dict
    BY AddedType DEF Reasons, TypeOK
  <2>3. ms \in Seq(Messages) /\ ms[1] \in Messages
    BY <1>5 DEF Timeout, TypeOK, Messages, Message, Ids
  <2>4. /\ heap' \in [Ids -> Dict]
        /\ buffer' \in [Workers -> Seq(Messages)]
        /\ recorded' \in [Ids -> Dict]
    <3> HIDE DEF ms
    <3> QED BY <2>1, <2>2, <2>3, ShipType
  <2>5. /\ UNCHANGED <<args, jobs, cur, env, dict, wlock, pipe>>
        /\ UNCHANGED <<coordVars, crashes, kills>>
        /\ timeouts' = timeouts + 1
        /\ pc' = [pc EXCEPT ![w] = "exiting"]
    BY <1>5 DEF Timeout
  <2> QED BY <2>4, <2>5 DEF TypeOK
<1>6. ASSUME NEW w \in Workers, Shutdown(w) PROVE TypeOK'
  <2> DEFINE ms == <<Message(w, dict[w])>>
  <2>1. PICK dirty \in BOOLEAN :
          Ship(w, IF dirty THEN Added(heap[dict[w]], env[w], {"dirty"})
                           ELSE heap[dict[w]], ms)
    BY <1>6 DEF Shutdown
  <2>2. /\ heap[dict[w]] \in Dict
        /\ Added(heap[dict[w]], env[w], {"dirty"}) \in Dict
    BY AddedType DEF Reasons, TypeOK
  <2>3. ms \in Seq(Messages) /\ ms[1] \in Messages
    BY DEF TypeOK, Messages, Message, Ids
  <2>4. /\ heap' \in [Ids -> Dict]
        /\ buffer' \in [Workers -> Seq(Messages)]
        /\ recorded' \in [Ids -> Dict]
    <3> HIDE DEF ms
    <3> QED BY <2>1, <2>2, <2>3, ShipType
  <2> QED BY <1>6, <2>4 DEF Shutdown, TypeOK
<1>7. ASSUME NEW w \in Workers, ShutdownRaises(w) PROVE TypeOK'
  BY <1>7 DEF ShutdownRaises, TypeOK
<1>8. ASSUME NEW w \in Workers, ExitProcess(w) PROVE TypeOK'
  BY <1>8 DEF ExitProcess, TypeOK
<1>9. ASSUME NEW w \in Workers, LockPipe(w) PROVE TypeOK'
  BY <1>9 DEF LockPipe, TypeOK
<1>10. ASSUME NEW w \in Workers, WritePipe(w) PROVE TypeOK'
  <2>1. buffer[w] # <<>> /\ buffer[w] \in Seq(Messages)
    BY <1>10 DEF WritePipe, LockHeld, TypeOK
  <2>2. Head(buffer[w]) \in Messages /\ Tail(buffer[w]) \in Seq(Messages)
    BY <2>1, HeadTailProperties
  <2>3. Packet(Head(buffer[w])) \in Packets
    BY <2>2 DEF Packet, Packets, Messages, TypeOK
  <2>4. Append(pipe, Packet(Head(buffer[w]))) \in Seq(Packets)
    BY <2>3, AppendProperties DEF TypeOK
  <2> QED BY <1>10, <2>2, <2>4 DEF WritePipe, TypeOK
<1>11. ASSUME NEW w \in Workers, Kill(w) PROVE TypeOK'
  BY <1>11, EmptySeq DEF Kill, TypeOK
<1>12. ASSUME Receive PROVE TypeOK'
  <2>1. Head(pipe) \in Packets /\ Tail(pipe) \in Seq(Packets)
    BY <1>12, HeadTailProperties DEF Receive, TypeOK
  <2>2. Updated(testsFailed, Head(pipe).failures) \in Dict
    BY <2>1, UpdatedType DEF TypeOK, Packets
  <2>3. reported' \subseteq Ids
    BY <1>12, <2>1 DEF Receive, TypeOK, Packets
  <2> QED BY <1>12, <2>1, <2>2, <2>3 DEF Receive, TypeOK
<1>13. ASSUME GetExpires PROVE TypeOK'
  BY <1>13 DEF GetExpires, TypeOK
<1>14. ASSUME CheckAlive PROVE TypeOK'
  BY <1>14 DEF CheckAlive, TypeOK
<1>15. ASSUME JoinAll PROVE TypeOK'
  BY <1>15 DEF JoinAll, TypeOK
<1>16. ASSUME UNCHANGED vars PROVE TypeOK'
  BY <1>16 DEF vars, TypeOK
<1> QED
  BY <1>1, <1>2, <1>3, <1>4, <1>5, <1>6, <1>7, <1>8, <1>9, <1>10, <1>11,
     <1>12, <1>13, <1>14, <1>15, <1>16
  DEF Next, Work, Feed, Coordinate, Terminated

LEMMA PutTwo ==
    ASSUME NEW S, NEW s \in Seq(S), NEW m \in S, NEW n \in S
    PROVE  s \o <<m, n>> = Append(Append(s, m), n)
OBVIOUS

\* What each action that ships puts at the end of its worker's buffer.
LEMMA FinishPuts ==
    ASSUME TypeOK, NEW w \in Workers, FinishTest(w)
    PROVE  \E m \in Messages :
              /\ m.id = cur[w]
              /\ buffer' = [buffer EXCEPT ![w] = Append(buffer[w], m)]
<1> DEFINE m == Message(cur[w], dict[w])
<1>1. m \in Messages /\ m.id = cur[w]
  BY DEF FinishTest, TypeOK, Message, Messages, Ids
<1>2. buffer' = [buffer EXCEPT ![w] = buffer[w] \o <<m>>]
  BY DEF FinishTest, Ship, TypeOK
<1>3. buffer[w] \o <<m>> = Append(buffer[w], m)
  BY <1>1, AppendIsConcat DEF TypeOK
<1> HIDE DEF m
<1> QED BY <1>1, <1>2, <1>3

LEMMA TimeoutPuts ==
    ASSUME TypeOK, NEW w \in Workers, Timeout(w)
    PROVE  \E m, n \in Messages :
              /\ m.id = cur[w]
              /\ n.id = w
              /\ buffer' = [buffer EXCEPT ![w] =
                              Append(Append(buffer[w], m), n)]
<1> DEFINE m == Message(cur[w], dict[w])
           n == Message(w, w)
<1>1. m \in Messages /\ m.id = cur[w] /\ n \in Messages /\ n.id = w
  BY DEF Timeout, TypeOK, Message, Messages, Ids
<1>2. buffer' = [buffer EXCEPT ![w] = buffer[w] \o <<m, n>>]
  BY DEF Timeout, Ship, TypeOK
<1> HIDE DEF m, n
<1>3. buffer[w] \o <<m, n>> = Append(Append(buffer[w], m), n)
  BY <1>1 DEF TypeOK
<1> QED BY <1>1, <1>2, <1>3

LEMMA ShutdownPuts ==
    ASSUME TypeOK, NEW w \in Workers, Shutdown(w)
    PROVE  \E m \in Messages :
              /\ m.id = w
              /\ buffer' = [buffer EXCEPT ![w] = Append(buffer[w], m)]
<1> DEFINE m == Message(w, dict[w])
<1>1. m \in Messages /\ m.id = w
  BY DEF TypeOK, Message, Messages, Ids
<1>2. buffer' = [buffer EXCEPT ![w] = buffer[w] \o <<m>>]
  BY DEF Shutdown, Ship, TypeOK
<1>3. buffer[w] \o <<m>> = Append(buffer[w], m)
  BY <1>1, AppendIsConcat DEF TypeOK
<1> HIDE DEF m
<1> QED BY <1>1, <1>2, <1>3

LEMMA LockInit == Init => LockHeld
BY ParallelAssumption DEF Init, LockHeld

LEMMA LockNext == TypeOK /\ LockHeld /\ [Next]_vars => LockHeld'
<1> SUFFICES ASSUME TypeOK, LockHeld, [Next]_vars PROVE LockHeld' OBVIOUS
<1> USE DEF workerVars, queueVars, coordVars, counters
<1> DEFINE Calm == /\ wlock' = wlock /\ buffer' = buffer
                   /\ \A w \in Workers : pc[w] = "dead" => pc'[w] = "dead"
<1>1. ASSUME Calm PROVE LockHeld'
  BY <1>1 DEF LockHeld
<1>2. ASSUME NEW w \in Workers,
             GetJob(w) \/ NoJob(w) \/ CrashTest(w) \/ ShutdownRaises(w)
               \/ ExitProcess(w)
      PROVE  Calm
  BY <1>2 DEF GetJob, NoJob, CrashTest, ShutdownRaises, ExitProcess, TypeOK
<1>3. ASSUME NEW w \in Workers,
             FinishTest(w) \/ Timeout(w) \/ Shutdown(w)
      PROVE  LockHeld'
  <2>1. /\ wlock' = wlock
        /\ pc[w] # "dead"
        /\ \A v \in Workers : v # w => pc'[v] = pc[v]
    BY <1>3 DEF FinishTest, Timeout, Shutdown, TypeOK
  <2>2. \/ \E m \in Messages :
              buffer' = [buffer EXCEPT ![w] = Append(buffer[w], m)]
        \/ \E m, n \in Messages :
              buffer' = [buffer EXCEPT ![w] = Append(Append(buffer[w], m), n)]
    BY <1>3, FinishPuts, TimeoutPuts, ShutdownPuts
  <2> HIDE DEF Calm
  <2>3. buffer'[w] # <<>> /\ \A v \in Workers : v # w => buffer'[v] = buffer[v]
    BY <2>2, AppendProperties DEF TypeOK
  <2> QED BY <2>1, <2>3 DEF LockHeld
<1>4. ASSUME NEW w \in Workers, LockPipe(w) PROVE LockHeld'
  BY <1>4 DEF LockPipe, LockHeld
<1>5. ASSUME NEW w \in Workers, WritePipe(w) PROVE LockHeld'
  BY <1>5, ParallelAssumption DEF WritePipe, LockHeld
<1>6. ASSUME NEW w \in Workers, Kill(w) PROVE LockHeld'
  BY <1>6 DEF Kill, LockHeld, TypeOK
<1>7. ASSUME Coordinate \/ UNCHANGED vars PROVE Calm
  BY <1>7 DEF Coordinate, Receive, GetExpires, CheckAlive, JoinAll, vars
<1> QED
  BY <1>1, <1>2, <1>3, <1>4, <1>5, <1>6, <1>7
  DEF Next, Work, Feed, Terminated

\* Every reachable state is well typed, and the write lock of the results
\* queue is only ever held by a process that has a message to write or died
\* while it held it.
THEOREM TypeCorrect == Spec => [](TypeOK /\ LockHeld)
<1>1. Init => TypeOK /\ LockHeld
  BY TypeInit, LockInit
<1>2. TypeOK /\ LockHeld /\ [Next]_vars => TypeOK' /\ LockHeld'
  BY TypeNext, LockNext
<1> QED BY <1>1, <1>2, PTL DEF Spec

-----------------------------------------------------------------------------
(***************************************************************************)
(* Every message is in one place: the inductive invariant behind the count *)
(* of the coordinator.                                                     *)
(***************************************************************************)
\* No two messages of a queue bear the same name.
Distinct(seq) ==
    \A i, j \in DOMAIN seq : seq[i].id = seq[j].id => i = j

\* With buffers b, pipe p and read names r, each name is in one place.
Places(b, p, r) ==
    /\ Distinct(p)
    /\ \A w \in Workers : Distinct(b[w])
    /\ \A v, w \in Workers :
          v # w => Ranged(b[v]) \cap Ranged(b[w]) = {}
    /\ \A w \in Workers : Ranged(b[w]) \cap Ranged(p) = {}
    /\ \A w \in Workers : Ranged(b[w]) \cap r = {}
    /\ Ranged(p) \cap r = {}

Located(b, p, r, i) ==
    (\E w \in Workers : i \in Ranged(b[w])) \/ i \in Ranged(p) \/ i \in r

OnePlace == Places(buffer, pipe, reported)

\* What is still to be put has not been put before.
NotYetPut ==
    /\ \A t \in jobs : ~Shipped(t)
    /\ \A w \in Workers :
          pc[w] = "run" => cur[w] \notin jobs /\ ~Shipped(cur[w])
    /\ \A v, w \in Workers :
          v # w /\ pc[v] = "run" /\ pc[w] = "run" => cur[v] # cur[w]
    /\ \A w \in Workers : ~Finished(w) => ~Shipped(w)

\* The coordinator leaves its loop when its index reaches the total.
LoopCount ==
    /\ received = Cardinality(reported)
    /\ IF coord \in {"join", "done"} THEN received = Total
                                     ELSE received < Total

Inv == TypeOK /\ LockHeld /\ OnePlace /\ NotYetPut /\ LoopCount

\* Appending adds one name, and keeps names distinct if it is a new one.
LEMMA AppendPlaces ==
    ASSUME NEW S, NEW s \in Seq(S), NEW m \in S
    PROVE  /\ Ranged(Append(s, m)) = Ranged(s) \cup {m.id}
           /\ Distinct(s) /\ m.id \notin Ranged(s) => Distinct(Append(s, m))
<1> DEFINE a == Append(s, m)
<1>1. /\ Len(a) = Len(s) + 1
      /\ DOMAIN a = 1..Len(a) /\ DOMAIN s = 1..Len(s) /\ Len(s) \in Nat
      /\ \A i \in 1..Len(s) : a[i] = s[i]
      /\ a[Len(s) + 1] = m
  BY AppendProperties, LenProperties
<1> HIDE DEF a
<1>2. Ranged(a) = Ranged(s) \cup {m.id}
  BY <1>1 DEF Ranged
<1>3. Distinct(s) /\ m.id \notin Ranged(s) => Distinct(a)
  BY <1>1 DEF Ranged, Distinct
<1> QED BY <1>2, <1>3 DEF a

\* Taking the head removes one name for good.
LEMMA TailPlaces ==
    ASSUME NEW S, NEW s \in Seq(S), s # <<>>
    PROVE  /\ Ranged(s) = Ranged(Tail(s)) \cup {Head(s).id}
           /\ Distinct(s) => /\ Distinct(Tail(s))
                             /\ Head(s).id \notin Ranged(Tail(s))
<1> DEFINE t == Tail(s)
<1>1. /\ Len(s) \in Nat /\ Len(s) > 0 /\ DOMAIN s = 1..Len(s)
      /\ Len(t) = Len(s) - 1 /\ DOMAIN t = 1..Len(t)
      /\ \A i \in 1..Len(t) : t[i] = s[i + 1]
      /\ Head(s) = s[1]
  BY HeadTailProperties, LenProperties, EmptySeq
<1> HIDE DEF t
<1>2. Ranged(s) = Ranged(t) \cup {s[1].id}
  <2>1. ASSUME NEW i \in DOMAIN s
        PROVE  s[i].id \in Ranged(t) \cup {s[1].id}
    <3>1. i # 1 => i - 1 \in DOMAIN t /\ t[i - 1] = s[i]
      BY <1>1
    <3> QED BY <3>1 DEF Ranged
  <2>2. ASSUME NEW i \in DOMAIN t PROVE t[i].id \in Ranged(s)
    BY <1>1 DEF Ranged
  <2>3. s[1].id \in Ranged(s)
    BY <1>1 DEF Ranged
  <2> QED BY <2>1, <2>2, <2>3 DEF Ranged
<1>3. ASSUME Distinct(s) PROVE Distinct(t)
  <2> SUFFICES ASSUME NEW i \in DOMAIN t, NEW j \in DOMAIN t,
                      t[i].id = t[j].id
               PROVE  i = j
    BY DEF Distinct
  <2>1. i + 1 \in DOMAIN s /\ j + 1 \in DOMAIN s /\ i \in Int /\ j \in Int
    BY <1>1
  <2>2. s[i + 1].id = s[j + 1].id
    BY <1>1
  <2>3. i + 1 = j + 1
    BY <1>3, <2>1, <2>2 DEF Distinct
  <2> QED BY <2>1, <2>3
<1>4. ASSUME Distinct(s) PROVE s[1].id \notin Ranged(t)
  <2> SUFFICES ASSUME NEW i \in DOMAIN t PROVE t[i].id # s[1].id
    BY DEF Ranged
  <2>1. i + 1 \in DOMAIN s /\ 1 \in DOMAIN s /\ i + 1 # 1
    BY <1>1
  <2>2. s[i + 1].id # s[1].id
    BY <1>4, <2>1 DEF Distinct
  <2> QED BY <1>1, <2>2
<1> QED BY <1>1, <1>2, <1>3, <1>4 DEF t

\* The names in a sequence are names of its element set.
LEMMA NamesOfSeq ==
    ASSUME NEW S, NEW s \in Seq(S), NEW I, \A m \in S : m.id \in I
    PROVE  Ranged(s) \subseteq I
<1>1. \A i \in DOMAIN s : s[i] \in S
  BY LenProperties, ElementOfSeq
<1> QED BY <1>1 DEF Ranged

\* A put of a new name.
LEMMA PutPlaces ==
    ASSUME NEW b \in [Workers -> Seq(Messages)], NEW p \in Seq(Packets), NEW r,
           Places(b, p, r), NEW w \in Workers, NEW m \in Messages,
           ~Located(b, p, r, m.id)
    PROVE  LET c == [b EXCEPT ![w] = Append(b[w], m)]
           IN  /\ c \in [Workers -> Seq(Messages)]
               /\ Places(c, p, r)
               /\ \A i : Located(c, p, r, i) <=> Located(b, p, r, i) \/ i = m.id
<1> DEFINE c == [b EXCEPT ![w] = Append(b[w], m)]
<1>1. Append(b[w], m) \in Seq(Messages)
  BY AppendProperties
<1>2. /\ c \in [Workers -> Seq(Messages)]
      /\ \A v \in Workers : v # w => c[v] = b[v]
      /\ c[w] = Append(b[w], m)
  BY <1>1
<1> HIDE DEF c
<1>3. /\ Ranged(c[w]) = Ranged(b[w]) \cup {m.id}
      /\ Distinct(b[w]) /\ m.id \notin Ranged(b[w]) => Distinct(c[w])
  BY <1>2, AppendPlaces
<1>4. m.id \notin Ranged(p) /\ m.id \notin r
      /\ \A v \in Workers : m.id \notin Ranged(b[v])
  BY DEF Located
<1>5. Places(c, p, r)
  <2>1. \A v \in Workers : Distinct(c[v])
    BY <1>2, <1>3, <1>4 DEF Places
  <2>2. \A v \in Workers : Ranged(c[v]) \subseteq Ranged(b[v]) \cup {m.id}
    BY <1>2, <1>3
  <2>3. \A u, v \in Workers : u # v => Ranged(c[u]) \cap Ranged(c[v]) = {}
    <3> SUFFICES ASSUME NEW u \in Workers, NEW v \in Workers, u # v
                 PROVE  Ranged(c[u]) \cap Ranged(c[v]) = {}
      OBVIOUS
    <3>1. Ranged(b[u]) \cap Ranged(b[v]) = {}
      BY DEF Places
    <3>2. u = w => Ranged(c[v]) = Ranged(b[v]) /\ m.id \notin Ranged(b[v])
      BY <1>2, <1>4
    <3>3. u # w => Ranged(c[u]) = Ranged(b[u]) /\ m.id \notin Ranged(b[u])
      BY <1>2, <1>4
    <3>4. v # w => Ranged(c[v]) = Ranged(b[v])
      BY <1>2
    <3> HIDE DEF Ranged
    <3> QED BY <1>3, <3>1, <3>2, <3>3, <3>4
  <2>4. \A v \in Workers : /\ Ranged(c[v]) \cap Ranged(p) = {}
                           /\ Ranged(c[v]) \cap r = {}
    BY <1>4, <2>2 DEF Places
  <2> QED BY <2>1, <2>3, <2>4 DEF Places
<1>6. \A i : Located(c, p, r, i) <=> Located(b, p, r, i) \/ i = m.id
  BY <1>2, <1>3 DEF Located
<1> QED BY <1>2, <1>5, <1>6 DEF c

\* The oldest message of a buffer moves to the end of the pipe.
LEMMA WritePlaces ==
    ASSUME NEW b \in [Workers -> Seq(Messages)], NEW p \in Seq(Packets), NEW r,
           Places(b, p, r), NEW w \in Workers, b[w] # <<>>,
           NEW k \in Packets, k.id = Head(b[w]).id
    PROVE  LET c == [b EXCEPT ![w] = Tail(b[w])]
               q == Append(p, k)
           IN  /\ Places(c, q, r)
               /\ \A i : Located(c, q, r, i) <=> Located(b, p, r, i)
<1> DEFINE c == [b EXCEPT ![w] = Tail(b[w])]
           q == Append(p, k)
<1>1. /\ \A v \in Workers : v # w => c[v] = b[v]
      /\ c[w] = Tail(b[w])
  OBVIOUS
<1>2. /\ Ranged(b[w]) = Ranged(c[w]) \cup {k.id}
      /\ Distinct(b[w]) => Distinct(c[w]) /\ k.id \notin Ranged(c[w])
  BY <1>1, TailPlaces
<1>3. /\ Ranged(q) = Ranged(p) \cup {k.id}
      /\ Distinct(p) /\ k.id \notin Ranged(p) => Distinct(q)
  BY AppendPlaces
<1> HIDE DEF c, q
<1>4. /\ k.id \in Ranged(b[w]) /\ k.id \notin Ranged(p) /\ k.id \notin r
      /\ \A v \in Workers : v # w => k.id \notin Ranged(b[v])
  BY <1>2 DEF Places
<1>5. Places(c, q, r)
  <2>1. \A v \in Workers : Distinct(c[v])
    BY <1>1, <1>2 DEF Places
  <2>2. \A v \in Workers : /\ Ranged(c[v]) \subseteq Ranged(b[v])
                           /\ k.id \notin Ranged(c[v])
    BY <1>1, <1>2, <1>4 DEF Places
  <2>3. \A u, v \in Workers : u # v => Ranged(b[u]) \cap Ranged(b[v]) = {}
    BY DEF Places
  <2>4. \A u, v \in Workers : u # v => Ranged(c[u]) \cap Ranged(c[v]) = {}
    <3> HIDE DEF Ranged
    <3> QED BY <2>2, <2>3
  <2>5. \A v \in Workers : /\ Ranged(b[v]) \cap Ranged(p) = {}
                           /\ Ranged(b[v]) \cap r = {}
    BY DEF Places
  <2>6. \A v \in Workers : /\ Ranged(c[v]) \cap Ranged(q) = {}
                           /\ Ranged(c[v]) \cap r = {}
    <3> HIDE DEF Ranged
    <3> QED BY <1>3, <2>2, <2>5
  <2>7. Distinct(q) /\ Ranged(q) \cap r = {}
    BY <1>3, <1>4 DEF Places
  <2> QED BY <2>1, <2>4, <2>6, <2>7 DEF Places
<1>6. \A i : Located(c, q, r, i) <=> Located(b, p, r, i)
  BY <1>1, <1>2, <1>3 DEF Located
<1> QED BY <1>5, <1>6 DEF c, q

\* The oldest message of the pipe is read.
LEMMA ReadPlaces ==
    ASSUME NEW b \in [Workers -> Seq(Messages)], NEW p \in Seq(Packets), NEW r,
           Places(b, p, r), p # <<>>
    PROVE  LET q == Tail(p)
               h == Head(p).id
           IN  /\ h \notin r
               /\ Places(b, q, r \cup {h})
               /\ \A i : Located(b, q, r \cup {h}, i) <=> Located(b, p, r, i)
<1> DEFINE q == Tail(p)
           h == Head(p).id
<1>1. /\ Ranged(p) = Ranged(q) \cup {h}
      /\ Distinct(p) => Distinct(q) /\ h \notin Ranged(q)
  BY TailPlaces
<1> HIDE DEF q, h
<1>2. h \notin r
  BY <1>1 DEF Places
<1>3. Places(b, q, r \cup {h})
  BY <1>1 DEF Places
<1>4. \A i : Located(b, q, r \cup {h}, i) <=> Located(b, p, r, i)
  BY <1>1 DEF Located
<1> QED BY <1>2, <1>3, <1>4 DEF q, h

\* A buffer is lost.
LEMMA DropPlaces ==
    ASSUME NEW b \in [Workers -> Seq(Messages)], NEW p, NEW r,
           Places(b, p, r), NEW w \in Workers
    PROVE  LET c == [b EXCEPT ![w] = <<>>]
           IN  /\ Places(c, p, r)
               /\ \A i : Located(c, p, r, i) => Located(b, p, r, i)
<1> DEFINE c == [b EXCEPT ![w] = <<>>]
<1>1. /\ \A v \in Workers : v # w => c[v] = b[v]
      /\ c[w] = <<>>
  OBVIOUS
<1>2. Ranged(<<>>) = {} /\ Distinct(<<>>)
  BY DEF Ranged, Distinct
<1> HIDE DEF c
<1>3. Places(c, p, r)
  BY <1>1, <1>2 DEF Places
<1>4. \A i : Located(c, p, r, i) => Located(b, p, r, i)
  BY <1>1, <1>2 DEF Located
<1> QED BY <1>3, <1>4 DEF c

-----------------------------------------------------------------------------
LEMMA ShippedIsLocated ==
    /\ \A i : Shipped(i) <=> Located(buffer, pipe, reported, i)
    /\ \A i : Shipped(i)' <=> Located(buffer', pipe', reported', i)
    /\ OnePlace' <=> Places(buffer', pipe', reported')
BY DEF Shipped, Located, OnePlace, Places

LEMMA PlacesNext ==
    TypeOK /\ LockHeld /\ OnePlace /\ NotYetPut /\ [Next]_vars
        => OnePlace' /\ NotYetPut'
<1> SUFFICES ASSUME TypeOK, LockHeld, OnePlace, NotYetPut, [Next]_vars
             PROVE  OnePlace' /\ NotYetPut'
  OBVIOUS
<1> USE DEF workerVars, queueVars, coordVars, counters
<1> DEFINE Still == UNCHANGED <<buffer, pipe, reported>>
<1>1. ASSUME Still
      PROVE  OnePlace' /\ \A i : Shipped(i)' <=> Shipped(i)
  BY <1>1 DEF OnePlace, Places, Shipped
<1>2. /\ buffer \in [Workers -> Seq(Messages)] /\ pipe \in Seq(Packets)
      /\ Places(buffer, pipe, reported)
  BY DEF TypeOK, OnePlace
<1>3. \A w \in Workers : w \notin Tests
  BY ParallelAssumption
<1>4. ASSUME NEW w \in Workers, GetJob(w) PROVE OnePlace' /\ NotYetPut'
  <2>1. Still
    BY <1>4 DEF GetJob
  <2>2. PICK t \in jobs : jobs' = jobs \ {t} /\ cur' = [cur EXCEPT ![w] = t]
    BY <1>4 DEF GetJob
  <2>3. pc' = [pc EXCEPT ![w] = "run"] /\ pc[w] = "get"
    BY <1>4 DEF GetJob
  <2> QED BY <1>1, <2>1, <2>2, <2>3 DEF NotYetPut, Finished, TypeOK
<1>5. ASSUME NEW w \in Workers,
             NoJob(w) \/ CrashTest(w) \/ ShutdownRaises(w) \/ ExitProcess(w)
               \/ LockPipe(w)
      PROVE  OnePlace' /\ NotYetPut'
  <2>1. Still /\ jobs' = jobs /\ cur' = cur
    BY <1>5 DEF NoJob, CrashTest, ShutdownRaises, ExitProcess, LockPipe
  <2>2. \A v \in Workers : /\ pc'[v] = "run" => pc[v] = "run"
                           /\ Finished(v) => Finished(v)'
    BY <1>5 DEF NoJob, CrashTest, ShutdownRaises, ExitProcess, LockPipe,
                Finished, TypeOK
  <2> QED BY <1>1, <2>1, <2>2 DEF NotYetPut
<1>6. ASSUME NEW w \in Workers, FinishTest(w) PROVE OnePlace' /\ NotYetPut'
  <2>1. /\ UNCHANGED <<jobs, cur, pipe, reported>>
        /\ pc[w] = "run" /\ pc' = [pc EXCEPT ![w] = "get"]
    BY <1>6 DEF FinishTest
  <2>2. PICK m \in Messages :
          /\ m.id = cur[w]
          /\ buffer' = [buffer EXCEPT ![w] = Append(buffer[w], m)]
    BY <1>6, FinishPuts
  <2>3. ~Shipped(cur[w]) /\ cur[w] \in Tests
    BY <2>1 DEF NotYetPut, TypeOK
  <2>4. /\ OnePlace'
        /\ \A i : Shipped(i)' <=> Shipped(i) \/ i = cur[w]
    BY <1>2, <2>1, <2>2, <2>3, PutPlaces, ShippedIsLocated
  <2>5. NotYetPut'
    BY <1>3, <2>1, <2>3, <2>4 DEF NotYetPut, Finished, TypeOK
  <2> QED BY <2>4, <2>5
<1>7. ASSUME NEW w \in Workers, Timeout(w) PROVE OnePlace' /\ NotYetPut'
  <2>1. /\ UNCHANGED <<jobs, cur, pipe, reported>>
        /\ pc[w] = "run" /\ pc' = [pc EXCEPT ![w] = "exiting"]
    BY <1>7 DEF Timeout
  <2>2. PICK m \in Messages, n \in Messages :
          /\ m.id = cur[w] /\ n.id = w
          /\ buffer' = [buffer EXCEPT ![w] = Append(Append(buffer[w], m), n)]
    BY <1>7, TimeoutPuts
  <2>3. /\ ~Shipped(cur[w]) /\ cur[w] \in Tests
        /\ ~Shipped(w) /\ w # cur[w]
    BY <1>3, <2>1 DEF NotYetPut, TypeOK, Finished
  <2> DEFINE c == [buffer EXCEPT ![w] = Append(buffer[w], m)]
  <2>4. /\ c \in [Workers -> Seq(Messages)]
        /\ Places(c, pipe, reported)
        /\ \A i : Located(c, pipe, reported, i) <=> Shipped(i) \/ i = cur[w]
    BY <1>2, <2>2, <2>3, PutPlaces, ShippedIsLocated
  <2>5. buffer' = [c EXCEPT ![w] = Append(c[w], n)]
    BY <2>2 DEF TypeOK
  <2> HIDE DEF c
  <2>6. /\ OnePlace'
        /\ \A i : Shipped(i)' <=> Shipped(i) \/ i = cur[w] \/ i = w
    <3>1. ~Located(c, pipe, reported, n.id)
      BY <2>2, <2>3, <2>4
    <3>2. /\ Places(buffer', pipe, reported)
          /\ \A i : Located(buffer', pipe, reported, i)
                      <=> Located(c, pipe, reported, i) \/ i = n.id
      BY <1>2, <2>4, <2>5, <3>1, PutPlaces
    <3> QED BY <2>1, <2>2, <2>4, <3>2, ShippedIsLocated
  <2>7. NotYetPut'
    <3>1. pc'[w] = "exiting" /\ \A v \in Workers : v # w => pc'[v] = pc[v]
      BY <2>1 DEF TypeOK
    <3>2. \A t \in jobs : ~Shipped(t) /\ t # cur[w] /\ t # w
      BY <1>3, <2>1 DEF NotYetPut, TypeOK
    <3>3. \A v \in Workers : v # w /\ pc[v] = "run" =>
             /\ cur[v] \notin jobs /\ ~Shipped(cur[v])
             /\ cur[v] # cur[w] /\ cur[v] # w
      BY <1>3, <2>1 DEF NotYetPut, TypeOK
    <3>4. \A v \in Workers : v # w /\ ~Finished(v) =>
             ~Shipped(v) /\ v # cur[w]
      BY <1>3, <2>3 DEF NotYetPut
    <3>5. \A v \in Workers : ~Finished(v)' => v # w /\ ~Finished(v)
      BY <3>1 DEF Finished
    <3>6. \A t \in jobs' : ~Shipped(t)'
      BY <2>1, <2>6, <3>2
    <3>7. (\A v \in Workers : pc[v] = "run" =>
              cur[v] \notin jobs /\ ~Shipped(cur[v]))'
      BY <2>1, <2>6, <3>1, <3>3
    <3>8. \A u, v \in Workers :
             u # v /\ pc'[u] = "run" /\ pc'[v] = "run" => cur'[u] # cur'[v]
      BY <2>1, <3>1 DEF NotYetPut
    <3>9. \A v \in Workers : ~Finished(v)' => ~Shipped(v)'
      BY <2>6, <3>4, <3>5
    <3> QED BY <3>6, <3>7, <3>8, <3>9 DEF NotYetPut
  <2> QED BY <2>6, <2>7
<1>8. ASSUME NEW w \in Workers, Shutdown(w) PROVE OnePlace' /\ NotYetPut'
  <2>1. /\ UNCHANGED <<jobs, cur, pipe, reported>>
        /\ pc[w] = "stop" /\ pc' = [pc EXCEPT ![w] = "exiting"]
    BY <1>8 DEF Shutdown
  <2>2. PICK m \in Messages :
          /\ m.id = w
          /\ buffer' = [buffer EXCEPT ![w] = Append(buffer[w], m)]
    BY <1>8, ShutdownPuts
  <2>3. ~Shipped(w)
    BY <2>1 DEF NotYetPut, Finished
  <2>4. /\ OnePlace'
        /\ \A i : Shipped(i)' <=> Shipped(i) \/ i = w
    BY <1>2, <2>1, <2>2, <2>3, PutPlaces, ShippedIsLocated
  <2>5. NotYetPut'
    BY <1>3, <2>1, <2>4 DEF NotYetPut, Finished, TypeOK
  <2> QED BY <2>4, <2>5
<1>9. ASSUME NEW w \in Workers, WritePipe(w) PROVE OnePlace' /\ NotYetPut'
  <2> DEFINE k == Packet(Head(buffer[w]))
  <2>1. /\ UNCHANGED <<jobs, cur, pc, reported>>
        /\ buffer' = [buffer EXCEPT ![w] = Tail(buffer[w])]
        /\ pipe' = Append(pipe, k)
        /\ buffer[w] # <<>>
    BY <1>9 DEF WritePipe, LockHeld, TypeOK
  <2>2. Head(buffer[w]) \in Messages
    BY <1>2, <2>1, HeadTailProperties
  <2>3. k \in Packets /\ k.id = Head(buffer[w]).id
    BY <2>2 DEF Packet, Packets, Messages, TypeOK
  <2> HIDE DEF k
  <2>4. OnePlace' /\ \A i : Shipped(i)' <=> Shipped(i)
    BY <1>2, <2>1, <2>3, WritePlaces, ShippedIsLocated
  <2>5. NotYetPut'
    BY <2>1, <2>4 DEF NotYetPut, Finished
  <2> QED BY <2>4, <2>5
<1>10. ASSUME NEW w \in Workers, Kill(w) PROVE OnePlace' /\ NotYetPut'
  <2>1. /\ UNCHANGED <<jobs, cur, pipe, reported>>
        /\ pc' = [pc EXCEPT ![w] = "dead"]
        /\ buffer' = [buffer EXCEPT ![w] = <<>>]
    BY <1>10 DEF Kill
  <2>2. OnePlace' /\ \A i : Shipped(i)' => Shipped(i)
    BY <1>2, <2>1, DropPlaces, ShippedIsLocated
  <2>3. NotYetPut'
    BY <2>1, <2>2 DEF NotYetPut, Finished, TypeOK
  <2> QED BY <2>2, <2>3
<1>11. ASSUME Receive PROVE OnePlace' /\ NotYetPut'
  <2>1. /\ UNCHANGED <<jobs, cur, pc, buffer>>
        /\ pipe # <<>> /\ pipe' = Tail(pipe)
        /\ reported' = reported \cup {Head(pipe).id}
    BY <1>11 DEF Receive
  <2>2. OnePlace' /\ \A i : Shipped(i)' <=> Shipped(i)
    BY <1>2, <2>1, ReadPlaces, ShippedIsLocated
  <2>3. NotYetPut'
    BY <2>1, <2>2 DEF NotYetPut, Finished
  <2> QED BY <2>2, <2>3
<1>12. ASSUME GetExpires \/ CheckAlive \/ JoinAll \/ UNCHANGED vars
       PROVE  OnePlace' /\ NotYetPut'
  <2>1. Still /\ UNCHANGED <<jobs, cur, pc>>
    BY <1>12 DEF GetExpires, CheckAlive, JoinAll, vars
  <2> QED BY <1>1, <2>1 DEF NotYetPut, Finished
<1> QED
  BY <1>4, <1>5, <1>6, <1>7, <1>8, <1>9, <1>10, <1>11, <1>12
  DEF Next, Work, Feed, Coordinate, Terminated

-----------------------------------------------------------------------------
(***************************************************************************)
(* What a message carries: although it is pickled after its worker went    *)
(* on, it bears the failures it was put with.                              *)
(***************************************************************************)
\* A message that waits in a buffer refers to the dictionary of its name, and
\* that dictionary has not changed since the put.
BufferRight ==
    \A w \in Workers : \A k \in DOMAIN buffer[w] :
        /\ buffer[w][k].dict = buffer[w][k].id
        /\ heap[buffer[w][k].id] = recorded[buffer[w][k].id]

PipeRight ==
    \A k \in DOMAIN pipe : pipe[k].failures = recorded[pipe[k].id]

SummaryRight ==
    \A x \in Tests :
        testsFailed[x] # {} <=> \E i \in reported : recorded[i][x] # {}

\* testsFailed of a worker is bound to the dictionary of what it is doing,
\* and that of its shutdown message is untouched until it shuts down.
BindingRight ==
    \A w \in Workers :
        /\ pc[w] = "run" => dict[w] = cur[w]
        /\ pc[w] = "stop" => dict[w] = w
        /\ ~Finished(w) => heap[w] = NoFailures /\ recorded[w] = NoFailures

Carried == BufferRight /\ PipeRight /\ SummaryRight /\ BindingRight

\* The elements of a buffer after one put and after two.
LEMMA PutElements ==
    ASSUME TypeOK, NEW w \in Workers, NEW m \in Messages, NEW n \in Messages,
           \/ buffer' = [buffer EXCEPT ![w] = Append(buffer[w], m)]
           \/ buffer' = [buffer EXCEPT ![w] = Append(Append(buffer[w], m), n)]
    PROVE  \A v \in Workers : \A k \in DOMAIN buffer'[v] :
              \/ k \in DOMAIN buffer[v] /\ buffer'[v][k] = buffer[v][k]
              \/ buffer'[v][k] \in {m, n}
<1>1. buffer[w] \in Seq(Messages) /\ Append(buffer[w], m) \in Seq(Messages)
  BY AppendProperties DEF TypeOK
<1> SUFFICES ASSUME NEW v \in Workers, NEW k \in DOMAIN buffer'[v]
             PROVE  \/ k \in DOMAIN buffer[v] /\ buffer'[v][k] = buffer[v][k]
                    \/ buffer'[v][k] \in {m, n}
  OBVIOUS
<1>2. CASE v # w
  BY <1>2 DEF TypeOK
<1>3. CASE v = w /\ buffer'[w] = Append(buffer[w], m)
  BY <1>1, <1>3, AppendProperties, LenProperties
<1>4. CASE v = w /\ buffer'[w] = Append(Append(buffer[w], m), n)
  BY <1>1, <1>4, AppendProperties, LenProperties
<1> QED BY <1>2, <1>3, <1>4 DEF TypeOK

\* Dictionaries and history of shipped names stay, and a message of a buffer
\* was there before or carries what is right: what is carried stays right.
LEMMA CarriedStep ==
    ASSUME Carried,
           UNCHANGED <<pipe, reported, testsFailed>>,
           \A v \in Workers : \A k \in DOMAIN buffer'[v] :
              \/ k \in DOMAIN buffer[v] /\ buffer'[v][k] = buffer[v][k]
              \/ /\ buffer'[v][k].dict = buffer'[v][k].id
                 /\ heap'[buffer'[v][k].id] = recorded'[buffer'[v][k].id],
           \A i : Shipped(i) => heap'[i] = heap[i] /\ recorded'[i] = recorded[i]
    PROVE  BufferRight' /\ PipeRight' /\ SummaryRight'
<1>1. ASSUME NEW v \in Workers, NEW k \in DOMAIN buffer[v]
      PROVE  Shipped(buffer[v][k].id)
  BY DEF Shipped, Ranged
<1>2. BufferRight'
  <2> SUFFICES ASSUME NEW v \in Workers, NEW k \in DOMAIN buffer'[v]
               PROVE  /\ buffer'[v][k].dict = buffer'[v][k].id
                      /\ heap'[buffer'[v][k].id] = recorded'[buffer'[v][k].id]
    BY DEF BufferRight
  <2> QED BY <1>1 DEF Carried, BufferRight
<1>3. PipeRight'
  <2>1. \A k \in DOMAIN pipe : Shipped(pipe[k].id)
    BY DEF Shipped, Ranged
  <2> QED BY <2>1 DEF Carried, PipeRight
<1>4. SummaryRight'
  <2>1. \A i \in reported : Shipped(i)
    BY DEF Shipped
  <2> QED BY <2>1 DEF Carried, SummaryRight
<1> QED BY <1>2, <1>3, <1>4

LEMMA CarriedNext ==
    Inv /\ Carried /\ [Next]_vars => Carried'
<1> SUFFICES ASSUME Inv, Carried, [Next]_vars PROVE Carried' OBVIOUS
<1> USE DEF workerVars, queueVars, coordVars, counters
<1> DEFINE Right == BufferRight /\ PipeRight /\ SummaryRight
<1>0. TypeOK /\ NotYetPut /\ BindingRight
  BY DEF Inv, Carried
<1>1. \A w \in Workers : w \notin Tests
  BY ParallelAssumption
<1>2. ASSUME UNCHANGED <<pipe, reported, testsFailed, buffer>>,
             \A i : Shipped(i) => heap'[i] = heap[i]
                                    /\ recorded'[i] = recorded[i]
      PROVE  Right'
  <2>1. \A v \in Workers : \A k \in DOMAIN buffer'[v] :
           k \in DOMAIN buffer[v] /\ buffer'[v][k] = buffer[v][k]
    BY <1>2
  <2>2. BufferRight' /\ PipeRight' /\ SummaryRight'
    BY <1>2, <2>1, CarriedStep
  <2> QED BY <2>2
<1>3. ASSUME NEW w \in Workers, GetJob(w) PROVE Carried'
  <2>1. PICK t \in jobs :
          /\ cur' = [cur EXCEPT ![w] = t]
          /\ dict' = [dict EXCEPT ![w] = t]
          /\ heap' = [heap EXCEPT ![t] = NoFailures]
    BY <1>3 DEF GetJob, Rebind
  <2>2. /\ UNCHANGED <<pipe, reported, testsFailed, buffer, recorded>>
        /\ pc' = [pc EXCEPT ![w] = "run"] /\ pc[w] = "get"
    BY <1>3 DEF GetJob
  <2>3. ~Shipped(t) /\ t \in Tests
    BY <1>0, <2>1 DEF NotYetPut, TypeOK
  <2>4. Right'
    BY <1>2, <2>1, <2>2, <2>3 DEF TypeOK
  <2>5. BindingRight'
    BY <1>0, <1>1, <2>1, <2>2, <2>3 DEF BindingRight, TypeOK, Finished
  <2> QED BY <2>4, <2>5 DEF Carried
<1>4. ASSUME NEW w \in Workers, NoJob(w) PROVE Carried'
  <2>1. /\ dict' = [dict EXCEPT ![w] = w]
        /\ heap' = [heap EXCEPT ![w] = NoFailures]
        /\ UNCHANGED <<pipe, reported, testsFailed, buffer, recorded, cur>>
        /\ pc' = [pc EXCEPT ![w] = "stop"] /\ pc[w] = "get"
    BY <1>4 DEF NoJob
  <2>2. ~Shipped(w)
    BY <1>0, <2>1 DEF NotYetPut, Finished
  <2>3. Right'
    BY <1>2, <2>1, <2>2 DEF TypeOK
  <2>4. BindingRight'
    BY <1>0, <2>1 DEF BindingRight, TypeOK, Finished, Ids
  <2> QED BY <2>3, <2>4 DEF Carried
<1>5. ASSUME NEW w \in Workers, FinishTest(w) PROVE Carried'
  <2>1. /\ UNCHANGED <<pipe, reported, testsFailed, cur, dict>>
        /\ pc[w] = "run" /\ pc' = [pc EXCEPT ![w] = "get"]
    BY <1>5 DEF FinishTest
  <2> DEFINE m == Message(cur[w], dict[w])
  <2>2. PICK f :
          /\ heap' = [heap EXCEPT ![dict[w]] = f]
          /\ buffer' = [buffer EXCEPT ![w] = buffer[w] \o <<m>>]
          /\ recorded' = [recorded EXCEPT ![cur[w]] = f]
    BY <1>0, <1>5 DEF FinishTest, Ship, Message, TypeOK
  <2>3. /\ cur[w] \in Tests /\ dict[w] = cur[w] /\ ~Shipped(cur[w])
        /\ m \in Messages /\ m.id = cur[w] /\ m.dict = cur[w]
    BY <1>0, <2>1 DEF BindingRight, NotYetPut, TypeOK, Message, Messages, Ids
  <2>4. buffer[w] \o <<m>> = Append(buffer[w], m)
    BY <1>0, <2>3, AppendIsConcat DEF TypeOK
  <2>5. /\ heap'[cur[w]] = recorded'[cur[w]]
        /\ \A i : i # cur[w] => heap'[i] = heap[i] /\ recorded'[i] = recorded[i]
    BY <1>0, <2>2, <2>3 DEF TypeOK, Ids
  <2> HIDE DEF m
  <2>6. Right'
    <3>1. \A v \in Workers : \A k \in DOMAIN buffer'[v] :
             \/ k \in DOMAIN buffer[v] /\ buffer'[v][k] = buffer[v][k]
             \/ buffer'[v][k] \in {m, m}
      BY <1>0, <2>2, <2>3, <2>4, PutElements
    <3>2. \A i : Shipped(i) => heap'[i] = heap[i] /\ recorded'[i] = recorded[i]
      BY <2>3, <2>5
    <3>3. m.dict = m.id /\ heap'[m.id] = recorded'[m.id]
      BY <2>3, <2>5
    <3>4. BufferRight' /\ PipeRight' /\ SummaryRight'
      BY <2>1, <3>1, <3>2, <3>3, CarriedStep
    <3> QED BY <3>4
  <2>7. BindingRight'
    BY <1>0, <1>1, <2>1, <2>3, <2>5 DEF BindingRight, TypeOK, Finished
  <2> QED BY <2>6, <2>7 DEF Carried
<1>6. ASSUME NEW w \in Workers, Timeout(w) PROVE Carried'
  <2>1. /\ UNCHANGED <<pipe, reported, testsFailed, cur, dict>>
        /\ pc[w] = "run" /\ pc' = [pc EXCEPT ![w] = "exiting"]
    BY <1>6 DEF Timeout
  <2> DEFINE m == Message(cur[w], dict[w])
             n == Message(w, w)
  <2>2. PICK f :
          /\ heap' = [heap EXCEPT ![dict[w]] = f]
          /\ buffer' = [buffer EXCEPT ![w] = buffer[w] \o <<m, n>>]
          /\ recorded' = [recorded EXCEPT ![cur[w]] = f]
    BY <1>0, <1>6 DEF Timeout, Ship, Message, TypeOK
  <2>3. /\ cur[w] \in Tests /\ dict[w] = cur[w] /\ ~Shipped(cur[w])
        /\ m \in Messages /\ m.id = cur[w] /\ m.dict = cur[w]
        /\ n \in Messages /\ n.id = w /\ n.dict = w
    BY <1>0, <2>1 DEF BindingRight, NotYetPut, TypeOK, Message, Messages, Ids
  <2>4. buffer[w] \o <<m, n>> = Append(Append(buffer[w], m), n)
    <3> HIDE DEF m, n
    <3>1. buffer[w] \in Seq(Messages)
      BY <1>0 DEF TypeOK
    <3> QED BY <2>3, <3>1, PutTwo
  <2>5. /\ heap'[cur[w]] = recorded'[cur[w]]
        /\ \A i : i # cur[w] => heap'[i] = heap[i] /\ recorded'[i] = recorded[i]
    BY <1>0, <2>2, <2>3 DEF TypeOK, Ids
  <2>6. heap'[w] = recorded'[w]
    BY <1>0, <1>1, <2>1, <2>3, <2>5 DEF BindingRight, Finished
  <2> HIDE DEF m, n
  <2>7. Right'
    <3>1. \A v \in Workers : \A k \in DOMAIN buffer'[v] :
             \/ k \in DOMAIN buffer[v] /\ buffer'[v][k] = buffer[v][k]
             \/ buffer'[v][k] \in {m, n}
      BY <1>0, <2>2, <2>3, <2>4, PutElements
    <3>2. \A i : Shipped(i) => heap'[i] = heap[i] /\ recorded'[i] = recorded[i]
      BY <2>3, <2>5
    <3>3. /\ m.dict = m.id /\ heap'[m.id] = recorded'[m.id]
          /\ n.dict = n.id /\ heap'[n.id] = recorded'[n.id]
      BY <2>3, <2>5, <2>6
    <3>4. BufferRight' /\ PipeRight' /\ SummaryRight'
      BY <2>1, <3>1, <3>2, <3>3, CarriedStep
    <3> QED BY <3>4
  <2>8. BindingRight'
    BY <1>0, <1>1, <2>1, <2>3, <2>5 DEF BindingRight, TypeOK, Finished
  <2> QED BY <2>7, <2>8 DEF Carried
<1>7. ASSUME NEW w \in Workers, Shutdown(w) PROVE Carried'
  <2>1. /\ UNCHANGED <<pipe, reported, testsFailed, cur, dict>>
        /\ pc[w] = "stop" /\ pc' = [pc EXCEPT ![w] = "exiting"]
    BY <1>7 DEF Shutdown
  <2> DEFINE m == Message(w, dict[w])
  <2>2. PICK f :
          /\ heap' = [heap EXCEPT ![dict[w]] = f]
          /\ buffer' = [buffer EXCEPT ![w] = buffer[w] \o <<m>>]
          /\ recorded' = [recorded EXCEPT ![w] = f]
    BY <1>0, <1>7 DEF Shutdown, Ship, Message, TypeOK
  <2>3. /\ dict[w] = w /\ ~Shipped(w)
        /\ m \in Messages /\ m.id = w /\ m.dict = w
    BY <1>0, <2>1
    DEF BindingRight, NotYetPut, Finished, TypeOK, Message, Messages, Ids
  <2>4. buffer[w] \o <<m>> = Append(buffer[w], m)
    BY <1>0, <2>3, AppendIsConcat DEF TypeOK
  <2>5. /\ heap'[w] = recorded'[w]
        /\ \A i : i # w => heap'[i] = heap[i] /\ recorded'[i] = recorded[i]
    BY <1>0, <2>2, <2>3 DEF TypeOK, Ids
  <2> HIDE DEF m
  <2>6. Right'
    <3>1. \A v \in Workers : \A k \in DOMAIN buffer'[v] :
             \/ k \in DOMAIN buffer[v] /\ buffer'[v][k] = buffer[v][k]
             \/ buffer'[v][k] \in {m, m}
      BY <1>0, <2>2, <2>3, <2>4, PutElements
    <3>2. \A i : Shipped(i) => heap'[i] = heap[i] /\ recorded'[i] = recorded[i]
      BY <2>3, <2>5
    <3>3. m.dict = m.id /\ heap'[m.id] = recorded'[m.id]
      BY <2>3, <2>5
    <3>4. BufferRight' /\ PipeRight' /\ SummaryRight'
      BY <2>1, <3>1, <3>2, <3>3, CarriedStep
    <3> QED BY <3>4
  <2>7. BindingRight'
    BY <1>0, <1>1, <2>1, <2>5 DEF BindingRight, TypeOK, Finished
  <2> QED BY <2>6, <2>7 DEF Carried
<1>8. ASSUME NEW w \in Workers, WritePipe(w) PROVE Carried'
  <2> DEFINE m == Head(buffer[w])
  <2>1. /\ UNCHANGED <<reported, testsFailed, recorded, workerVars>>
        /\ buffer' = [buffer EXCEPT ![w] = Tail(buffer[w])]
        /\ pipe' = Append(pipe, Packet(m))
        /\ buffer[w] # <<>> /\ buffer[w] \in Seq(Messages)
        /\ pipe \in Seq(Packets)
    BY <1>8 DEF WritePipe, LockHeld, TypeOK, Inv
  <2>2. /\ m = buffer[w][1] /\ 1 \in DOMAIN buffer[w]
        /\ \A k \in DOMAIN Tail(buffer[w]) :
              k + 1 \in DOMAIN buffer[w] /\ Tail(buffer[w])[k] = buffer[w][k + 1]
    BY <2>1, HeadTailProperties, LenProperties, EmptySeq
  <2>3. m \in Messages /\ heap[m.dict] = recorded[m.id]
    BY <2>1, <2>2, HeadTailProperties DEF Carried, BufferRight
  <2>4. Packet(m).id = m.id /\ Packet(m).failures = recorded[m.id]
        /\ Packet(m) \in Packets
    BY <1>0, <2>3 DEF Packet, Packets, Messages, TypeOK
  <2> HIDE DEF m
  <2>5. BufferRight'
    <3> SUFFICES ASSUME NEW v \in Workers, NEW k \in DOMAIN buffer'[v]
                 PROVE  /\ buffer'[v][k].dict = buffer'[v][k].id
                        /\ heap'[buffer'[v][k].id] = recorded'[buffer'[v][k].id]
      BY DEF BufferRight
    <3>1. \E j \in DOMAIN buffer[v] : buffer'[v][k] = buffer[v][j]
      <4>1. CASE v = w
        BY <1>0, <2>1, <2>2, <4>1 DEF TypeOK
      <4>2. CASE v # w
        BY <1>0, <2>1, <4>2 DEF TypeOK
      <4> QED BY <4>1, <4>2
    <3> QED BY <2>1, <3>1 DEF Carried, BufferRight
  <2>6. PipeRight'
    <3> SUFFICES ASSUME NEW k \in DOMAIN pipe'
                 PROVE  pipe'[k].failures = recorded[pipe'[k].id]
      BY <2>1 DEF PipeRight
    <3>1. \/ pipe'[k] = Packet(m)
          \/ k \in DOMAIN pipe /\ pipe'[k] = pipe[k]
      BY <2>1, <2>4, AppendProperties, LenProperties
    <3> QED BY <2>4, <3>1 DEF Carried, PipeRight
  <2>7. SummaryRight' /\ BindingRight'
    BY <2>1 DEF Carried, SummaryRight, BindingRight, Finished
  <2> QED BY <2>5, <2>6, <2>7 DEF Carried
<1>9. ASSUME NEW w \in Workers, Kill(w) PROVE Carried'
  <2>1. /\ UNCHANGED <<pipe, reported, testsFailed, heap, recorded, cur, dict>>
        /\ pc' = [pc EXCEPT ![w] = "dead"]
        /\ buffer' = [buffer EXCEPT ![w] = <<>>]
    BY <1>9 DEF Kill
  <2>2. \A v \in Workers : \A k \in DOMAIN buffer'[v] :
           k \in DOMAIN buffer[v] /\ buffer'[v][k] = buffer[v][k]
    BY <1>0, <2>1 DEF TypeOK
  <2>3. BufferRight' /\ PipeRight' /\ SummaryRight'
    BY <2>1, <2>2, CarriedStep
  <2>4. BindingRight'
    BY <1>0, <2>1 DEF BindingRight, TypeOK, Finished
  <2> QED BY <2>3, <2>4 DEF Carried
<1>10. ASSUME Receive PROVE Carried'
  <2> DEFINE h == Head(pipe)
  <2>1. /\ UNCHANGED <<workerVars, buffer, recorded>>
        /\ pipe' = Tail(pipe)
        /\ reported' = reported \cup {h.id}
        /\ testsFailed' = Updated(testsFailed, h.failures)
        /\ pipe # <<>> /\ pipe \in Seq(Packets)
    BY <1>0, <1>10 DEF Receive, TypeOK
  <2>2. /\ h = pipe[1] /\ 1 \in DOMAIN pipe
        /\ \A k \in DOMAIN Tail(pipe) :
              k + 1 \in DOMAIN pipe /\ Tail(pipe)[k] = pipe[k + 1]
    BY <2>1, HeadTailProperties, LenProperties, EmptySeq
  <2>3. h.failures = recorded[h.id]
    BY <2>2 DEF Carried, PipeRight
  <2> HIDE DEF h
  <2>4. BufferRight' /\ BindingRight'
    BY <2>1 DEF Carried, BufferRight, BindingRight, Finished
  <2>5. PipeRight'
    BY <2>1, <2>2 DEF Carried, PipeRight
  <2>6. SummaryRight'
    BY <2>1, <2>3 DEF Carried, SummaryRight, Updated
  <2> QED BY <2>4, <2>5, <2>6 DEF Carried
<1>11. ASSUME NEW w \in Workers,
              CrashTest(w) \/ ShutdownRaises(w) \/ ExitProcess(w) \/ LockPipe(w)
       PROVE  Carried'
  <2>1. UNCHANGED <<pipe, reported, testsFailed, buffer, heap, recorded, cur,
                    dict>>
    BY <1>11 DEF CrashTest, ShutdownRaises, ExitProcess, LockPipe
  <2>2. \A v \in Workers : /\ pc'[v] \in {"run", "stop"} => pc'[v] = pc[v]
                           /\ Finished(v) => Finished(v)'
    BY <1>0, <1>11 DEF CrashTest, ShutdownRaises, ExitProcess, LockPipe,
                       Finished, TypeOK
  <2>3. Right'
    BY <1>2, <2>1
  <2>4. BindingRight'
    BY <1>0, <2>1, <2>2 DEF BindingRight
  <2> QED BY <2>3, <2>4 DEF Carried
<1>12. ASSUME GetExpires \/ CheckAlive \/ JoinAll \/ UNCHANGED vars
       PROVE  Carried'
  <2>1. UNCHANGED <<pipe, reported, testsFailed, buffer, heap, recorded, cur,
                    dict, pc>>
    BY <1>12 DEF GetExpires, CheckAlive, JoinAll, vars
  <2>2. Right'
    BY <1>2, <2>1
  <2>3. BindingRight'
    BY <1>0, <2>1 DEF BindingRight, Finished
  <2> QED BY <2>2, <2>3 DEF Carried
<1> QED
  BY <1>3, <1>4, <1>5, <1>6, <1>7, <1>8, <1>9, <1>10, <1>11, <1>12
  DEF Next, Work, Feed, Coordinate, Terminated

-----------------------------------------------------------------------------
\* There are as many names of messages as the coordinator's loop has rounds.
LEMMA TotalIsCardinality ==
    IsFiniteSet(Ids) /\ Cardinality(Ids) = Total /\ Total \in Nat \ {0}
<1>1. IsFiniteSet(Tests) /\ IsFiniteSet(Workers) /\ Tests \cap Workers = {}
      /\ Workers # {}
  BY ParallelAssumption
<1>2. IsFiniteSet(Tests \cap Workers) /\ Cardinality(Tests \cap Workers) = 0
  BY <1>1, FS_EmptySet
<1>3. /\ IsFiniteSet(Ids)
      /\ Cardinality(Ids) = Cardinality(Tests) + Cardinality(Workers)
                              - Cardinality(Tests \cap Workers)
  BY <1>1, FS_Union DEF Ids
<1>4. Cardinality(Tests) \in Nat /\ Cardinality(Workers) \in Nat
  BY <1>1, FS_CardinalityType
<1>5. Cardinality(Workers) # 0
  BY <1>1, FS_EmptySet
<1> QED BY <1>2, <1>3, <1>4, <1>5 DEF Total

LEMMA InvInit == Init => Inv
<1> SUFFICES ASSUME Init PROVE Inv OBVIOUS
<1>1. TypeOK /\ LockHeld
  BY TypeInit, LockInit
<1>2. Ranged(<<>>) = {} /\ Distinct(<<>>)
  BY DEF Ranged, Distinct
<1>3. OnePlace /\ \A i : ~Shipped(i)
  BY <1>2 DEF Init, OnePlace, Places, Shipped
<1>4. NotYetPut
  BY <1>3 DEF Init, NotYetPut
<1>5. LoopCount
  BY FS_EmptySet, TotalIsCardinality DEF Init, LoopCount
<1> QED BY <1>1, <1>3, <1>4, <1>5 DEF Inv

LEMMA LoopCountNext ==
    TypeOK /\ OnePlace /\ LoopCount /\ [Next]_vars => LoopCount'
<1> SUFFICES ASSUME TypeOK, OnePlace, LoopCount, [Next]_vars
             PROVE  LoopCount'
  OBVIOUS
<1> USE DEF workerVars, queueVars, coordVars, counters
<1>1. ASSUME Receive PROVE LoopCount'
  <2> DEFINE h == Head(pipe).id
  <2>1. h \notin reported
    BY <1>1, ReadPlaces DEF Receive, TypeOK, OnePlace
  <2>2. reported' = reported \cup {h} /\ received' = received + 1
        /\ coord = "get"
        /\ coord' = IF received + 1 = Total THEN "join" ELSE "get"
    BY <1>1 DEF Receive
  <2>3. IsFiniteSet(reported)
    BY TotalIsCardinality, FS_Subset DEF TypeOK
  <2> HIDE DEF h
  <2>4. Cardinality(reported') = Cardinality(reported) + 1
    BY <2>1, <2>2, <2>3, FS_AddElement
  <2>5. received \in Nat /\ Total \in Nat
    BY TotalIsCardinality DEF TypeOK
  <2> QED BY <2>2, <2>4, <2>5 DEF LoopCount
<1>2. ASSUME NEW w \in Workers, Work(w) \/ Feed(w) \/ Kill(w)
      PROVE  UNCHANGED coordVars
  BY <1>2 DEF Work, Feed, Kill, GetJob, NoJob, FinishTest, CrashTest, Timeout,
              Shutdown, ShutdownRaises, ExitProcess, LockPipe, WritePipe
<1>3. ASSUME GetExpires \/ CheckAlive PROVE LoopCount'
  BY <1>3 DEF GetExpires, CheckAlive, LoopCount
<1>4. ASSUME JoinAll PROVE LoopCount'
  BY <1>4 DEF JoinAll, LoopCount
<1>5. ASSUME UNCHANGED coordVars PROVE LoopCount'
  BY <1>5 DEF LoopCount
<1>6. UNCHANGED vars => UNCHANGED coordVars
  BY DEF vars
<1> HIDE DEF coordVars
<1> QED BY <1>1, <1>2, <1>3, <1>4, <1>5, <1>6 DEF Next, Coordinate, Terminated

THEOREM InvHolds == Spec => []Inv
<1>1. Init => Inv
  BY InvInit
<1>2. Inv /\ [Next]_vars => Inv'
  BY TypeNext, LockNext, PlacesNext, LoopCountNext DEF Inv
<1> QED BY <1>1, <1>2, PTL DEF Spec

\* The number the coordinator's loop counts to is only reached when the
\* result of every test and the shutdown message of every worker were read.
LEMMA LoopEndsWithAll ==
    ASSUME Inv, coord \in {"join", "done"}
    PROVE  reported = Ids
<1>1. Cardinality(reported) = Cardinality(Ids)
  BY TotalIsCardinality DEF Inv, LoopCount
<1> QED BY <1>1, TotalIsCardinality, FS_Subset DEF Inv, TypeOK

\* The coordinator counts every message once (1046-1053).
THEOREM CountIsRight == Spec => []CountsEachMessageOnce
<1>1. Inv => CountsEachMessageOnce
  BY DEF Inv, LoopCount, CountsEachMessageOnce
<1> QED BY <1>1, InvHolds, PTL

\* Joining the workers cannot block on an undrained pipe (1056-1057): once the
\* coordinator stops reading there is no message left anywhere, and every
\* worker is past its last put.
THEOREM JoinCannotBlock == Spec => []JoinIsSafe
<1>1. ASSUME Inv, coord \in {"join", "done"}
      PROVE  pipe = <<>> /\ \A w \in Workers : Finished(w) /\ buffer[w] = <<>>
  <2>1. reported = Ids
    BY <1>1, LoopEndsWithAll
  <2>0. (\A m \in Messages : m.id \in Ids) /\ (\A m \in Packets : m.id \in Ids)
    BY DEF Messages, Packets
  <2>2. ASSUME NEW S, NEW s \in Seq(S), Ranged(s) = {} PROVE s = <<>>
    <3>1. s # <<>> => Head(s).id \in Ranged(s)
      BY TailPlaces
    <3> QED BY <2>2, <3>1
  <2>3. pipe = <<>>
    <3>1. pipe \in Seq(Packets)
      BY <1>1 DEF Inv, TypeOK
    <3>2. Ranged(pipe) \subseteq Ids
      BY <2>0, <3>1, NamesOfSeq
    <3>3. Ranged(pipe) \cap reported = {}
      BY <1>1 DEF Inv, OnePlace, Places
    <3> QED BY <2>1, <2>2, <3>1, <3>2, <3>3
  <2>4. ASSUME NEW w \in Workers PROVE Finished(w) /\ buffer[w] = <<>>
    <3>1. buffer[w] \in Seq(Messages)
      BY <1>1 DEF Inv, TypeOK
    <3>2. Ranged(buffer[w]) \subseteq Ids
      BY <2>0, <3>1, NamesOfSeq
    <3>3. Ranged(buffer[w]) \cap reported = {}
      BY <1>1 DEF Inv, OnePlace, Places
    <3>4. Shipped(w)
      BY <2>1 DEF Shipped, Ids
    <3>5. Finished(w)
      BY <1>1, <3>4 DEF Inv, NotYetPut
    <3> QED BY <2>1, <2>2, <3>1, <3>2, <3>3, <3>5
  <2> QED BY <2>3, <2>4
<1>2. Inv => JoinIsSafe
  BY <1>1 DEF JoinIsSafe
<1> QED BY <1>2, InvHolds, PTL

\* A summary is only printed after every test and every worker reported, and
\* it names exactly the tests under which some message recorded a failure
\* (974: each message has a dictionary of its own; 1046-1053).
THEOREM SummaryIsRight == Spec => []SummaryIsComplete
<1>1. Init => Carried
  BY DEF Init, Carried, BufferRight, PipeRight, SummaryRight, BindingRight,
         NoFailures, Ids
<1>2. Inv /\ Carried /\ [Next]_vars => Carried'
  BY CarriedNext
<1>3. ASSUME Inv, Carried PROVE SummaryIsComplete
  <2> SUFFICES ASSUME coord = "done"
               PROVE  /\ reported = Ids
                      /\ \A x \in Tests : testsFailed[x] # {}
                            <=> \E i \in Ids : recorded[i][x] # {}
    BY DEF SummaryIsComplete
  <2>1. reported = Ids
    BY <1>3, LoopEndsWithAll
  <2> QED BY <1>3, <2>1 DEF Carried, SummaryRight
<1> QED BY <1>1, <1>2, <1>3, InvHolds, PTL DEF Spec

-------------------------------------------------------------------------------
(***************************************************************************)
(* What the user of a parallel run is promised, for every number of tests  *)
(* and workers: no result vanishes, no failure is taken back, and all that *)
(* the coordinator and its workers do are steps of TestLedger.             *)
(***************************************************************************)
(***************************************************************************)
(* Nothing vanishes.                                                       *)
(***************************************************************************)
\* A message that was put is not lost, unless a process is killed.
LEMMA ShippedStays ==
    ASSUME Inv, [Next]_vars, \A w \in Workers : ~Kill(w), NEW i, Shipped(i)
    PROVE  Shipped(i)'
<1> USE DEF workerVars, queueVars, coordVars, counters
<1>0. /\ buffer \in [Workers -> Seq(Messages)] /\ pipe \in Seq(Packets)
      /\ Places(buffer, pipe, reported)
  BY DEF Inv, TypeOK, OnePlace
<1>1. ASSUME /\ UNCHANGED <<pipe, reported>>
             /\ \A v \in Workers : Ranged(buffer[v]) \subseteq Ranged(buffer'[v])
      PROVE  Shipped(i)'
  BY <1>1 DEF Shipped, Ranged
<1>2. ASSUME UNCHANGED <<buffer, pipe, reported>> PROVE Shipped(i)'
  BY <1>2 DEF Shipped, Ranged
<1>3. ASSUME NEW w \in Workers, FinishTest(w) \/ Shutdown(w) PROVE Shipped(i)'
  <2>1. PICK m \in Messages : buffer' = [buffer EXCEPT ![w] = Append(buffer[w], m)]
    BY <1>3, FinishPuts, ShutdownPuts DEF Inv
  <2>2. Ranged(buffer[w]) \subseteq Ranged(Append(buffer[w], m))
    BY <1>0, AppendPlaces
  <2>3. \A v \in Workers : Ranged(buffer[v]) \subseteq Ranged(buffer'[v])
    BY <1>0, <2>1, <2>2
  <2> QED BY <1>1, <1>3, <2>3 DEF FinishTest, Shutdown
<1>4. ASSUME NEW w \in Workers, Timeout(w) PROVE Shipped(i)'
  <2>1. PICK m \in Messages, n \in Messages :
          buffer' = [buffer EXCEPT ![w] = Append(Append(buffer[w], m), n)]
    BY <1>4, TimeoutPuts DEF Inv
  <2>2. Append(buffer[w], m) \in Seq(Messages)
    BY <1>0, AppendProperties
  <2> DEFINE c == Append(buffer[w], m)
  <2>5. Ranged(buffer[w]) \subseteq Ranged(c)
    BY <1>0, AppendPlaces
  <2>6. c \in Seq(Messages)
    BY <2>2
  <2>7. Ranged(c) \subseteq Ranged(Append(c, n))
    <3> HIDE DEF c
    <3> QED BY <2>6, AppendPlaces
  <2>3. Ranged(buffer[w]) \subseteq Ranged(Append(Append(buffer[w], m), n))
    BY <2>5, <2>7
  <2>4. \A v \in Workers : Ranged(buffer[v]) \subseteq Ranged(buffer'[v])
    BY <1>0, <2>1, <2>3
  <2> QED BY <1>1, <1>4, <2>4 DEF Timeout
<1>5. ASSUME NEW w \in Workers, WritePipe(w) PROVE Shipped(i)'
  <2> DEFINE k == Packet(Head(buffer[w]))
  <2>1. /\ reported' = reported
        /\ buffer' = [buffer EXCEPT ![w] = Tail(buffer[w])]
        /\ pipe' = Append(pipe, k)
        /\ buffer[w] # <<>>
    <3>1. TypeOK /\ LockHeld
      BY DEF Inv
    <3> QED BY <1>5, <3>1 DEF WritePipe, LockHeld, TypeOK
  <2>2. Head(buffer[w]) \in Messages
    BY <1>0, <2>1, HeadTailProperties
  <2>3. k \in Packets /\ k.id = Head(buffer[w]).id
    BY <2>2 DEF Packet, Packets, Messages, Inv, TypeOK
  <2> HIDE DEF k
  <2> QED BY <1>0, <2>1, <2>3, WritePlaces, ShippedIsLocated
<1>6. ASSUME Receive PROVE Shipped(i)'
  BY <1>0, <1>6, ReadPlaces, ShippedIsLocated DEF Receive
<1>7. ASSUME NEW w \in Workers,
             \/ GetJob(w) \/ NoJob(w) \/ CrashTest(w) \/ ShutdownRaises(w)
             \/ ExitProcess(w) \/ LockPipe(w)
      PROVE  Shipped(i)'
  BY <1>2, <1>7 DEF GetJob, NoJob, CrashTest, ShutdownRaises, ExitProcess, LockPipe
<1>8. ASSUME GetExpires \/ CheckAlive \/ JoinAll \/ UNCHANGED vars
      PROVE  Shipped(i)'
  BY <1>2, <1>8 DEF GetExpires, CheckAlive, JoinAll, vars
<1> QED
  BY <1>3, <1>4, <1>5, <1>6, <1>7, <1>8
  DEF Next, Work, Feed, Coordinate, Terminated

\* The result of a test that finishes or times out is put.
LEMMA ResultIsPut ==
    ASSUME Inv, NEW w \in Workers, FinishTest(w) \/ Timeout(w)
    PROVE  Shipped(cur[w])'
<1>0. buffer \in [Workers -> Seq(Messages)]
  BY DEF Inv, TypeOK
<1>1. ASSUME FinishTest(w) PROVE cur[w] \in Ranged(buffer'[w])
  <2>1. PICK m \in Messages :
          m.id = cur[w] /\ buffer' = [buffer EXCEPT ![w] = Append(buffer[w], m)]
    BY <1>1, FinishPuts DEF Inv
  <2> QED BY <1>0, <2>1, AppendPlaces
<1>2. ASSUME Timeout(w) PROVE cur[w] \in Ranged(buffer'[w])
  <2>1. PICK m \in Messages, n \in Messages :
          /\ m.id = cur[w]
          /\ buffer' = [buffer EXCEPT ![w] = Append(Append(buffer[w], m), n)]
    BY <1>2, TimeoutPuts DEF Inv
  <2> DEFINE c == Append(buffer[w], m)
  <2>2. c \in Seq(Messages) /\ cur[w] \in Ranged(c)
    BY <1>0, <2>1, AppendPlaces, AppendProperties
  <2>3. Ranged(c) \subseteq Ranged(Append(c, n))
    <3> HIDE DEF c
    <3> QED BY <2>2, AppendPlaces
  <2>4. buffer'[w] = Append(c, n)
    BY <1>0, <2>1
  <2> QED BY <2>2, <2>3, <2>4
<1>3. cur[w] \in Ranged(buffer'[w]) /\ cur' = cur
  BY <1>1, <1>2 DEF FinishTest, Timeout
<1> QED BY <1>3 DEF Shipped, Ranged

LEMMA NoneOfBoth ==
    ASSUME NEW m \in Nat, NEW n \in Nat
    PROVE  m + n > 0 <=> m # 0 \/ n # 0
OBVIOUS

\* Test t has not vanished.
Kept(t) == Shipped(t) \/ \E w \in Workers : pc[w] = "run" /\ cur[w] = t

LEMMA KeptNext ==
    ASSUME Inv, NoJobVanishes, [Next]_vars
    PROVE  NoJobVanishes'
<1> USE DEF workerVars, queueVars, coordVars, counters
<1>0. /\ crashes \in Nat /\ kills \in Nat
      /\ pc \in [Workers -> {"get", "run", "stop", "exiting", "dead"}]
      /\ cur \in [Workers -> Tests \cup {None}]
  BY DEF Inv, TypeOK
<1>10. crashes' \in Nat /\ kills' \in Nat
  BY TypeNext DEF Inv, TypeOK
<1>12. crashes' + kills' > 0 <=> crashes' # 0 \/ kills' # 0
  BY <1>10, NoneOfBoth
<1> SUFFICES ASSUME NEW t \in Tests \ jobs', ~(crashes' + kills' > 0)
             PROVE  Kept(t)'
  BY Zenon DEF NoJobVanishes, Kept
<1>1. crashes' = 0 /\ kills' = 0
  BY <1>12
<1>2. \A w \in Workers : ~Kill(w) /\ ~CrashTest(w)
  BY <1>0, <1>1 DEF Kill, CrashTest
<1>3. crashes = 0 /\ kills = 0
  BY <1>1, <1>2
  DEF Next, Work, Feed, Coordinate, Terminated, vars, GetJob, NoJob, FinishTest,
      Timeout, Shutdown, ShutdownRaises, ExitProcess, LockPipe, WritePipe,
      Receive, GetExpires, CheckAlive, JoinAll
<1>4. t \notin jobs => Kept(t)
  BY <1>3 DEF NoJobVanishes, Kept
<1>5. Shipped(t) => Kept(t)'
  BY <1>2, ShippedStays DEF Kept
<1>6. ASSUME NEW w \in Workers, GetJob(w) PROVE Kept(t)'
  <2>1. PICK u \in jobs : jobs' = jobs \ {u} /\ cur' = [cur EXCEPT ![w] = u]
    BY <1>6 DEF GetJob
  <2>2. pc[w] = "get" /\ pc' = [pc EXCEPT ![w] = "run"]
    BY <1>6 DEF GetJob
  <2>3. CASE t = u
    BY <1>0, <2>1, <2>2, <2>3 DEF Kept
  <2>4. CASE t # u /\ ~Shipped(t)
    <3>1. PICK v \in Workers : pc[v] = "run" /\ cur[v] = t
      BY <1>4, <2>1, <2>4 DEF Kept
    <3> QED BY <1>0, <2>1, <2>2, <3>1 DEF Kept
  <2> QED BY <1>5, <2>3, <2>4
<1>7. ASSUME jobs' = jobs, cur' = cur,
             \A v \in Workers :
                 pc[v] = "run" => pc'[v] = "run" \/ Shipped(cur[v])'
      PROVE  Kept(t)'
  BY <1>4, <1>5, <1>7 DEF Kept
<1>8. ASSUME NEW w \in Workers, FinishTest(w) \/ Timeout(w) PROVE Kept(t)'
  <2>1. /\ jobs' = jobs /\ cur' = cur
        /\ \A v \in Workers : v # w => pc'[v] = pc[v]
    BY <1>0, <1>8 DEF FinishTest, Timeout
  <2> QED BY <1>7, <1>8, <2>1, ResultIsPut
<1>9. ASSUME NEW w \in Workers,
             \/ NoJob(w) \/ Shutdown(w) \/ ShutdownRaises(w) \/ ExitProcess(w)
             \/ LockPipe(w) \/ WritePipe(w)
      PROVE  Kept(t)'
  <2>1. jobs' = jobs /\ cur' = cur
    BY <1>9 DEF NoJob, Shutdown, ShutdownRaises, ExitProcess, LockPipe, WritePipe
  <2>2. \A v \in Workers : pc[v] = "run" => pc'[v] = "run"
    BY <1>0, <1>9 DEF NoJob, Shutdown, ShutdownRaises, ExitProcess, LockPipe, WritePipe
  <2> QED BY <1>7, <2>1, <2>2
<1>11. ASSUME Coordinate \/ UNCHANGED vars PROVE Kept(t)'
  BY <1>7, <1>11 DEF Coordinate, Receive, GetExpires, CheckAlive, JoinAll, vars
<1> QED
  BY <1>2, <1>6, <1>8, <1>9, <1>11 DEF Next, Work, Feed, Terminated

\* A job that was taken from the queue is running or its result is on its way
\* (__main__.py:973-1010), as long as no worker crashes or is killed: neither
\* a timeout nor the end of a worker's loop loses one.
THEOREM NothingVanishes == Spec => []NoJobVanishes
<1>1. Init => NoJobVanishes
  BY DEF Init, NoJobVanishes
<1>2. Inv /\ NoJobVanishes /\ [Next]_vars => NoJobVanishes'
  BY KeptNext
<1> QED BY <1>1, <1>2, InvHolds, PTL DEF Spec

-----------------------------------------------------------------------------
(***************************************************************************)
(* The steps of the coordinator, and those that are none.                  *)
(***************************************************************************)
\* No one but the coordinator touches what the coordinator has.
LEMMA OthersLeaveIt ==
    ASSUME NEW w \in Workers, Work(w) \/ Feed(w) \/ Kill(w)
    PROVE  UNCHANGED coordVars
BY DEF Work, Feed, Kill, GetJob, NoJob, FinishTest, CrashTest, Timeout, Shutdown,
       ShutdownRaises, ExitProcess, LockPipe, WritePipe, coordVars

\* dict.update takes no name away.
LEMMA UpdatedNames ==
    ASSUME NEW f \in Dict, NEW g \in Dict
    PROVE  {x \in Tests : Updated(f, g)[x] # {}} =
               {x \in Tests : f[x] # {}} \cup {x \in Tests : g[x] # {}}
BY DEF Updated, Dict

\* The oldest packet of the pipe.
LEMMA PacketRead ==
    ASSUME Inv, Receive
    PROVE  /\ Head(pipe).failures \in Dict /\ Head(pipe).id \in Ids
           /\ Shipped(Head(pipe).id) /\ Head(pipe).id \notin reported
<1>1. pipe \in Seq(Packets) /\ pipe # <<>>
  BY DEF Inv, TypeOK, Receive
<1>2. Head(pipe) \in Packets
  BY <1>1, HeadTailProperties
<1>3. Head(pipe).id \in Ranged(pipe)
  BY <1>1, TailPlaces
<1>4. Head(pipe).id \notin reported
  BY <1>3 DEF Inv, OnePlace, Places
<1> QED BY <1>2, <1>3, <1>4 DEF Packets, Shipped

\* A failure that the coordinator has read stays in its dictionary, and its
\* index does not move any more once the run is over (1046-1057).
THEOREM FailuresRemain == Spec => FailuresStay
<1> DEFINE Stays == /\ \A x \in Tests : testsFailed[x] # {} => testsFailed'[x] # {}
                    /\ Ended => UNCHANGED received
<1>1. ASSUME Inv, [Next]_vars PROVE [Stays]_vars
  <2>1. ASSUME Receive PROVE Stays
    <3>1. testsFailed' = Updated(testsFailed, Head(pipe).failures)
      BY <2>1 DEF Receive
    <3>2. testsFailed \in Dict
      BY <1>1 DEF Inv, TypeOK
    <3>3. {x \in Tests : testsFailed[x] # {}} \subseteq
              {x \in Tests : testsFailed'[x] # {}}
      BY <1>1, <2>1, <3>1, <3>2, PacketRead, UpdatedNames
    <3>4. ~Ended
      BY <2>1 DEF Receive, Ended
    <3> QED BY <3>3, <3>4
  <2>2. ASSUME UNCHANGED coordVars PROVE Stays
    BY <2>2 DEF coordVars
  <2>3. GetExpires \/ CheckAlive \/ JoinAll => UNCHANGED <<testsFailed, received>>
    BY DEF GetExpires, CheckAlive, JoinAll
  <2>4. UNCHANGED vars => UNCHANGED coordVars
    BY DEF vars
  <2> QED
    BY <1>1, <2>1, <2>2, <2>3, <2>4, OthersLeaveIt DEF Next, Coordinate, Terminated
<1> QED BY <1>1, InvHolds, PTL DEF Spec, FailuresStay

-----------------------------------------------------------------------------
(***************************************************************************)
(* The ledger.                                                             *)
(***************************************************************************)
\* Once the run is over every worker has ended.
OverInv == Ended => \A w \in Workers : pc[w] = "dead"

LEMMA OverNext ==
    ASSUME Inv, OverInv, [Next]_vars
    PROVE  OverInv'
<1>0. pc \in [Workers -> {"get", "run", "stop", "exiting", "dead"}]
  BY DEF Inv, TypeOK
<1>1. ASSUME NEW w \in Workers, Work(w) \/ Feed(w) \/ Kill(w) PROVE OverInv'
  <2>1. UNCHANGED coord
    BY <1>1, OthersLeaveIt DEF coordVars
  <2>2. \A v \in Workers : pc[v] = "dead" => pc'[v] = "dead"
    BY <1>0, <1>1
    DEF Work, Feed, Kill, GetJob, NoJob, FinishTest, CrashTest, Timeout, Shutdown,
        ShutdownRaises, ExitProcess, LockPipe, WritePipe, workerVars
  <2> QED BY <2>1, <2>2 DEF OverInv, Ended
<1>2. ASSUME Receive \/ GetExpires \/ CheckAlive \/ JoinAll PROVE OverInv'
  BY <1>2
  DEF Receive, GetExpires, CheckAlive, JoinAll, OverInv, Ended, workerVars
<1>3. UNCHANGED vars => OverInv'
  BY DEF OverInv, Ended, vars, workerVars, coordVars
<1> QED BY <1>1, <1>2, <1>3 DEF Next, Coordinate, Terminated

\* A worker takes a job off the queue: the ledger hands it out.
LEMMA TakesJob ==
    ASSUME Inv, OverInv, NEW w \in Workers, GetJob(w)
    PROVE  Ledger!Next
<1>1. PICK t \in jobs : jobs' = jobs \ {t}
  BY DEF GetJob
<1>2. t \in Tests /\ t \notin reported
  BY DEF Inv, TypeOK, NotYetPut, Shipped
<1>3. coord \notin {"done", "error"} /\ UNCHANGED <<coord, testsFailed, reported>>
  BY DEF GetJob, OverInv, Ended, coordVars
<1>4. Ledger!Take(t)
  BY <1>1, <1>2, <1>3 DEF Ledger!Take
<1> QED BY <1>2, <1>4 DEF Ledger!Next

\* The coordinator reads a message: of a test, or a shutdown message.
LEMMA EntersResult ==
    ASSUME Inv, Receive
    PROVE  Ledger!Next
<1> DEFINE i == Head(pipe).id
           names == {x \in Tests : Head(pipe).failures[x] # {}}
<1>1. /\ testsFailed \in Dict
      /\ testsFailed' = Updated(testsFailed, Head(pipe).failures)
      /\ reported' = reported \cup {i} /\ jobs' = jobs
      /\ coord \notin {"done", "error"} /\ coord' \notin {"done", "error"}
  BY DEF Inv, TypeOK, Receive
<1>2. i \notin reported /\ i \notin jobs /\ i \in Ids
  BY PacketRead DEF Inv, NotYetPut
<1>3. {x \in Tests : testsFailed'[x] # {}} =
          {x \in Tests : testsFailed[x] # {}} \cup names
  BY <1>1, PacketRead, UpdatedNames
<1>4. names \in SUBSET Tests
  OBVIOUS
<1> HIDE DEF i, names
<1>5. CASE i \in Tests
  <2>1. PICK t \in Tests : t = i
    BY <1>5
  <2>2. Ledger!Report(t)
    BY <1>1, <1>2, <1>3, <1>4, <2>1 DEF Ledger!Report
  <2> QED BY <2>2 DEF Ledger!Next
<1>6. CASE i \notin Tests
  <2>1. \A t \in Tests : t \in reported' <=> t \in reported
    BY <1>1, <1>6
  <2>2. Ledger!ReportLate
    BY <1>1, <1>3, <1>4, <2>1 DEF Ledger!ReportLate
  <2> QED BY <2>2 DEF Ledger!Next
<1> QED BY <1>5, <1>6

\* The ways in which a run is over.
LEMMA EndsRun ==
    ASSUME Inv, JoinAll
    PROVE  Ledger!Next
<1>1. reported = Ids
  BY LoopEndsWithAll DEF JoinAll
<1>2. \A t \in Tests : t \in reported
  BY <1>1 DEF Ids
<1>3. coord = "join" /\ coord' = "done" /\ UNCHANGED <<jobs, reported, testsFailed>>
  BY DEF JoinAll
<1>4. Ledger!Close
  BY <1>2, <1>3 DEF Ledger!Close
<1> QED BY <1>4 DEF Ledger!Next

LEMMA GivesUp ==
    ASSUME Inv, CheckAlive
    PROVE  [Ledger!Next]_(Ledger!vars)
<1>1. /\ coord = "check" /\ coord' \in {"get", "error"}
      /\ UNCHANGED <<jobs, reported, testsFailed>>
  BY DEF CheckAlive
<1>2. CASE coord' = "error"
  <2>1. Ledger!GiveUp
    BY <1>1, <1>2 DEF Ledger!GiveUp
  <2> QED BY <2>1 DEF Ledger!Next
<1>3. CASE coord' = "get"
  BY <1>1, <1>3 DEF Ledger!vars
<1> QED BY <1>1, <1>2, <1>3

\* Every step of the coordinator and its workers is one of the ledger, or
\* leaves the ledger as it is.
LEMMA LedgerStep ==
    ASSUME Inv, OverInv, [Next]_vars
    PROVE  [Ledger!Next]_(Ledger!vars)
<1>1. ASSUME UNCHANGED <<jobs, reported, testsFailed, coord>>
      PROVE  UNCHANGED Ledger!vars
  BY <1>1 DEF Ledger!vars
<1>2. ASSUME NEW w \in Workers,
             \/ NoJob(w) \/ FinishTest(w) \/ CrashTest(w) \/ Timeout(w) \/ Shutdown(w)
             \/ ShutdownRaises(w) \/ ExitProcess(w) \/ Feed(w) \/ Kill(w)
      PROVE  UNCHANGED Ledger!vars
  BY <1>1, <1>2
  DEF NoJob, FinishTest, CrashTest, Timeout, Shutdown, ShutdownRaises, ExitProcess,
      Feed, LockPipe, WritePipe, Kill, coordVars
<1>3. ASSUME GetExpires PROVE UNCHANGED Ledger!vars
  BY <1>3 DEF GetExpires, Ledger!vars
<1>4. UNCHANGED vars => UNCHANGED Ledger!vars
  BY <1>1 DEF vars, coordVars
<1> QED
  BY <1>2, <1>3, <1>4, TakesJob, EntersResult, EndsRun, GivesUp
  DEF Next, Work, Coordinate, Terminated

LEMMA LedgerInit == Init => Ledger!Init
BY DEF Init, Ledger!Init, NoFailures

\* Whatever tests fail, time out, crash or are killed, what the coordinator and
\* its workers do (__main__.py:954-1060) is what TestLedger allows: every test
\* is handed out once, its result is entered once and only then, failures are
\* only added, and the summary is printed for a full ledger only.
THEOREM LedgerIsKept == Spec => Ledger!Safety
<1>1. Init => OverInv
  BY DEF Init, OverInv, Ended
<1>2. Inv /\ OverInv /\ [Next]_vars => OverInv' /\ [Ledger!Next]_(Ledger!vars)
  BY OverNext, LedgerStep
<1> QED BY <1>1, <1>2, LedgerInit, InvHolds, PTL DEF Spec, Ledger!Safety
=============================================================================
