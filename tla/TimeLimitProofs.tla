--------------------------- MODULE TimeLimitProofs ---------------------------
(***************************************************************************)
(* Theorems about TimeLimit, for every limit and every number of subtests. *)
(***************************************************************************)
EXTENDS TimeLimit, TLAPS

\* The watcher holds the lock when it looks at is_done and the deadline, and
\* from its decision to time out until the end.
LockDecides == watcher \in {"check", "compare"} \/ TimingOut => lock = "watcher"

\* is_done is set exactly when the main thread is past the guarded block.
DoneMeansLeft ==
    /\ isDone <=> main \in {"left", "returned"}
    /\ watcher = "compare" \/ TimingOut => ~isDone
    /\ main = "enter" <=> watcher = "none"

\* A signal is only pending, and the handler only runs, once it was sent.
Sent == watcher \in {"spin", "dispose", "exit", "killed"}

SignalMeansTimeout ==
    /\ signalled => Sent
    /\ main \in {"handler", "asleep"} => Sent
    /\ tracePrinted => Sent
    /\ watcher = "spin" /\ tracePrinted => main = "asleep"

\* Each verdict was given by the thread that is past giving it.
CountsVerdicts ==
    reports = (IF main = "returned" THEN 1 ELSE 0)
                + (IF watcher \in {"exit", "killed"} THEN 1 ELSE 0)

\* The deadline passes when a subtest has used up its limit, not before; the
\* time a reset has taken is part of the subtest that it ends.
DeadlineIsAge ==
    /\ remaining = Limit - age
    /\ age = Limit => overran
    /\ fresh <= age

\* What the watcher has loaded is the deadline unless it was reset since.
SeenIsDeadline == watcher = "compare" /\ ~raced => seen = remaining

IInv ==
    /\ TypeOK
    /\ LockDecides
    /\ DoneMeansLeft
    /\ SignalMeansTimeout
    /\ InterruptsInsideOnly
    /\ CountsVerdicts
    /\ DeadlineIsAge
    /\ SeenIsDeadline
    /\ TimeoutMeansOverrun
    /\ DisposesAlone

LEMMA IInvInit == Init => IInv
<1> SUFFICES ASSUME Init PROVE IInv OBVIOUS
<1> USE DEF Init
<1>1. TypeOK
  <2>1. remaining \in 0..Limit /\ seen \in 0..Limit /\ fresh \in 0..Limit
        /\ age \in 0..Limit /\ left \in 0..Subtests /\ reports \in 0..2
    BY TimeLimitAssumption DEF TimeLimitAssumption
  <2>2. {isDone, tracePrinted, signalled, overran, raced, woken} \subseteq BOOLEAN
    BY Zenon
  <2>3. lock \in {"free", "watcher"}
    OBVIOUS
  <2> QED BY <2>1, <2>2, <2>3 DEF TypeOK
<1>2. ~TimingOut /\ ~Sent
  BY DEF TimingOut, Sent
<1>3. LockDecides /\ DoneMeansLeft /\ SignalMeansTimeout
  BY <1>2 DEF LockDecides, DoneMeansLeft, SignalMeansTimeout
<1>4. InterruptsInsideOnly /\ TimeoutMeansOverrun /\ DisposesAlone
  BY <1>2 DEF InterruptsInsideOnly, TimeoutMeansOverrun, DisposesAlone
<1>5. CountsVerdicts
  BY DEF CountsVerdicts
<1>6. DeadlineIsAge /\ SeenIsDeadline
  BY TimeLimitAssumption DEF TimeLimitAssumption, DeadlineIsAge, SeenIsDeadline
<1> QED BY <1>1, <1>3, <1>4, <1>5, <1>6 DEF IInv

LEMMA IInvNext == IInv /\ [Next]_vars => IInv'
<1> SUFFICES ASSUME IInv, [Next]_vars PROVE IInv' OBVIOUS
<1> USE TimeLimitAssumption
    DEF TimeLimitAssumption, IInv, TypeOK, LockDecides, DoneMeansLeft,
        SignalMeansTimeout, InterruptsInsideOnly, CountsVerdicts, DeadlineIsAge,
        SeenIsDeadline, TimeoutMeansOverrun, DisposesAlone, TimingOut, Sent,
        clock, flags, history
<1>1. CASE Enter
  BY <1>1 DEF Enter
<1>2. CASE StartReset
  BY <1>2 DEF StartReset, Alive
<1>3. CASE EndBody
  BY <1>3 DEF EndBody, Alive
<1>4. CASE Leave
  BY <1>4 DEF Leave, Alive
<1>5. CASE ReportResult
  BY <1>5 DEF ReportResult, Alive
<1>6. CASE DeliverSignal
  BY <1>6 DEF DeliverSignal, Alive
<1>7. CASE PrintTrace
  BY <1>7 DEF PrintTrace, Alive
<1>8. CASE WakeUp
  BY <1>8 DEF WakeUp, Alive
<1>9. CASE Acquire
  BY <1>9 DEF Acquire
<1>10. CASE WaitMore
  BY <1>10 DEF WaitMore
<1>11. CASE GoAway
  BY <1>11 DEF GoAway
<1>12. CASE Expire
  BY <1>12 DEF Expire
<1>13. CASE SendSignal
  BY <1>13 DEF SendSignal
<1>14. CASE SeeTrace
  BY <1>14 DEF SeeTrace
<1>15. CASE Dispose
  BY <1>15 DEF Dispose
<1>16. CASE ExitProcess
  BY <1>16 DEF ExitProcess
<1>17. CASE Tick
  <2>1. /\ remaining' = Less(remaining) /\ seen' = Less(seen)
        /\ age' = More(age) /\ fresh' = More(fresh)
    BY <1>17 DEF Tick
  <2>2. overran' \in BOOLEAN /\ (age + 1 >= Limit => overran')
        /\ (overran => overran')
    BY <1>17, Zenon DEF Tick
  <2>3. /\ remaining' = Limit - age' /\ fresh' <= age'
        /\ remaining' \in 0..Limit /\ seen' \in 0..Limit
        /\ age' \in 0..Limit /\ fresh' \in 0..Limit
        /\ seen = remaining => seen' = remaining'
    BY <2>1 DEF Less, More
  <2>4. DeadlineIsAge'
    BY <2>1, <2>2, <2>3 DEF More
  <2>5. UNCHANGED <<main, resume, watcher, lock, isDone, tracePrinted,
                    signalled, left, raced, woken, reports>>
    BY <1>17 DEF Tick
  <2>6. TypeOK'
    BY <2>2, <2>3, <2>5
  <2>7. SeenIsDeadline'
    BY <2>3, <2>5
  <2>8. TimeoutMeansOverrun'
    BY <2>2, <2>5
  <2> QED BY <2>4, <2>5, <2>6, <2>7, <2>8
<1>18. CASE StoreDeadline
  <2>1. /\ main = "reset" /\ main' = "body" /\ watcher # "killed"
        /\ remaining' = Limit - fresh /\ age' = fresh
        /\ UNCHANGED <<resume, watcher, lock, isDone, tracePrinted, signalled,
                       seen, fresh, overran, left, woken, reports>>
    BY <1>18 DEF StoreDeadline, StartsSubtest, Alive
  <2>2. raced' \in BOOLEAN /\ (watcher = "compare" \/ raced => raced')
    BY <1>18, Zenon DEF StoreDeadline, StartsSubtest
  <2> QED BY <2>1, <2>2
<1>19. CASE LoadDeadline
  BY <1>19 DEF LoadDeadline
<1>20. CASE UNCHANGED vars
  BY <1>20 DEF vars
<1> QED
  BY <1>1, <1>2, <1>3, <1>4, <1>5, <1>6, <1>7, <1>8, <1>9, <1>10, <1>11,
     <1>12, <1>13, <1>14, <1>15, <1>16, <1>17, <1>18, <1>19, <1>20
  DEF Next, Main, Handle, Watch, Terminated

THEOREM IInvHolds == Spec => []IInv
BY IInvInit, IInvNext, PTL DEF Spec

\* Every variable keeps its type.
THEOREM TypeHolds == Spec => []TypeOK
<1>1. IInv => TypeOK
  BY DEF IInv
<1> QED BY <1>1, IInvHolds, PTL

\* A test gets one verdict, its own or a timeout (384-397, 410-416).
THEOREM OneVerdictHolds == Spec => []OneVerdict
<1>1. IInv => OneVerdict
  BY DEF IInv, TypeOK, DoneMeansLeft, CountsVerdicts, OneVerdict, TimingOut
<1> QED BY <1>1, IInvHolds, PTL

\* A class is not timed out for the sum of its subtests (399-400, 868-869),
\* but where reset() meets the watcher between its load of the deadline and its
\* look at the clock (386).
THEOREM OverrunHolds == Spec => []TimeoutMeansOverrun
<1>1. IInv => TimeoutMeansOverrun
  BY DEF IInv
<1> QED BY <1>1, IInvHolds, PTL

\* SIGUSR1 never interrupts what the main thread does after the test.
THEOREM InterruptsInside == Spec => []InterruptsInsideOnly
<1>1. IInv => InterruptsInsideOnly
  BY DEF IInv
<1> QED BY <1>1, IInvHolds, PTL

\* As long as the handler sleeps the environment is left to the watcher, from
\* the first to the last moment of taking it down (378-382, 391-394).
THEOREM DisposesSafely == Spec => []DisposesAlone
<1>1. IInv => DisposesAlone
  BY DEF IInv
<1> QED BY <1>1, IInvHolds, PTL
=============================================================================
