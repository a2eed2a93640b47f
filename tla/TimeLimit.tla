------------------------------ MODULE TimeLimit ------------------------------
(***************************************************************************)
(* TestTimeLimit: a test runs in the main thread of its process while a    *)
(* watcher thread looks at the clock.  Either the main thread leaves the   *)
(* guarded block, or the watcher interrupts it with SIGUSR1, waits for the *)
(* handler to print the trace, takes the environment down, reports the     *)
(* timeout and ends the process with os._exit.  Both may happen at about   *)
(* the same time; a condition's lock decides.  The deadline is not under    *)
(* that lock: the watcher loads it and then looks at the clock, reset looks *)
(* at the clock and then stores it, each in two steps.                     *)
(***************************************************************************)
EXTENDS Naturals

CONSTANTS
    Limit,      \* --test-timeout, in ticks (0 means no watcher at all)
    Subtests    \* how often run_single_test resets the limit

ASSUME TimeLimitAssumption == Limit \in Nat \ {0} /\ Subtests \in Nat

VARIABLES
    main,           \* where the main thread is
    resume,         \* where it was when the signal handler interrupted it
    watcher,        \* where the watcher thread is
    lock,           \* who holds the lock of condition: main, watcher, free
    isDone,         \* is_done
    tracePrinted,   \* trace_printed
    signalled,      \* SIGUSR1 is pending
    remaining,      \* timeout_time - time.time(), not below 0
    seen,           \* the same of the timeout_time the watcher has loaded
    fresh,          \* time since reset looked at the clock, up to Limit
    left,           \* subtests still to come
    age,            \* history: time the subtest has taken, up to Limit
    overran,        \* history: some subtest took Limit or longer
    raced,          \* history: reset stored a deadline after the last load and
                    \* before the look at the clock that belongs to it
    woken,          \* history: the sleep of the handler ended
    reports         \* history: verdicts given, by main thread and watcher

clock == <<remaining, seen, fresh, age, overran>>
flags == <<isDone, tracePrinted, signalled>>
history == <<raced, woken, reports>>
vars == <<main, resume, watcher, lock, flags, clock, left, history>>

TypeOK ==
    /\ main \in {"enter", "body", "reset", "leave", "left", "returned",
                 "handler", "asleep"}
    /\ resume \in {"enter", "body", "reset", "leave", "left", "returned"}
    /\ watcher \in {"none", "start", "check", "compare", "wait", "signal",
                    "spin", "dispose", "exit", "gone", "killed"}
    /\ lock \in {"free", "watcher"}
    /\ isDone \in BOOLEAN /\ tracePrinted \in BOOLEAN
    /\ signalled \in BOOLEAN /\ overran \in BOOLEAN
    /\ raced \in BOOLEAN /\ woken \in BOOLEAN
    /\ remaining \in 0..Limit /\ seen \in 0..Limit /\ fresh \in 0..Limit
    /\ left \in 0..Subtests
    /\ age \in 0..Limit
    /\ reports \in 0..2

Init ==
    /\ main = "enter"
    /\ resume = "enter"
    /\ watcher = "none"
    /\ lock = "free"
    /\ isDone = FALSE
    /\ tracePrinted = FALSE
    /\ signalled = FALSE
    /\ remaining = Limit /\ seen = Limit
    /\ fresh = 0 /\ age = 0
    /\ left = Subtests
    /\ overran = FALSE /\ raced = FALSE /\ woken = FALSE
    /\ reports = 0

\* os._exit(1) ends every thread.
Alive == watcher # "killed"

-----------------------------------------------------------------------------
\* __enter__: the handler is installed, the watcher thread started.
Enter ==
    /\ main = "enter"
    /\ main' = "body"
    /\ watcher' = "start"
    /\ UNCHANGED <<resume, lock, flags, clock, left, history>>

\* reset() before the next subtest: first time.time() is called ...
StartReset ==
    /\ Alive
    /\ main = "body"
    /\ left > 0
    /\ left' = left - 1
    /\ fresh' = 0
    /\ main' = "reset"
    /\ UNCHANGED <<resume, watcher, lock, flags, remaining, seen, age, overran,
                   history>>

\* The subtest that starts is timed from there, and the one before ends here.
StartsSubtest ==
    /\ Alive
    /\ main = "reset"
    /\ main' = "body"
    /\ age' = fresh
    /\ raced' = (raced \/ watcher = "compare")
    /\ UNCHANGED <<resume, watcher, lock, flags, seen, fresh, overran, left,
                   woken, reports>>

\* Fault: the deadline is moved by the limit, not to the limit.
StoreMovedDeadline == StartsSubtest /\ remaining' = remaining + Limit

\* Fault: the deadline stays where it is.
StoreNothing == StartsSubtest /\ UNCHANGED remaining

\* ... then timeout_time is set; no lock is taken.
StoreDeadline == StartsSubtest /\ remaining' = Limit - fresh

\* The guarded block ends, by its end, a return or an exception.
EndBody ==
    /\ Alive
    /\ main = "body"
    /\ main' = "leave"
    /\ UNCHANGED <<resume, watcher, lock, flags, clock, left, history>>

\* Fault: is_done is set without the condition's lock.
LeaveUnlocked ==
    /\ Alive
    /\ main = "leave"
    /\ isDone' = TRUE
    /\ main' = "left"
    /\ UNCHANGED <<resume, watcher, lock, tracePrinted, signalled, clock, left,
                   history>>

\* Fault: the watcher is not told that the test is over.
LeaveSilently ==
    /\ Alive
    /\ main = "leave"
    /\ lock = "free"
    /\ main' = "left"
    /\ UNCHANGED <<resume, watcher, lock, flags, clock, left, history>>

\* __exit__: acquire, is_done = True, notify, release.
Leave ==
    /\ Alive
    /\ main = "leave"
    /\ lock = "free"
    /\ isDone' = TRUE
    /\ main' = "left"
    /\ UNCHANGED <<resume, watcher, lock, tracePrinted, signalled, clock, left,
                   history>>

\* run_single_test returns and its caller enters the result of the test.
ReportResult ==
    /\ Alive
    /\ main = "left"
    /\ main' = "returned"
    /\ reports' = reports + 1
    /\ UNCHANGED <<resume, watcher, lock, flags, clock, left, raced, woken>>

\* Python runs the handler in the main thread, wherever that is; the wait for
\* a lock is interrupted too.
DeliverSignal ==
    /\ Alive
    /\ signalled
    /\ main \notin {"handler", "asleep"}
    /\ signalled' = FALSE
    /\ resume' = main
    /\ main' = "handler"
    /\ UNCHANGED <<watcher, lock, isDone, tracePrinted, clock, left, history>>

\* Fault: the handler does not tell the watcher that it has run.
PrintTraceSilently ==
    /\ Alive
    /\ main = "handler"
    /\ main' = "asleep"
    /\ UNCHANGED <<resume, watcher, lock, flags, clock, left, history>>

\* on_timeout, the signal handler, prints the trace and sleeps.
PrintTrace ==
    /\ Alive
    /\ main = "handler"
    /\ tracePrinted' = TRUE
    /\ main' = "asleep"
    /\ UNCHANGED <<resume, watcher, lock, isDone, signalled, clock, left,
                   history>>

\* The sleep of 1000 seconds ends while the environment is being taken down:
\* the main thread goes on where it was interrupted.
WakeUp ==
    /\ Alive
    /\ main = "asleep"
    /\ watcher \in {"dispose", "exit"}
    /\ main' = resume
    /\ woken' = TRUE
    /\ UNCHANGED <<resume, watcher, lock, flags, clock, left, raced, reports>>

-----------------------------------------------------------------------------
\* The watcher acquires the condition, first or again after a wait.
Acquire ==
    /\ watcher \in {"start", "wait"}
    /\ lock = "free"
    /\ lock' = "watcher"
    /\ watcher' = "check"
    /\ UNCHANGED <<main, resume, flags, clock, left, history>>

\* The test is over: the thread ends, without releasing the lock.
GoAway ==
    /\ watcher = "check"
    /\ isDone
    /\ watcher' = "gone"
    /\ UNCHANGED <<main, resume, lock, flags, clock, left, history>>

\* The test is not over, and will not be while the watcher has the lock:
\* timeout_time is loaded, and after it time.time() is called.
LoadDeadline ==
    /\ watcher = "check"
    /\ ~isDone
    /\ watcher' = "compare"
    /\ seen' = remaining
    /\ raced' = FALSE
    /\ UNCHANGED <<main, resume, lock, flags, remaining, fresh, age, overran,
                   left, woken, reports>>

\* condition.wait releases the lock for at most 0.1 seconds.
WaitMore ==
    /\ watcher = "compare"
    /\ seen > 0
    /\ watcher' = "wait"
    /\ lock' = "free"
    /\ UNCHANGED <<main, resume, flags, clock, left, history>>

\* The deadline that was loaded has passed.
Expire ==
    /\ watcher = "compare"
    /\ seen = 0
    /\ watcher' = "signal"
    /\ UNCHANGED <<main, resume, lock, flags, clock, left, history>>

SendSignal ==
    /\ watcher = "signal"
    /\ signalled' = TRUE
    /\ watcher' = "spin"
    /\ UNCHANGED <<main, resume, lock, isDone, tracePrinted, clock, left,
                   history>>

\* Fault: the watcher does not wait for the handler.
SeeNoTrace ==
    /\ watcher = "spin"
    /\ watcher' = "dispose"
    /\ UNCHANGED <<main, resume, lock, flags, clock, left, history>>

\* while not self.trace_printed: time.sleep(0.1)
SeeTrace ==
    /\ watcher = "spin"
    /\ tracePrinted
    /\ watcher' = "dispose"
    /\ UNCHANGED <<main, resume, lock, flags, clock, left, history>>

\* timeout_func: the environment is killed, the timeout reported.
Dispose ==
    /\ watcher = "dispose"
    /\ reports' = reports + 1
    /\ watcher' = "exit"
    /\ UNCHANGED <<main, resume, lock, flags, clock, left, raced, woken>>

ExitProcess ==
    /\ watcher = "exit"
    /\ watcher' = "killed"
    /\ UNCHANGED <<main, resume, lock, flags, clock, left, history>>

-----------------------------------------------------------------------------
\* A time left and a time taken; more than Limit is not told apart.
Less(t) == IF t > 0 THEN t - 1 ELSE 0
More(t) == IF t < Limit THEN t + 1 ELSE Limit

\* Time passes while the test runs.
Tick ==
    /\ Alive
    /\ main \in {"body", "reset", "leave"}
    /\ remaining > 0 \/ seen > 0 \/ age < Limit
    /\ remaining' = Less(remaining) /\ seen' = Less(seen)
    /\ age' = More(age) /\ fresh' = More(fresh)
    /\ overran' = (overran \/ age + 1 >= Limit)
    /\ UNCHANGED <<main, resume, watcher, lock, flags, left, history>>

Over == (main = "returned" /\ watcher = "gone") \/ ~Alive

Terminated == Over /\ UNCHANGED vars

Handle == DeliverSignal \/ PrintTrace

Watch == Acquire \/ GoAway \/ LoadDeadline \/ WaitMore \/ Expire \/ SendSignal
            \/ SeeTrace \/ Dispose \/ ExitProcess

Main == Enter \/ StartReset \/ StoreDeadline \/ EndBody \/ Leave
            \/ ReportResult \/ WakeUp

Next == Main \/ Handle \/ Watch \/ Tick \/ Terminated

\* The watcher and the clock go on and signals reach the main thread.  Nothing
\* is assumed of the test itself: it may hang for ever.
Fairness ==
    /\ WF_vars(Watch) /\ WF_vars(Tick) /\ WF_vars(Handle)
    /\ WF_vars(Enter) /\ WF_vars(ReportResult)

Spec == Init /\ [][Next]_vars /\ Fairness

-----------------------------------------------------------------------------
TimingOut == watcher \in {"signal", "spin", "dispose", "exit", "killed"}

\* A test gets one verdict: never both its own result and a timeout, even when
\* it ends while the deadline passes or the main thread wakes up too early.
OneVerdict ==
    /\ reports <= 1
    /\ ~(TimingOut /\ (isDone \/ main \in {"left", "returned"}))

\* A timeout is only declared if one subtest, its reset included, used up the
\* whole limit by itself: each starts with the full limit (868-869).  The one
\* exception is the window the code leaves open: a reset() that stores its
\* deadline after the watcher has loaded the old one and before it looks at
\* the clock (386, 400).
TimeoutMeansOverrun == TimingOut => overran \/ raced

\* The handler only ever interrupts the guarded block or the wait for its
\* lock, never what runs after the test (such as the put of its result).
InterruptsInsideOnly ==
    main \in {"handler", "asleep"} => resume \in {"body", "reset", "leave"}

\* While the watcher takes the environment down the main thread sleeps in the
\* handler, so the two never use the environment at once: until the 1000
\* seconds of that sleep are over (382), after which nothing keeps them apart.
DisposesAlone == watcher = "dispose" => main = "asleep" \/ woken

\* Under --test-timeout the end of a test does not depend on the test: each
\* entered test is reported or its process ends.
EveryTestEnds == <>Over
=============================================================================
