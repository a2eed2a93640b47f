----------------------------- MODULE TestLedger -----------------------------
(***************************************************************************)
(* What a parallel run of RLTest promises its user, without saying how:    *)
(* every test is handed out once, its result is entered once, failures are *)
(* only ever added, and a summary is printed only for a full ledger.  The  *)
(* run may instead be given up with an error, at any moment.               *)
(***************************************************************************)
CONSTANT Tests

VARIABLES
    status,     \* of each test: queued, then running, then reported
    failing,    \* the names in the failure summary
    outcome     \* open until a summary is printed or the run is given up

vars == <<status, failing, outcome>>

Init ==
    /\ status = [t \in Tests |-> "queued"]
    /\ failing = {}
    /\ outcome = "open"

Take(t) ==
    /\ outcome = "open"
    /\ status[t] = "queued"
    /\ status' = [status EXCEPT ![t] = "running"]
    /\ UNCHANGED <<failing, outcome>>

\* The result of t is entered, with the failures it carries.
Report(t) ==
    /\ outcome = "open"
    /\ status[t] = "running"
    /\ status' = [status EXCEPT ![t] = "reported"]
    /\ \E names \in SUBSET Tests : failing' = failing \cup names
    /\ UNCHANGED outcome

\* Failures found while an environment that outlived its test is taken down.
ReportLate ==
    /\ outcome = "open"
    /\ \E names \in SUBSET Tests : failing' = failing \cup names
    /\ UNCHANGED <<status, outcome>>

Close ==
    /\ outcome = "open"
    /\ \A t \in Tests : status[t] = "reported"
    /\ outcome' = "summary"
    /\ UNCHANGED <<status, failing>>

GiveUp ==
    /\ outcome = "open"
    /\ outcome' = "error"
    /\ UNCHANGED <<status, failing>>

Next ==
    \/ \E t \in Tests : Take(t) \/ Report(t)
    \/ ReportLate
    \/ Close
    \/ GiveUp

\* What a run never does, whether or not it ends.
Safety == Init /\ [][Next]_vars

\* A run does not stay open for ever.
Spec == Safety /\ WF_vars(Close \/ GiveUp)
=============================================================================
