---------------------------- MODULE VerdictBoard ----------------------------
(***************************************************************************)
(* What the test supervisor promises about a window of tests, without      *)
(* workers, queues or clocks.  Within a run a verdict is given once and    *)
(* stays; a run reports when every test has one, and reports success only  *)
(* if all passed.  A run may be killed at any time; the next one takes     *)
(* over verdicts from the saved ones and from nowhere else.                *)
(***************************************************************************)
CONSTANTS
    Tests,      \* the window
    Keys        \* what identifies a test to the journal: its name

VARIABLES
    phase,      \* "idle", "running", "done"
    key,        \* the key of each test in the current build
    verdict,    \* of the current run
    saved,      \* <<test, key, verdict>> that survive the run
    exit        \* exit code of a run that is done

vars == <<phase, key, verdict, saved, exit>>

Decided == {"pass", "fail", "hang"}
Verdict == Decided \cup {"unknown"}

Init ==
    /\ phase = "idle"
    /\ key \in [Tests -> Keys]
    /\ verdict = [t \in Tests |-> "unknown"]
    /\ saved = {}
    /\ exit = 0

(* A run starts: a test has a verdict at once only if it was saved for it. *)
Start ==
    /\ phase # "running"
    /\ phase' = "running"
    /\ key' \in [Tests -> Keys]
    /\ verdict' \in [Tests -> Verdict]
    /\ \A t \in Tests :
        verdict'[t] # "unknown" => <<t, key'[t], verdict'[t]>> \in saved
    /\ UNCHANGED <<saved, exit>>

(* A test gets its verdict, which may fail to be saved. *)
Decide(t, v) ==
    /\ phase = "running"
    /\ verdict[t] = "unknown"
    /\ verdict' = [verdict EXCEPT ![t] = v]
    /\ saved' \in {saved, saved \cup {<<t, key[t], v>>}}
    /\ UNCHANGED <<phase, key, exit>>

Report ==
    /\ phase = "running"
    /\ \A t \in Tests : verdict[t] # "unknown"
    /\ phase' = "done"
    /\ exit' = IF \A t \in Tests : verdict[t] = "pass" THEN 0 ELSE 1
    /\ UNCHANGED <<key, verdict, saved>>

Killed ==
    /\ phase = "running"
    /\ phase' = "idle"
    /\ verdict' = [t \in Tests |-> "unknown"]
    /\ UNCHANGED <<key, saved, exit>>

Next ==
    \/ Start
    \/ \E t \in Tests, v \in Decided : Decide(t, v)
    \/ Report
    \/ Killed

Spec == Init /\ [][Next]_vars
=============================================================================
