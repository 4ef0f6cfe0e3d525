--------------------------- MODULE TestSupervisor ---------------------------
(***************************************************************************)
(* The parallel test kernel of batch_test_runner.zig: one supervisor       *)
(* process that runs every test of its window in a worker process of its   *)
(* own, at most Jobs at a time, ends the workers that overstay, and        *)
(* journals each verdict so that a run that is killed can be resumed by a  *)
(* run of the same or of a rebuilt binary.                                 *)
(*                                                                         *)
(* The supervisor's loop is the actions named after its steps; the workers *)
(* and the clock take their own steps in between.  Left out: the output    *)
(* and log files, children of a worker that outlive it, and the workers    *)
(* that a killed supervisor leaves behind.                                 *)
(***************************************************************************)
EXTENDS Naturals, Sequences, FiniteSets

CONSTANTS
    Tests,      \* indices of the window [start, end)
    Serial,     \* those whose name matches a serial pattern
    Jobs,       \* number of workers that may run at once
    Builds,     \* binaries that successive runs may use
    Names,
    TestName,   \* the name of each test in each build
    MaxRuns,    \* bound on the runs of the supervisor
    MaxTears    \* bound on journal writes that fail or stop short

ASSUME SupervisorAssumption ==
    /\ Tests \subseteq Nat
    /\ Serial \subseteq Tests
    /\ Jobs \in Nat \ {0}
    /\ TestName \in [Builds -> [Tests -> Names]]
    /\ MaxRuns \in Nat
    /\ MaxTears \in Nat

VARIABLES
    pc,         \* where the supervisor's loop is; "down" if it is not running
    build,      \* the binary of the current run
    verdict,
    parq,       \* tests still to be spawned in the parallel phase
    serq,       \* ... and in the serial phase
    gate,       \* par_all_spawned, read at the top of the loop
    running,    \* tests whose worker has been spawned and not yet reaped
    topoll,     \* those the current sweep has not visited
    timedOut,   \* those sent a SIGTERM
    worker,     \* the worker process of each test of this run
    journal,    \* for each index, the lines of the results file that parse
    torn,       \* the file does not end with a newline
    runs, tears,
    exit,       \* exit code of the last run that finished
    passed      \* history: <<index, name>> of workers that exited with 0 in time

vars == <<pc, build, verdict, parq, serq, gate, running, topoll, timedOut,
          worker, journal, torn, runs, tears, exit, passed>>

supervisor == <<pc, build, verdict, parq, serq, gate, running, topoll, timedOut>>
files == <<journal, torn, tears>>

Decided == {"pass", "fail", "hang"}
Verdict == Decided \cup {"unknown"}
Exited  == {"zero", "nonzero"}    \* nonzero: a code, or the signal that ended it
Process == {"none", "alive", "killed"} \cup Exited
Line    == [name : Names, verdict : Decided]

Name(t) == TestName[build][t]

TypeOK ==
    /\ pc \in {"down", "spawn", "poll", "done"}
    /\ build \in Builds
    /\ verdict \in [Tests -> Verdict]
    /\ parq \subseteq Tests \ Serial
    /\ serq \subseteq Serial
    /\ gate \in BOOLEAN
    /\ running \subseteq Tests
    /\ topoll \subseteq running
    /\ timedOut \subseteq running
    /\ worker \in [Tests -> Process]
    /\ journal \in [Tests -> Seq(Line)]
    /\ torn \in BOOLEAN
    /\ runs \in 0 .. MaxRuns
    /\ tears \in 0 .. MaxTears
    /\ exit \in {0, 1}
    /\ passed \subseteq Tests \X Names

----------------------------------------------------------------------------
(* The journal *)

(* writeJournal and writeAllFd.  A write that fails adds nothing; one that *)
(* stops short leaves part of a line, and the next line is glued to it:    *)
(* neither parses.  (A line that lacks its newline alone counts as short.) *)
WriteJournal(t, v) ==
    \/ /\ LET line == [name |-> Name(t), verdict |-> v]
          IN  journal' = IF torn THEN journal ELSE [journal EXCEPT ![t] = Append(@, line)]
       /\ torn' = FALSE
       /\ UNCHANGED tears
    \/ /\ tears < MaxTears
       /\ torn' \in {torn, TRUE}
       /\ tears' = tears + 1
       /\ UNCHANGED journal

(* mutant: whatever the test at this index was called *)
MatchesIndex(line, b, t) == TRUE

(* A line for index t counts in build b if it names the test that b has there. *)
Matches(line, b, t) == line.name = TestName[b][t]

LinesFor(b, t) == {i \in DOMAIN journal[t] : Matches(journal[t][i], b, t)}

(* The last such line decides. *)
Recorded(b, t) ==
    IF LinesFor(b, t) = {} THEN "unknown"
    ELSE LET last == CHOOSE i \in LinesFor(b, t) : \A j \in LinesFor(b, t) : j <= i
         IN  journal[t][last].verdict

----------------------------------------------------------------------------
(* Starting a run *)

(* mutant: the sweep's position is not reset *)
KeepSweep ==
    /\ running' = {} /\ topoll' = topoll /\ timedOut' = {}
    /\ worker' = [t \in Tests |-> "none"]

NoWorkers ==
    /\ running' = {} /\ topoll' = {} /\ timedOut' = {}
    /\ worker' = [t \in Tests |-> "none"]

(* mutant: every test is queued again *)
QueueAll(recorded) == Tests

Pending(recorded) == {t \in Tests : recorded[t] = "unknown"}

Start(b) ==
    /\ pc \in {"down", "done"}
    /\ runs < MaxRuns
    /\ LET recorded == [t \in Tests |-> Recorded(b, t)]
       IN  /\ verdict' = recorded
           /\ parq' = Pending(recorded) \ Serial
           /\ serq' = Pending(recorded) \cap Serial
           /\ gate' = (Pending(recorded) \subseteq Serial)
    /\ build' = b
    /\ pc' = "spawn"
    /\ NoWorkers
    /\ runs' = runs + 1
    /\ UNCHANGED <<files, exit, passed>>

----------------------------------------------------------------------------
(* The spawn loop *)

First(S) == CHOOSE t \in S : \A u \in S : t <= u

(* mutant: serial tests start as soon as every parallel one was spawned *)
GateWithoutDrain == gate

SerialGate == gate /\ running = {}

CanSpawn(t) ==
    \/ parq # {} /\ t = First(parq)
    \/ parq = {} /\ SerialGate /\ serq # {} /\ t = First(serq)

Dequeue(t) == parq' = parq \ {t} /\ serq' = serq \ {t}

SpawnTurn(t) ==
    /\ pc = "spawn"
    /\ Cardinality(running) < Jobs
    /\ CanSpawn(t)
    /\ Dequeue(t)

Spawn(t) ==
    /\ SpawnTurn(t)
    /\ running' = running \cup {t}
    /\ worker' = [worker EXCEPT ![t] = "alive"]
    /\ UNCHANGED <<pc, build, verdict, gate, topoll, timedOut, files, runs, exit, passed>>

(* mutant: the verdict of a test that was never spawned is not journaled *)
FailUnjournaled(t) ==
    /\ SpawnTurn(t)
    /\ verdict' = [verdict EXCEPT ![t] = "fail"]
    /\ UNCHANGED <<pc, build, gate, running, topoll, timedOut, worker, files, runs, exit, passed>>

(* Ten attempts to fork fail, or the new worker cannot be tracked and is   *)
(* killed: rc 127.                                                         *)
SpawnFails(t) ==
    /\ SpawnTurn(t)
    /\ verdict' = [verdict EXCEPT ![t] = "fail"]
    /\ WriteJournal(t, "fail")
    /\ UNCHANGED <<pc, build, gate, running, topoll, timedOut, worker, runs, exit, passed>>

NothingToSpawn == Cardinality(running) >= Jobs \/ ~\E t \in Tests : CanSpawn(t)

Sweep ==
    /\ pc = "spawn"
    /\ NothingToSpawn
    /\ running # {}
    /\ pc' = "poll"
    /\ topoll' = running
    /\ UNCHANGED <<build, verdict, parq, serq, gate, running, timedOut, worker,
                   files, runs, exit, passed>>

(* "enter serial phase": round the loop again to read the gate *)
EnterSerial ==
    /\ pc = "spawn"
    /\ NothingToSpawn
    /\ running = {}
    /\ parq = {} /\ serq # {}
    /\ gate' = TRUE
    /\ UNCHANGED <<pc, build, verdict, parq, serq, running, topoll, timedOut, worker,
                   files, runs, exit, passed>>

(* mutant: the run ends when the parallel phase has drained *)
ParallelDone == running = {} /\ parq = {}

AllDone == running = {} /\ parq = {} /\ serq = {}

Finish ==
    /\ pc = "spawn"
    /\ NothingToSpawn
    /\ AllDone
    /\ pc' = "done"
    /\ exit' = IF \A t \in Tests : verdict[t] = "pass" THEN 0 ELSE 1
    /\ UNCHANGED <<build, verdict, parq, serq, gate, running, topoll, timedOut, worker,
                   files, runs, passed>>

----------------------------------------------------------------------------
(* The poll sweep *)

(* mutant: the exit status alone decides *)
StatusVerdict(t) == IF worker[t] = "zero" THEN "pass" ELSE "fail"

(* A worker that was sent a SIGTERM hangs, whatever it then exits with.    *)
ReapVerdict(t) ==
    IF t \in timedOut THEN "hang"
    ELSE IF worker[t] = "zero" THEN "pass"
    ELSE "fail"

(* The sweep goes through the workers in the order they were spawned, that *)
(* of their indices.                                                       *)
Visit(t) ==
    /\ pc = "poll"
    /\ topoll # {} /\ t = First(topoll)
    /\ topoll' = topoll \ {t}

Reap(t) ==
    /\ Visit(t)
    /\ worker[t] \in Exited
    /\ verdict' = [verdict EXCEPT ![t] = ReapVerdict(t)]
    /\ WriteJournal(t, ReapVerdict(t))
    /\ running' = running \ {t}
    /\ timedOut' = timedOut \ {t}
    /\ worker' = [worker EXCEPT ![t] = "none"]
    /\ passed' = IF worker[t] = "zero" /\ t \notin timedOut
                 THEN passed \cup {<<t, Name(t)>>} ELSE passed
    /\ UNCHANGED <<pc, build, parq, serq, gate, runs, exit>>

(* killTree(SIGTERM).  Whether a worker's time has run out depends on the  *)
(* clock: each visit may find that it has, or that it has not (StillBusy). *)
Terminate(t) ==
    /\ Visit(t)
    /\ worker[t] \notin Exited
    /\ t \notin timedOut
    /\ timedOut' = timedOut \cup {t}
    /\ UNCHANGED <<pc, build, verdict, parq, serq, gate, running, worker, files, runs, exit, passed>>

(* mutant: a SIGTERM is repeated where a SIGKILL is due *)
TermAgain(t) ==
    /\ Visit(t)
    /\ worker[t] \notin Exited
    /\ t \in timedOut
    /\ UNCHANGED <<pc, build, verdict, parq, serq, gate, running, timedOut, worker,
                   files, runs, exit, passed>>

(* killTree(SIGKILL), every five seconds until the worker is reaped *)
Kill(t) ==
    /\ Visit(t)
    /\ worker[t] \notin Exited
    /\ t \in timedOut
    /\ worker' = [worker EXCEPT ![t] = "killed"]
    /\ UNCHANGED <<pc, build, verdict, parq, serq, gate, running, timedOut,
                   files, runs, exit, passed>>

StillBusy(t) ==
    /\ Visit(t)
    /\ worker[t] \notin Exited
    /\ UNCHANGED <<pc, build, verdict, parq, serq, gate, running, timedOut, worker,
                   files, runs, exit, passed>>

EndSweep ==
    /\ pc = "poll"
    /\ topoll = {}
    /\ pc' = "spawn"
    /\ gate' = (parq = {})
    /\ UNCHANGED <<build, verdict, parq, serq, running, topoll, timedOut, worker,
                   files, runs, exit, passed>>

----------------------------------------------------------------------------
(* Workers, the clock, and the end of a supervisor *)

(* A worker exits by itself, or of the SIGTERM it was sent.                *)
WorkerExits(t, status) ==
    /\ worker[t] = "alive"
    /\ worker' = [worker EXCEPT ![t] = status]
    /\ UNCHANGED <<supervisor, files, runs, exit, passed>>

WorkerDies(t) ==
    /\ worker[t] = "killed"
    /\ worker' = [worker EXCEPT ![t] = "nonzero"]
    /\ UNCHANGED <<supervisor, files, runs, exit, passed>>

(* The supervisor is killed; what it held in memory is lost.  Bounded so   *)
(* that a run may follow.                                                  *)
Crash ==
    /\ pc \in {"spawn", "poll"}
    /\ runs < MaxRuns
    /\ pc' = "down"
    /\ verdict' = [t \in Tests |-> "unknown"]
    /\ parq' = {} /\ serq' = {} /\ gate' = FALSE
    /\ NoWorkers
    /\ UNCHANGED <<build, files, runs, exit, passed>>

----------------------------------------------------------------------------
Init ==
    /\ pc = "down"
    /\ build \in Builds
    /\ verdict = [t \in Tests |-> "unknown"]
    /\ parq = {} /\ serq = {} /\ gate = FALSE
    /\ running = {} /\ topoll = {} /\ timedOut = {}
    /\ worker = [t \in Tests |-> "none"]
    /\ journal = [t \in Tests |-> <<>>] /\ torn = FALSE
    /\ runs = 0 /\ tears = 0
    /\ exit = 0
    /\ passed = {}

Loop ==
    \/ \E t \in Tests : Spawn(t)
    \/ \E t \in Tests : SpawnFails(t)
    \/ Sweep
    \/ EnterSerial
    \/ Finish
    \/ \E t \in Tests : Reap(t)
    \/ \E t \in Tests : Terminate(t)
    \/ \E t \in Tests : Kill(t)
    \/ \E t \in Tests : StillBusy(t)
    \/ EndSweep

Next ==
    \/ \E b \in Builds : Start(b)
    \/ Loop
    \/ \E t \in Tests, status \in Exited : WorkerExits(t, status)
    \/ \E t \in Tests : WorkerDies(t)
    \/ Crash

(* The supervisor's loop runs, a killed process dies and time passes.      *)
(* Nothing makes a worker exit, a test end well, or anyone start a run.    *)
Fairness ==
    /\ WF_vars(Loop)
    /\ WF_vars(\E t \in Tests : WorkerDies(t))
    /\ SF_vars(\E t \in Tests : Terminate(t))
    /\ SF_vars(\E t \in Tests : Kill(t))

Spec == Init /\ [][Next]_vars /\ Fairness

----------------------------------------------------------------------------
(* Properties *)

(* "Serial tests start only once every parallel test has been spawned and  *)
(* all workers have drained": a serial worker runs alone.                  *)
SerialExclusive == \A t \in running \cap Serial : running = {t} /\ parq = {}

(* No test passes unless a worker of this very test exited with 0 in time, *)
(* in this run or in the one whose journal it was resumed from.            *)
NoStalePass == \A t \in Tests : verdict[t] = "pass" => <<t, Name(t)>> \in passed

(* As long as every write went through, the journal would give back every  *)
(* verdict of the run, and nothing it is still to decide: a killed run     *)
(* loses nothing.                                                          *)
JournalComplete ==
    pc # "down" /\ tears = 0 => \A t \in Tests : Recorded(build, t) = verdict[t]

(* A test has one readable line at most under its name, so the count of    *)
(* resumed tests cannot exceed the window (window_len - done_count).       *)
OneLineEach == \A b \in Builds, t \in Tests : Cardinality(LinesFor(b, t)) <= 1

(* A hang is only reported of a worker that overstayed, and one that       *)
(* overstayed is never reported to have passed.                            *)
TimedOutHangs ==
    [][\A t \in Tests : (t \in timedOut /\ pc = "poll" /\ verdict'[t] # verdict[t])
                            => verdict'[t] = "hang"]_vars

(* A run that is not killed ends, whatever its workers do.                 *)
RunEnds == (pc = "spawn") ~> (pc \in {"done", "down"})

Board ==
    INSTANCE VerdictBoard WITH
        Keys    <- Names,
        phase   <- CASE pc = "down" -> "idle" [] pc = "done" -> "done" [] OTHER -> "running",
        key     <- TestName[build],
        saved   <- UNION {{<<t, journal[t][i].name, journal[t][i].verdict>> :
                            i \in DOMAIN journal[t]} : t \in Tests}

(* The supervisor keeps the promises of VerdictBoard.                      *)
KeepsPromises == Board!Spec
=============================================================================
