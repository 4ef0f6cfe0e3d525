------------------------ MODULE TestSupervisorProofs ------------------------
(* Proofs about TestSupervisor, for every window, set of builds and number   *)
(* of jobs, runs and failed writes.                                          *)
EXTENDS TestSupervisor, TLAPS, FiniteSetTheorems, SequenceTheorems, WellFoundedInduction

----------------------------------------------------------------------------
(* Queues *)

LEMMA FirstOf ==
    ASSUME NEW S, S \subseteq Nat, S # {}
    PROVE  First(S) \in S
<1> DEFINE R == OpToRel(<, Nat)
<1>1. IsWellFoundedOn(R, Nat)
  BY NatLessThanWellFounded
<1>2. \A x, y \in Nat : y < x => <<y, x>> \in R
  BY DEF OpToRel
<1> HIDE DEF R
<1>3. PICK x \in S : \A y \in S : ~ (<<y, x>> \in R)
  BY <1>1, WFMin
<1>4. ASSUME NEW y \in S PROVE x <= y
  <2>1. x \in Nat /\ y \in Nat /\ ~ (y < x)
    BY <1>2, <1>3
  <2> QED  BY <2>1
<1> QED  BY <1>4 DEF First

(* The test a turn of the spawn loop takes: it was queued, the other tests   *)
(* stay queued, and a serial one is taken when nothing else is there.        *)
LEMMA TurnTakes ==
    ASSUME TypeOK, NEW t \in Tests, SpawnTurn(t)
    PROVE  /\ pc = "spawn"
           /\ t \in parq \cup serq
           /\ parq' = parq \ {t} /\ serq' = serq \ {t}
           /\ \/ t \in parq /\ t \notin Serial
              \/ t \in serq /\ parq = {} /\ running = {}
<1>1. pc = "spawn" /\ CanSpawn(t) /\ Dequeue(t)
  BY DEF SpawnTurn
<1>2. parq \subseteq Tests \ Serial /\ serq \subseteq Serial /\ Tests \subseteq Nat /\ Serial \subseteq Tests
  BY SupervisorAssumption DEF TypeOK
<1>3. CASE parq # {} /\ t = First(parq)
  <2>1. t \in parq
    BY <1>2, <1>3, FirstOf
  <2> QED  BY <1>1, <1>2, <2>1 DEF Dequeue
<1>4. CASE parq = {} /\ SerialGate /\ serq # {} /\ t = First(serq)
  <2>1. serq \subseteq Nat /\ serq # {}
    BY <1>2, <1>4
  <2>2. t \in serq
    BY <1>4, <2>1, FirstOf
  <2> QED  BY <1>1, <1>4, <2>2 DEF Dequeue, SerialGate
<1> QED  BY <1>1, <1>3, <1>4 DEF CanSpawn

----------------------------------------------------------------------------
(* The journal *)

Journal == [Tests -> Seq(Line)]

LinesIn(lines, name) == {i \in DOMAIN lines : lines[i].name = name}

(* No two lines of one name.                                                 *)
OnceIn(lines) == \A i, j \in DOMAIN lines : lines[i].name = lines[j].name => i = j

RecordedIn(lines, name) ==
    IF LinesIn(lines, name) = {} THEN "unknown"
    ELSE LET last == CHOOSE i \in LinesIn(lines, name) : \A j \in LinesIn(lines, name) : j <= i
         IN  lines[last].verdict

LEMMA Reading == \A b, t : /\ LinesFor(b, t) = LinesIn(journal[t], TestName[b][t])
                           /\ Recorded(b, t) = RecordedIn(journal[t], TestName[b][t])
BY DEF LinesFor, Matches, LinesIn, Recorded, RecordedIn

(* What is read from lines without repetition: nothing, or the verdict of    *)
(* the one line of that name.                                                *)
LEMMA RecordedIs ==
    ASSUME NEW lines \in Seq(Line), OnceIn(lines), NEW name
    PROVE  /\ LinesIn(lines, name) = {} => RecordedIn(lines, name) = "unknown"
           /\ \A i \in LinesIn(lines, name) : RecordedIn(lines, name) = lines[i].verdict
<1>1. ASSUME NEW i \in LinesIn(lines, name) PROVE RecordedIn(lines, name) = lines[i].verdict
  <2>1. i \in Nat
    BY DEF LinesIn
  <2>2. \A j \in LinesIn(lines, name) : j = i
    BY DEF OnceIn, LinesIn
  <2>3. \A j \in LinesIn(lines, name) : j <= i
    BY <2>1, <2>2
  <2>4. (CHOOSE k \in LinesIn(lines, name) : \A j \in LinesIn(lines, name) : j <= k) = i
    BY <1>1, <2>2, <2>3
  <2> QED  BY <1>1, <2>4 DEF RecordedIn
<1> QED  BY <1>1 DEF RecordedIn

LEMMA RecordedType ==
    ASSUME NEW lines \in Seq(Line), OnceIn(lines), NEW name
    PROVE  /\ RecordedIn(lines, name) \in Verdict
           /\ RecordedIn(lines, name) = "unknown" <=> LinesIn(lines, name) = {}
           /\ RecordedIn(lines, name) # "unknown" =>
                \E i \in DOMAIN lines :
                    lines[i].name = name /\ lines[i].verdict = RecordedIn(lines, name)
<1>1. \A i \in LinesIn(lines, name) : /\ i \in DOMAIN lines /\ lines[i] \in Line
                                       /\ lines[i].name = name
  BY DEF LinesIn
<1>2. \A i \in LinesIn(lines, name) : lines[i].verdict \in Decided
  BY <1>1 DEF Line
<1>3. CASE LinesIn(lines, name) = {}
  BY <1>3, RecordedIs DEF Verdict
<1>4. CASE LinesIn(lines, name) # {}
  <2>1. PICK i \in LinesIn(lines, name) : TRUE
    BY <1>4
  <2>2. RecordedIn(lines, name) = lines[i].verdict
    BY <2>1, RecordedIs
  <2>3. RecordedIn(lines, name) \in Decided
    BY <1>2, <2>1, <2>2
  <2>4. RecordedIn(lines, name) # "unknown"
    BY <2>3 DEF Decided
  <2> QED  BY <1>1, <1>4, <2>1, <2>2, <2>3, <2>4 DEF Verdict
<1> QED  BY <1>3, <1>4

(* A line of a new name keeps the lines apart and is what is read of it.     *)
LEMMA AppendedLine ==
    ASSUME NEW lines \in Seq(Line), OnceIn(lines), NEW line \in Line,
           LinesIn(lines, line.name) = {}
    PROVE  LET more == Append(lines, line)
           IN  /\ more \in Seq(Line) /\ OnceIn(more)
               /\ RecordedIn(more, line.name) = line.verdict
               /\ \A name : name # line.name => LinesIn(more, name) = LinesIn(lines, name)
               /\ \A i \in DOMAIN more : more[i] = line \/ (i \in DOMAIN lines /\ more[i] = lines[i])
               /\ \A i \in DOMAIN lines : i \in DOMAIN more /\ more[i] = lines[i]
               /\ \E i \in DOMAIN more : more[i] = line
<1> DEFINE more == Append(lines, line)
<1>1. more \in Seq(Line)
  OBVIOUS
<1>2. /\ DOMAIN more = 1 .. Len(lines) + 1 /\ DOMAIN lines = 1 .. Len(lines)
      /\ more[Len(lines) + 1] = line /\ Len(lines) \in Nat
      /\ \A i \in 1 .. Len(lines) : more[i] = lines[i]
  OBVIOUS
<1> HIDE DEF more
<1>3. \A i \in DOMAIN more : i = Len(lines) + 1 \/ (i \in DOMAIN lines /\ more[i] = lines[i])
  BY <1>2
<1>4. \A i \in DOMAIN lines : i \in DOMAIN more /\ more[i] = lines[i] /\ lines[i].name # line.name
  BY <1>2 DEF LinesIn
<1>5. OnceIn(more)
  BY <1>2, <1>3, <1>4 DEF OnceIn
<1>6. Len(lines) + 1 \in LinesIn(more, line.name)
  BY <1>2 DEF LinesIn
<1>7. RecordedIn(more, line.name) = line.verdict
  BY <1>1, <1>2, <1>5, <1>6, RecordedIs
<1>8. ASSUME NEW name, name # line.name PROVE LinesIn(more, name) = LinesIn(lines, name)
  BY <1>2, <1>3, <1>4, <1>8 DEF LinesIn
<1>9. \A i \in DOMAIN more : more[i] = line \/ (i \in DOMAIN lines /\ more[i] = lines[i])
  BY <1>2, <1>3
<1>10. \E i \in DOMAIN more : more[i] = line
  BY <1>2
<1> QED  BY <1>1, <1>4, <1>5, <1>7, <1>8, <1>9, <1>10 DEF more

(* A write adds one line to one index, or nothing.                           *)
LEMMA WriteAdds ==
    ASSUME TypeOK, NEW t \in Tests, NEW v \in Decided, WriteJournal(t, v)
    PROVE  /\ journal' \in Journal
           /\ torn' \in BOOLEAN /\ tears' \in 0 .. MaxTears
           /\ \A u \in Tests \ {t} : journal'[u] = journal[u]
           /\ \/ journal' = journal
              \/ journal'[t] = Append(journal[t], [name |-> Name(t), verdict |-> v])
           /\ tears' = 0 => tears = 0 /\ torn' = FALSE
           /\ tears' = 0 /\ ~torn =>
                journal'[t] = Append(journal[t], [name |-> Name(t), verdict |-> v])
<1> DEFINE line == [name |-> Name(t), verdict |-> v]
<1>1. Name(t) \in Names
  BY SupervisorAssumption DEF Name, TypeOK
<1>2. line \in Line
  BY <1>1 DEF Line
<1>3. journal \in Journal /\ torn \in BOOLEAN /\ tears \in 0 .. MaxTears /\ MaxTears \in Nat
  BY SupervisorAssumption DEF TypeOK, Journal
<1>4. [journal EXCEPT ![t] = Append(@, line)] \in Journal
  <2>1. journal[t] \in Seq(Line)
    BY <1>3 DEF Journal
  <2>2. Append(journal[t], line) \in Seq(Line)
    BY <1>2, <2>1
  <2> QED  BY <1>3, <2>2 DEF Journal
<1>5. CASE /\ journal' = IF torn THEN journal ELSE [journal EXCEPT ![t] = Append(@, line)]
           /\ torn' = FALSE
           /\ tears' = tears
  <2> DEFINE Added == journal'[t] = Append(journal[t], line)
  <2>0. torn' \in BOOLEAN /\ tears' \in 0 .. MaxTears /\ (tears' = 0 => tears = 0 /\ torn' = FALSE)
    BY <1>3, <1>5
  <2> SUFFICES /\ journal' \in Journal
               /\ \A u \in Tests \ {t} : journal'[u] = journal[u]
               /\ journal' = journal \/ Added
               /\ ~torn => Added
    BY <2>0
  <2>1. CASE torn
    <3>1. journal' = journal
      BY <1>5, <2>1
    <3> QED  BY <1>3, <2>1, <3>1
  <2>2. CASE ~torn
    <3>1. journal' = [journal EXCEPT ![t] = Append(@, line)]
      BY <1>5, <2>2
    <3>2. journal'[t] = Append(journal[t], line) /\ \A u \in Tests \ {t} : journal'[u] = journal[u]
      BY <1>3, <3>1 DEF Journal
    <3> QED  BY <1>4, <3>1, <3>2
  <2> QED  BY <2>1, <2>2
<1>6. CASE tears < MaxTears /\ torn' \in {torn, TRUE} /\ tears' = tears + 1 /\ journal' = journal
  <2>1. tears' # 0 /\ tears' \in 0 .. MaxTears
    BY <1>3, <1>6
  <2> QED  BY <1>3, <1>6, <2>1
<1> QED  BY <1>5, <1>6 DEF WriteJournal

----------------------------------------------------------------------------
(* The invariant *)

Open == parq \cup serq \cup running      \* tests of this run still to be decided

(* What the verdicts, the queues and the journal have to do with each other. *)
Books ==
    /\ \A t \in Tests : OnceIn(journal[t])
    /\ \A t \in running : t \notin parq /\ t \notin serq
    /\ \A t \in Open : verdict[t] = "unknown" /\ LinesIn(journal[t], TestName[build][t]) = {}
    /\ pc # "down" => \A t \in Tests \ Open : verdict[t] # "unknown"
    /\ pc = "down" => verdict = [t \in Tests |-> "unknown"]
    /\ pc \in {"down", "done"} => Open = {}

(* The steps of the supervisor, as far as verdicts, queues and journal are   *)
(* concerned.                                                                *)
Keeps == /\ build' = build /\ verdict' = verdict
         /\ journal' = journal /\ torn' = torn /\ tears' = tears /\ passed' = passed

Quiet == /\ Keeps /\ exit' = exit /\ parq' = parq /\ serq' = serq /\ running' = running
         /\ \/ pc' = pc
            \/ pc \in {"spawn", "poll"} /\ pc' \in {"spawn", "poll"}

Takes(t) == /\ Keeps /\ exit' = exit /\ pc = "spawn" /\ pc' = pc
            /\ t \in parq \cup serq
            /\ \/ t \in parq /\ t \notin Serial
               \/ t \in serq /\ parq = {} /\ running = {}
            /\ parq' = parq \ {t} /\ serq' = serq \ {t} /\ running' = running \cup {t}

Decides(t, v) ==
    /\ pc \in {"spawn", "poll"} /\ pc' = pc /\ build' = build /\ exit' = exit
    /\ t \in Open
    /\ parq' = parq \ {t} /\ serq' = serq \ {t} /\ running' = running \ {t}
    /\ verdict' = [verdict EXCEPT ![t] = v]
    /\ WriteJournal(t, v)
    /\ passed' = IF v = "pass" THEN passed \cup {<<t, Name(t)>>} ELSE passed
    /\ pc = "poll" /\ t \in timedOut => v = "hang"

Ends == /\ Keeps
        /\ pc = "spawn" /\ pc' = "done"
        /\ Open = {} /\ parq' = parq /\ serq' = serq /\ running' = running
        /\ exit' = IF \A t \in Tests : verdict[t] = "pass" THEN 0 ELSE 1

LEMMA SpawnDecides ==
    ASSUME TypeOK, Books, NEW t \in Tests, SpawnFails(t)
    PROVE  Decides(t, "fail")
<1>1. SpawnTurn(t) /\ t \notin running
  BY TurnTakes DEF SpawnFails, Books
<1>2. running' = running \ {t} /\ t \in Open
  BY <1>1, TurnTakes DEF SpawnFails, Open
<1> QED  BY <1>1, <1>2, TurnTakes DEF SpawnFails, Decides

LEMMA VisitTakes ==
    ASSUME TypeOK, NEW t, Visit(t)
    PROVE  pc = "poll" /\ t \in topoll /\ t \in running /\ topoll' = topoll \ {t}
<1>1. topoll \subseteq Nat /\ topoll \subseteq running
  BY SupervisorAssumption DEF TypeOK
<1> QED  BY <1>1, FirstOf DEF Visit

LEMMA ReapDecides ==
    ASSUME TypeOK, Books, NEW t \in Tests, Reap(t)
    PROVE  ReapVerdict(t) \in Decided /\ Decides(t, ReapVerdict(t))
<1>1. pc = "poll" /\ t \in running /\ t \notin parq /\ t \notin serq
  BY VisitTakes DEF Reap, Books
<1>2. parq' = parq \ {t} /\ serq' = serq \ {t} /\ t \in Open
  BY <1>1 DEF Reap, Open
<1>3. passed' = IF ReapVerdict(t) = "pass" THEN passed \cup {<<t, Name(t)>>} ELSE passed
  BY DEF Reap, ReapVerdict
<1>4. t \in timedOut => ReapVerdict(t) = "hang"
  BY DEF ReapVerdict
<1>5. ReapVerdict(t) \in Decided
  BY DEF ReapVerdict, Decided
<1> QED  BY <1>1, <1>2, <1>3, <1>4, <1>5 DEF Reap, Decides

(* Every step is of one of these kinds.                                      *)
LEMMA StepKinds ==
    ASSUME TypeOK, Books, [Next]_vars
    PROVE  \/ Quiet
           \/ \E t \in Tests : Takes(t)
           \/ \E t \in Tests, v \in Decided : Decides(t, v)
           \/ \E b \in Builds : Start(b)
           \/ Ends
           \/ Crash
<1>1. ASSUME NEW t \in Tests, Spawn(t) PROVE Takes(t)
  <2>1. SpawnTurn(t)
    BY <1>1 DEF Spawn
  <2> QED  BY <1>1, <2>1, TurnTakes DEF Spawn, Takes, Keeps, files
<1>2. ASSUME NEW t \in Tests, SpawnFails(t) PROVE Decides(t, "fail") /\ "fail" \in Decided
  BY <1>2, SpawnDecides DEF Decided
<1>3. ASSUME Sweep \/ EnterSerial \/ EndSweep PROVE Quiet
  BY <1>3 DEF Sweep, EnterSerial, EndSweep, Quiet, Keeps, files
<1>4. ASSUME Finish PROVE Ends
  BY <1>4 DEF Finish, AllDone, Ends, Keeps, files, Open
<1>5. ASSUME NEW t \in Tests, Reap(t) PROVE ReapVerdict(t) \in Decided /\ Decides(t, ReapVerdict(t))
  BY <1>5, ReapDecides
<1>6. ASSUME NEW t \in Tests, Terminate(t) \/ Kill(t) \/ StillBusy(t) PROVE Quiet
  BY <1>6 DEF Terminate, Kill, StillBusy, Quiet, Keeps, files
<1>7. ASSUME NEW t \in Tests, NEW status \in Exited, WorkerExits(t, status) \/ WorkerDies(t) PROVE Quiet
  BY <1>7 DEF WorkerExits, WorkerDies, Quiet, Keeps, files, supervisor
<1>8. CASE UNCHANGED vars
  BY <1>8 DEF vars, Quiet, Keeps
<1>9. "zero" \in Exited
  BY DEF Exited
<1> QED  BY <1>1, <1>2, <1>3, <1>4, <1>5, <1>6, <1>7, <1>8, <1>9 DEF Next, Loop

----------------------------------------------------------------------------
(* The kinds of step preserve Books *)

(* Reading the journal under the names of another build.                     *)
LEMMA StartReads ==
    ASSUME TypeOK, Books, NEW b \in Builds, Start(b)
    PROVE  /\ verdict' \in [Tests -> Verdict]
           /\ \A t \in Tests : verdict'[t] = RecordedIn(journal[t], TestName[b][t])
           /\ \A t \in Tests : t \in parq' \/ t \in serq' <=> verdict'[t] = "unknown"
           /\ \A t \in Tests : verdict'[t] = "unknown" <=> LinesIn(journal[t], TestName[b][t]) = {}
           /\ parq' \subseteq Tests \ Serial /\ serq' \subseteq Serial
           /\ running' = {} /\ pc' = "spawn" /\ build' = b /\ pc \in {"down", "done"}
           /\ journal' = journal /\ torn' = torn /\ tears' = tears
           /\ passed' = passed /\ exit' = exit
<1> DEFINE recorded == [t \in Tests |-> Recorded(b, t)]
<1>1. /\ verdict' = recorded
      /\ parq' = Pending(recorded) \ Serial /\ serq' = Pending(recorded) \cap Serial
      /\ running' = {} /\ pc' = "spawn" /\ build' = b /\ pc \in {"down", "done"}
      /\ journal' = journal /\ torn' = torn /\ tears' = tears
      /\ passed' = passed /\ exit' = exit
  BY DEF Start, NoWorkers, files
<1>2. \A t \in Tests : recorded[t] = RecordedIn(journal[t], TestName[b][t])
  BY Reading
<1>3. ASSUME NEW t \in Tests
      PROVE  /\ RecordedIn(journal[t], TestName[b][t]) \in Verdict
             /\ (RecordedIn(journal[t], TestName[b][t]) = "unknown"
                    <=> LinesIn(journal[t], TestName[b][t]) = {})
  BY RecordedType DEF TypeOK, Books
<1>4. verdict' \in [Tests -> Verdict]
  <2>1. ASSUME NEW t \in Tests PROVE Recorded(b, t) \in Verdict
    <3>1. Recorded(b, t) = RecordedIn(journal[t], TestName[b][t])
      BY Reading
    <3> QED  BY <1>3, <3>1
  <2>2. recorded \in [Tests -> Verdict]
    BY <2>1
  <2> QED  BY <1>1, <2>2
<1>5. \A t \in Tests : t \in Pending(recorded) <=> recorded[t] = "unknown"
  BY DEF Pending
<1>6. Pending(recorded) \subseteq Tests
  BY DEF Pending
<1> HIDE DEF recorded
<1>7. \A t \in Tests : t \in parq' \/ t \in serq' <=> verdict'[t] = "unknown"
  BY <1>1, <1>5
<1>8. parq' \subseteq Tests \ Serial /\ serq' \subseteq Serial
  BY <1>1, <1>6
<1> QED  BY <1>1, <1>2, <1>3, <1>4, <1>7, <1>8

(* What a decision does to the journal.                                      *)
LEMMA DecisionWrites ==
    ASSUME TypeOK, Books, NEW t \in Tests, NEW v \in Decided, Decides(t, v)
    PROVE  /\ journal' \in Journal
           /\ torn' \in BOOLEAN /\ tears' \in 0 .. MaxTears
           /\ \A u \in Tests \ {t} : journal'[u] = journal[u]
           /\ OnceIn(journal'[t])
           /\ \A i \in DOMAIN journal'[t] :
                 \/ journal'[t][i].name = Name(t) /\ journal'[t][i].verdict = v
                 \/ i \in DOMAIN journal[t] /\ journal'[t][i] = journal[t][i]
           /\ \/ journal' = journal
              \/ /\ \A i \in DOMAIN journal[t] :
                       i \in DOMAIN journal'[t] /\ journal'[t][i] = journal[t][i]
                 /\ \E i \in DOMAIN journal'[t] :
                       journal'[t][i].name = Name(t) /\ journal'[t][i].verdict = v
           /\ tears' = 0 => tears = 0 /\ torn' = FALSE
           /\ tears' = 0 /\ ~torn => RecordedIn(journal'[t], Name(t)) = v
<1> DEFINE line == [name |-> Name(t), verdict |-> v]
<1>1. /\ WriteJournal(t, v) /\ LinesIn(journal[t], Name(t)) = {} /\ OnceIn(journal[t])
      /\ journal[t] \in Seq(Line)
  BY DEF Decides, Books, Name, TypeOK
<1>2. line \in Line /\ line.name = Name(t) /\ line.verdict = v
  BY SupervisorAssumption DEF Name, TypeOK, Line
<1>3. CASE journal' = journal /\ journal'[t] # Append(journal[t], line)
  <2>1. ~ (tears' = 0 /\ ~torn)
    BY <1>1, <1>3, WriteAdds
  <2> QED  BY <1>1, <1>3, <2>1, WriteAdds
<1>4. CASE journal'[t] = Append(journal[t], line)
  <2>1. /\ OnceIn(journal'[t])
        /\ RecordedIn(journal'[t], Name(t)) = v
        /\ \A i \in DOMAIN journal'[t] :
              journal'[t][i] = line \/ (i \in DOMAIN journal[t] /\ journal'[t][i] = journal[t][i])
        /\ \A i \in DOMAIN journal[t] : i \in DOMAIN journal'[t] /\ journal'[t][i] = journal[t][i]
        /\ \E i \in DOMAIN journal'[t] : journal'[t][i] = line
    BY <1>1, <1>2, <1>4, AppendedLine
  <2> HIDE DEF line
  <2> QED  BY <1>1, <1>2, <2>1, WriteAdds
<1>5. journal' = journal \/ journal'[t] = Append(journal[t], line)
  BY <1>1, WriteAdds
<1> QED  BY <1>3, <1>4, <1>5

LEMMA QuietBooks == ASSUME Books, Quiet PROVE Books'
BY DEF Books, Quiet, Keeps, Open

LEMMA TakesBooks == ASSUME Books, NEW t \in Tests, Takes(t) PROVE Books'
<1>1. Open' = Open
  BY DEF Takes, Open
<1>2. \A u \in running' : u \notin parq' /\ u \notin serq'
  BY DEF Takes, Books
<1>3. Keeps /\ pc' = pc /\ pc = "spawn"
  BY DEF Takes
<1> QED  BY <1>1, <1>2, <1>3 DEF Keeps, Books

LEMMA DecidesBooks ==
    ASSUME TypeOK, Books, NEW t \in Tests, NEW v \in Decided, Decides(t, v)
    PROVE  Books'
<1>1. /\ Open' = Open \ {t} /\ build' = build /\ pc' = pc /\ pc \in {"spawn", "poll"}
      /\ \A u \in running' : u \notin parq' /\ u \notin serq'
  BY DEF Decides, Open, Books
<1>2. /\ verdict'[t] = v /\ \A u \in Tests \ {t} : verdict'[u] = verdict[u]
      /\ v # "unknown"
  BY DEF Decides, TypeOK, Decided
<1>3. OnceIn(journal'[t]) /\ \A u \in Tests \ {t} : journal'[u] = journal[u]
  BY DecisionWrites
<1>4. Open \subseteq Tests
  BY SupervisorAssumption DEF Open, TypeOK
<1>5. \A u \in Tests : OnceIn(journal'[u])
  BY <1>3 DEF Books
<1>6. \A u \in Open' : verdict'[u] = "unknown" /\ LinesIn(journal'[u], TestName[build'][u]) = {}
  BY <1>1, <1>2, <1>3, <1>4 DEF Books
<1>7. \A u \in Tests \ Open' : verdict'[u] # "unknown"
  BY <1>1, <1>2 DEF Books
<1> QED  BY <1>1, <1>5, <1>6, <1>7 DEF Books

LEMMA StartBooks ==
    ASSUME TypeOK, Books, NEW b \in Builds, Start(b)
    PROVE  Books'
<1>1. Open' = {t \in Tests : verdict'[t] = "unknown"}
  BY StartReads, SupervisorAssumption DEF Open
<1>2. \A t \in Tests : OnceIn(journal'[t])
  BY StartReads DEF Books
<1>3. \A t \in Open' : LinesIn(journal'[t], TestName[build'][t]) = {}
  BY <1>1, StartReads
<1> QED  BY <1>1, <1>2, <1>3, StartReads DEF Books

LEMMA EndsBooks == ASSUME Books, Ends PROVE Books'
BY DEF Books, Ends, Keeps, Open

LEMMA CrashBooks == ASSUME Books, Crash PROVE Books'
BY DEF Books, Crash, NoWorkers, files, Open

LEMMA NextBooks == ASSUME TypeOK, Books, [Next]_vars PROVE Books'
BY StepKinds, QuietBooks, TakesBooks, DecidesBooks, StartBooks, EndsBooks, CrashBooks

----------------------------------------------------------------------------
(* Types *)

LEMMA InitHolds == Init => TypeOK /\ Books
<1> SUFFICES ASSUME Init PROVE TypeOK /\ Books
  OBVIOUS
<1>1. Open = {} /\ pc = "down" /\ verdict = [t \in Tests |-> "unknown"] /\ running = {}
  BY DEF Init, Open
<1>2. \A t \in Tests : journal[t] = <<>>
  BY DEF Init
<1>3. \A t \in Tests : OnceIn(journal[t])
  BY <1>2 DEF OnceIn
<1>4. Books
  BY <1>1, <1>3 DEF Books
<1>5. journal \in [Tests -> Seq(Line)]
  BY DEF Init
<1>6. 0 \in 0 .. MaxRuns /\ 0 \in 0 .. MaxTears
  BY SupervisorAssumption
<1>7. verdict \in [Tests -> Verdict] /\ worker \in [Tests -> Process]
  BY DEF Init, Verdict, Process
<1> QED  BY <1>4, <1>5, <1>6, <1>7 DEF Init, TypeOK

LEMMA QuietTypes ==
    ASSUME TypeOK, Keeps, parq' = parq, serq' = serq, running' = running,
           pc' \in {"spawn", "poll", "done", pc}, gate' \in BOOLEAN,
           topoll' \subseteq running, timedOut' \subseteq running,
           worker' \in [Tests -> Process], runs' = runs, exit' \in {0, 1}
    PROVE  TypeOK'
BY DEF Keeps, TypeOK

LEMMA SpawnTypes == ASSUME TypeOK, NEW t \in Tests, Spawn(t) PROVE TypeOK'
<1>1. /\ parq' = parq \ {t} /\ serq' = serq \ {t}
      /\ running' = running \cup {t} /\ topoll' = topoll /\ timedOut' = timedOut
  BY DEF Spawn, SpawnTurn, Dequeue
<1>2. worker' \in [Tests -> Process]
  BY DEF Spawn, TypeOK, Process
<1>3. /\ pc' = pc /\ build' = build /\ verdict' = verdict /\ gate' = gate /\ journal' = journal
      /\ torn' = torn /\ tears' = tears /\ runs' = runs /\ exit' = exit /\ passed' = passed
  BY DEF Spawn, files
<1> QED  BY <1>1, <1>2, <1>3 DEF TypeOK

LEMMA DecidesTypes ==
    ASSUME TypeOK, Books, NEW t \in Tests, NEW v \in Decided, Decides(t, v),
           topoll' \subseteq running', timedOut' \subseteq running',
           worker' \in [Tests -> Process], gate' = gate, runs' = runs
    PROVE  TypeOK'
<1>1. journal' \in [Tests -> Seq(Line)] /\ torn' \in BOOLEAN /\ tears' \in 0 .. MaxTears
  BY DecisionWrites DEF Journal
<1>2. verdict' \in [Tests -> Verdict]
  BY DEF Decides, TypeOK, Verdict
<1>3. Name(t) \in Names
  BY SupervisorAssumption DEF TypeOK, Name
<1>4. passed' \subseteq Tests \X Names
  BY <1>3 DEF Decides, TypeOK
<1>5. /\ pc' = pc /\ build' = build /\ exit' = exit
      /\ parq' = parq \ {t} /\ serq' = serq \ {t} /\ running' = running \ {t}
  BY DEF Decides
<1>6. /\ pc' \in {"down", "spawn", "poll", "done"} /\ build' \in Builds /\ gate' \in BOOLEAN
      /\ exit' \in {0, 1} /\ runs' \in 0 .. MaxRuns
      /\ parq' \subseteq Tests \ Serial /\ serq' \subseteq Serial /\ running' \subseteq Tests
  BY <1>5 DEF TypeOK
<1> QED  BY <1>1, <1>2, <1>4, <1>6 DEF TypeOK

LEMMA StartTypes ==
    ASSUME TypeOK, Books, NEW b \in Builds, Start(b)
    PROVE  TypeOK'
<1>1. /\ gate' \in BOOLEAN /\ topoll' = {} /\ timedOut' = {} /\ worker' = [t \in Tests |-> "none"]
      /\ runs' = runs + 1 /\ runs < MaxRuns
  BY DEF Start, NoWorkers
<1>2. runs' \in 0 .. MaxRuns
  BY <1>1, SupervisorAssumption DEF TypeOK
<1>3. worker' \in [Tests -> Process]
  BY <1>1 DEF Process
<1> QED  BY <1>1, <1>2, <1>3, StartReads DEF TypeOK

LEMMA CrashTypes == ASSUME TypeOK, Crash PROVE TypeOK'
<1>1. verdict' \in [Tests -> Verdict] /\ worker' \in [Tests -> Process]
  BY DEF Crash, NoWorkers, Verdict, Process
<1> QED  BY <1>1 DEF Crash, NoWorkers, files, TypeOK

LEMMA NextTypes == ASSUME TypeOK, Books, [Next]_vars PROVE TypeOK'
<1>1. ASSUME NEW b \in Builds, Start(b) PROVE TypeOK'
  BY <1>1, StartTypes
<1>2. ASSUME NEW t \in Tests, Spawn(t) PROVE TypeOK'
  BY <1>2, SpawnTypes
<1>3. ASSUME NEW t \in Tests, SpawnFails(t) PROVE TypeOK'
  <2>1. Decides(t, "fail") /\ "fail" \in Decided
    BY <1>3, SpawnDecides DEF Decided
  <2>2. t \notin running
    BY <1>3, TurnTakes DEF SpawnFails, Books
  <2>3. /\ topoll' \subseteq running' /\ timedOut' \subseteq running'
        /\ worker' \in [Tests -> Process] /\ gate' = gate /\ runs' = runs
    BY <1>3 DEF SpawnFails, TypeOK
  <2> QED  BY <2>1, <2>3, DecidesTypes
<1>4. ASSUME NEW t \in Tests, Reap(t) PROVE TypeOK'
  <2>1. ReapVerdict(t) \in Decided /\ Decides(t, ReapVerdict(t))
    BY <1>4, ReapDecides
  <2>2. topoll' = topoll \ {t}
    BY <1>4, VisitTakes DEF Reap
  <2>3. /\ topoll' \subseteq running' /\ timedOut' \subseteq running' /\ gate' = gate /\ runs' = runs
    BY <1>4, <2>2 DEF Reap, TypeOK
  <2>4. worker' \in [Tests -> Process]
    BY <1>4 DEF Reap, TypeOK, Process
  <2> QED  BY <2>1, <2>3, <2>4, DecidesTypes
<1>5. CASE Sweep \/ EnterSerial \/ EndSweep \/ Finish
  <2>1. /\ Keeps /\ parq' = parq /\ serq' = serq /\ running' = running /\ runs' = runs
        /\ worker' = worker /\ timedOut' = timedOut
        /\ pc' \in {"spawn", "poll", "done", pc}
    BY <1>5 DEF Sweep, EnterSerial, EndSweep, Finish, Keeps, files
  <2>2. gate' \in BOOLEAN /\ exit' \in {0, 1} /\ topoll' \subseteq running
    BY <1>5 DEF Sweep, EnterSerial, EndSweep, Finish, TypeOK
  <2> QED  BY <2>1, <2>2, QuietTypes DEF TypeOK
<1>6. ASSUME NEW t \in Tests, Terminate(t) \/ Kill(t) \/ StillBusy(t) PROVE TypeOK'
  <2>1. t \in running /\ topoll' = topoll \ {t}
    BY <1>6, VisitTakes DEF Terminate, Kill, StillBusy
  <2>2. /\ Keeps /\ parq' = parq /\ serq' = serq /\ running' = running /\ runs' = runs
        /\ pc' = pc /\ gate' = gate /\ exit' = exit
    BY <1>6 DEF Terminate, Kill, StillBusy, Keeps, files
  <2>3. worker' \in [Tests -> Process]
    BY <1>6 DEF Terminate, Kill, StillBusy, TypeOK, Process
  <2>4. timedOut' \subseteq running
    BY <1>6, <2>1 DEF Terminate, Kill, StillBusy, TypeOK
  <2> QED  BY <2>1, <2>2, <2>3, <2>4, QuietTypes DEF TypeOK
<1>7. ASSUME NEW t \in Tests, NEW status \in Exited, WorkerExits(t, status) \/ WorkerDies(t)
      PROVE  TypeOK'
  <2>1. /\ Keeps /\ parq' = parq /\ serq' = serq /\ running' = running /\ runs' = runs
        /\ pc' = pc /\ gate' = gate /\ exit' = exit /\ topoll' = topoll /\ timedOut' = timedOut
    BY <1>7 DEF WorkerExits, WorkerDies, Keeps, files, supervisor
  <2>2. worker' \in [Tests -> Process]
    BY <1>7 DEF WorkerExits, WorkerDies, TypeOK, Process, Exited
  <2> QED  BY <2>1, <2>2, QuietTypes DEF TypeOK
<1>8. CASE Crash
  BY <1>8, CrashTypes
<1>9. CASE UNCHANGED vars
  BY <1>9 DEF vars, TypeOK
<1>10. "zero" \in Exited
  BY DEF Exited
<1> QED  BY <1>1, <1>2, <1>3, <1>4, <1>5, <1>6, <1>7, <1>8, <1>9, <1>10 DEF Next, Loop

(* The inductive invariant: a test is queued, running or decided, an open    *)
(* one has no line under its name, and no index has two lines of one name,   *)
(* through crashes, failed writes and runs of renamed builds.                *)
THEOREM BooksKept == Spec => [](TypeOK /\ Books)
<1>1. TypeOK /\ Books /\ [Next]_vars => TypeOK' /\ Books'
  BY NextTypes, NextBooks
<1> QED  BY <1>1, InitHolds, PTL DEF Spec

(* Every part of the state keeps its shape.                                  *)
THEOREM TypeCorrect == Spec => []TypeOK
BY BooksKept, PTL

----------------------------------------------------------------------------
(* What the invariant gives *)

LEMMA OnceIsOne ==
    ASSUME NEW lines \in Seq(Line), OnceIn(lines), NEW name
    PROVE  Cardinality(LinesIn(lines, name)) <= 1
<1>1. CASE LinesIn(lines, name) = {}
  BY <1>1, FS_EmptySet
<1>2. CASE LinesIn(lines, name) # {}
  <2>1. PICK i \in LinesIn(lines, name) : TRUE
    BY <1>2
  <2>2. LinesIn(lines, name) = {i}
    BY <2>1 DEF LinesIn, OnceIn
  <2>3. Cardinality({i}) = 1
    BY FS_Singleton
  <2> QED  BY <2>2, <2>3
<1> QED  BY <1>1, <1>2

(* A test has one line at most under the name it has in any build, so        *)
(* done_count never exceeds the window and window_len - done_count does not  *)
(* wrap.                                                                     *)
THEOREM OneLine == Spec => []OneLineEach
<1>1. TypeOK /\ Books => OneLineEach
  <2> SUFFICES ASSUME TypeOK, Books, NEW b \in Builds, NEW t \in Tests
               PROVE  Cardinality(LinesFor(b, t)) <= 1
    BY DEF OneLineEach
  <2>1. journal[t] \in Seq(Line) /\ OnceIn(journal[t])
    BY DEF TypeOK, Books
  <2>2. LinesFor(b, t) = LinesIn(journal[t], TestName[b][t])
    BY Reading
  <2> QED  BY <2>1, <2>2, OnceIsOne
<1> QED  BY <1>1, BooksKept, PTL

(* A serial worker runs alone, and after every parallel test was spawned.    *)
THEOREM SerialAlone == Spec => []SerialExclusive
<1>1. Init => SerialExclusive
  BY DEF Init, SerialExclusive
<1>2. ASSUME TypeOK, Books, SerialExclusive, [Next]_vars PROVE SerialExclusive'
  <2>1. CASE Quiet
    BY <1>2, <2>1 DEF Quiet, SerialExclusive
  <2>2. ASSUME NEW t \in Tests, Takes(t) PROVE SerialExclusive'
    <3>1. CASE t \in parq /\ t \notin Serial
      <4>1. running \cap Serial = {}
        BY <1>2, <3>1 DEF SerialExclusive
      <4> QED  BY <2>2, <3>1, <4>1 DEF Takes, SerialExclusive
    <3>2. CASE t \in serq /\ parq = {} /\ running = {}
      BY <2>2, <3>2 DEF Takes, SerialExclusive
    <3> QED  BY <2>2, <3>1, <3>2 DEF Takes
  <2>3. ASSUME NEW t \in Tests, NEW v \in Decided, Decides(t, v) PROVE SerialExclusive'
    BY <1>2, <2>3 DEF Decides, SerialExclusive
  <2>4. ASSUME NEW b \in Builds, Start(b) PROVE SerialExclusive'
    BY <2>4 DEF Start, NoWorkers, SerialExclusive
  <2>5. CASE Ends
    BY <1>2, <2>5 DEF Ends, SerialExclusive
  <2>6. CASE Crash
    BY <2>6 DEF Crash, NoWorkers, SerialExclusive
  <2> QED  BY <1>2, <2>1, <2>2, <2>3, <2>4, <2>5, <2>6, StepKinds
<1> QED  BY <1>1, <1>2, BooksKept, PTL DEF Spec

(* Every pass, of this run or in the journal, is vouched for by a worker.    *)
Vouched ==
    /\ NoStalePass
    /\ \A t \in Tests : \A i \in DOMAIN journal[t] :
          journal[t][i].verdict = "pass" => <<t, journal[t][i].name>> \in passed

LEMMA NextVouched == ASSUME TypeOK, Books, Vouched, [Next]_vars PROVE Vouched'
<1>1. ASSUME Keeps PROVE Vouched'
  BY <1>1 DEF Keeps, Vouched, NoStalePass, Name
<1>2. ASSUME NEW t \in Tests, NEW v \in Decided, Decides(t, v) PROVE Vouched'
  <2>1. /\ build' = build /\ verdict'[t] = v /\ \A u \in Tests \ {t} : verdict'[u] = verdict[u]
        /\ passed \subseteq passed'
        /\ v = "pass" => <<t, Name(t)>> \in passed'
    BY <1>2 DEF Decides, TypeOK
  <2>2. NoStalePass'
    BY <2>1 DEF Vouched, NoStalePass, Name
  <2>3. ASSUME NEW u \in Tests, NEW i \in DOMAIN journal'[u], journal'[u][i].verdict = "pass"
        PROVE  <<u, journal'[u][i].name>> \in passed'
    <3>1. CASE u # t
      <4>1. journal'[u] = journal[u]
        BY <1>2, <3>1, DecisionWrites
      <4> QED  BY <2>1, <2>3, <4>1 DEF Vouched
    <3>2. CASE u = t
      <4>1. \/ journal'[t][i].name = Name(t) /\ journal'[t][i].verdict = v
            \/ i \in DOMAIN journal[t] /\ journal'[t][i] = journal[t][i]
        BY <1>2, <2>3, <3>2, DecisionWrites
      <4> QED  BY <2>1, <2>3, <3>2, <4>1 DEF Vouched
    <3> QED  BY <3>1, <3>2
  <2> QED  BY <2>2, <2>3 DEF Vouched
<1>3. ASSUME NEW b \in Builds, Start(b) PROVE Vouched'
  <2>1. journal' = journal /\ passed' = passed /\ build' = b
    BY <1>3, StartReads
  <2>2. ASSUME NEW t \in Tests, verdict'[t] = "pass" PROVE <<t, TestName[b][t]>> \in passed
    <3>1. RecordedIn(journal[t], TestName[b][t]) = "pass"
      BY <1>3, <2>2, StartReads
    <3>2. journal[t] \in Seq(Line) /\ OnceIn(journal[t])
      BY DEF TypeOK, Books
    <3>3. PICK i \in DOMAIN journal[t] : /\ journal[t][i].name = TestName[b][t]
                                         /\ journal[t][i].verdict = "pass"
      BY <3>1, <3>2, RecordedType
    <3> QED  BY <3>3 DEF Vouched
  <2> QED  BY <2>1, <2>2 DEF Vouched, NoStalePass, Name
<1>4. CASE Crash
  BY <1>4 DEF Crash, files, Vouched, NoStalePass
<1> QED  BY <1>1, <1>2, <1>3, <1>4, StepKinds DEF Quiet, Takes, Ends

(* No test passes, in a run or by resuming one, unless a worker of the test  *)
(* of that name exited with 0 in time.                                       *)
THEOREM PassesVouched == Spec => []NoStalePass
<1>1. Init => Vouched
  <2>1. Init => \A t \in Tests : verdict[t] = "unknown" /\ journal[t] = <<>>
    BY DEF Init
  <2> QED  BY <2>1 DEF Vouched, NoStalePass
<1>2. Vouched => NoStalePass
  BY DEF Vouched
<1>3. TypeOK /\ Books /\ Vouched /\ [Next]_vars => Vouched'
  BY NextVouched
<1> QED  BY <1>1, <1>2, <1>3, BooksKept, PTL DEF Spec

(* As long as no write failed the file ends with a newline and reads back as *)
(* the verdicts.                                                             *)
Whole ==
    /\ tears = 0 => ~torn
    /\ JournalComplete

LEMMA NextWhole == ASSUME TypeOK, Books, Whole, [Next]_vars PROVE Whole'
<1>1. ASSUME Keeps, pc # "down" PROVE Whole'
  <2>1. \A t \in Tests : Recorded(build, t)' = Recorded(build, t)
    BY <1>1 DEF Keeps, Recorded, LinesFor, Matches
  <2> QED  BY <1>1, <2>1 DEF Keeps, Whole, JournalComplete
<1>2. CASE Quiet /\ pc = "down"
  BY <1>2 DEF Quiet, Keeps, Whole, JournalComplete
<1>3. ASSUME NEW t \in Tests, NEW v \in Decided, Decides(t, v) PROVE Whole'
  <2>1. /\ build' = build /\ pc' = pc /\ pc # "down"
        /\ verdict'[t] = v /\ \A u \in Tests \ {t} : verdict'[u] = verdict[u]
    BY <1>3 DEF Decides, TypeOK
  <2>2. SUFFICES ASSUME tears' = 0
                 PROVE  ~torn' /\ \A u \in Tests : Recorded(build, u)' = verdict'[u]
    BY DEF Whole, JournalComplete
  <2>3. tears = 0 /\ torn' = FALSE
    BY <1>3, <2>2, DecisionWrites
  <2>4. ~torn /\ \A u \in Tests : Recorded(build, u) = verdict[u]
    BY <2>1, <2>3 DEF Whole, JournalComplete
  <2>5. ASSUME NEW u \in Tests PROVE Recorded(build, u)' = verdict'[u]
    <3>1. Recorded(build, u)' = RecordedIn(journal'[u], TestName[build'][u])
      BY DEF Recorded, LinesFor, Matches, RecordedIn, LinesIn
    <3>2. CASE u = t
      <4>1. RecordedIn(journal'[t], Name(t)) = v
        BY <1>3, <2>2, <2>4, DecisionWrites
      <4> QED  BY <2>1, <3>1, <3>2, <4>1 DEF Name
    <3>3. CASE u # t
      <4>1. journal'[u] = journal[u] /\ verdict'[u] = verdict[u]
        BY <1>3, <2>1, <3>3, DecisionWrites
      <4>2. Recorded(build, u) = RecordedIn(journal[u], TestName[build][u])
        BY Reading
      <4> QED  BY <2>1, <2>4, <3>1, <4>1, <4>2
    <3> QED  BY <3>2, <3>3
  <2> QED  BY <2>3, <2>5
<1>4. ASSUME NEW b \in Builds, Start(b) PROVE Whole'
  <2>1. ASSUME NEW t \in Tests PROVE Recorded(build, t)' = verdict'[t]
    <3>1. Recorded(build, t)' = RecordedIn(journal'[t], TestName[build'][t])
      BY DEF Recorded, LinesFor, Matches, RecordedIn, LinesIn
    <3> QED  BY <1>4, <3>1, StartReads
  <2>2. torn' = torn /\ tears' = tears
    BY <1>4, StartReads
  <2> QED  BY <2>1, <2>2 DEF Whole, JournalComplete
<1>5. CASE Crash
  BY <1>5 DEF Crash, files, Whole, JournalComplete
<1> QED  BY <1>1, <1>2, <1>3, <1>4, <1>5, StepKinds DEF Quiet, Takes, Ends

(* A run killed at any point loses no verdict as long as every write went    *)
(* through.                                                                  *)
THEOREM NothingLost == Spec => []JournalComplete
<1>1. Init => Whole
  BY DEF Init, Whole, JournalComplete
<1>2. Whole => JournalComplete
  BY DEF Whole
<1>3. TypeOK /\ Books /\ Whole /\ [Next]_vars => Whole'
  BY NextWhole
<1> QED  BY <1>1, <1>2, <1>3, BooksKept, PTL DEF Spec

(* A worker that overstayed is reported as a hang, whatever it exits with.   *)
THEOREM OverdueHangs == Spec => TimedOutHangs
<1>1. ASSUME TypeOK, Books, [Next]_vars, NEW t \in Tests,
             t \in timedOut, pc = "poll", verdict'[t] # verdict[t]
      PROVE  verdict'[t] = "hang"
  <2>1. CASE Quiet
    BY <1>1, <2>1 DEF Quiet, Keeps
  <2>2. ASSUME NEW u \in Tests, Takes(u) PROVE FALSE
    BY <1>1, <2>2 DEF Takes
  <2>3. ASSUME NEW u \in Tests, NEW v \in Decided, Decides(u, v) PROVE verdict'[t] = "hang"
    <3>1. verdict'[u] = v /\ \A w \in Tests \ {u} : verdict'[w] = verdict[w]
      BY <1>1, <2>3 DEF Decides, TypeOK
    <3>2. u = t
      BY <1>1, <3>1
    <3> QED  BY <1>1, <2>3, <3>1, <3>2 DEF Decides
  <2>4. ASSUME NEW b \in Builds, Start(b) PROVE FALSE
    BY <1>1, <2>4 DEF Start
  <2>5. CASE Ends
    BY <1>1, <2>5 DEF Ends
  <2>6. CASE Crash
    <3>1. t \in Open
      BY <1>1 DEF TypeOK, Open
    <3>2. verdict[t] = "unknown"
      BY <1>1, <3>1 DEF Books
    <3>3. verdict'[t] = "unknown"
      BY <1>1, <2>6 DEF Crash
    <3> QED  BY <1>1, <3>2, <3>3
  <2> QED  BY <1>1, <2>1, <2>2, <2>3, <2>4, <2>5, <2>6, StepKinds
<1>2. TypeOK /\ Books /\ [Next]_vars
        => [\A t \in Tests : (t \in timedOut /\ pc = "poll" /\ verdict'[t] # verdict[t])
                                => verdict'[t] = "hang"]_vars
  BY <1>1
<1> QED  BY <1>2, BooksKept, PTL DEF Spec, TimedOutHangs

----------------------------------------------------------------------------
(* The refinement of VerdictBoard *)

(* What can be read from the journal, as VerdictBoard's saved verdicts.      *)
SavedIn(j) == UNION {{<<t, j[t][i].name, j[t][i].verdict>> : i \in DOMAIN j[t]} : t \in Tests}

LEMMA SavedHas ==
    ASSUME NEW j, NEW s
    PROVE  s \in SavedIn(j) <=> \E t \in Tests : \E i \in DOMAIN j[t] :
                                    s = <<t, j[t][i].name, j[t][i].verdict>>
BY DEF SavedIn

LEMMA DecisionSaves ==
    ASSUME TypeOK, Books, NEW t \in Tests, NEW v \in Decided, Decides(t, v)
    PROVE  SavedIn(journal') \in {SavedIn(journal), SavedIn(journal) \cup {<<t, Name(t), v>>}}
<1>1. CASE journal' = journal
  BY <1>1
<1>2. CASE journal' # journal
  <2>1. /\ \A u \in Tests \ {t} : journal'[u] = journal[u]
        /\ \A i \in DOMAIN journal'[t] :
              \/ journal'[t][i].name = Name(t) /\ journal'[t][i].verdict = v
              \/ i \in DOMAIN journal[t] /\ journal'[t][i] = journal[t][i]
        /\ \A i \in DOMAIN journal[t] :
              i \in DOMAIN journal'[t] /\ journal'[t][i] = journal[t][i]
        /\ \E i \in DOMAIN journal'[t] :
              journal'[t][i].name = Name(t) /\ journal'[t][i].verdict = v
    BY <1>2, DecisionWrites
  <2>2. ASSUME NEW s \in SavedIn(journal') PROVE s \in SavedIn(journal) \cup {<<t, Name(t), v>>}
    <3>1. PICK u \in Tests : \E i \in DOMAIN journal'[u] :
              s = <<u, journal'[u][i].name, journal'[u][i].verdict>>
      BY <2>2, SavedHas
    <3>2. CASE u = t
      BY <2>1, <3>1, <3>2, SavedHas
    <3>3. CASE u # t
      BY <2>1, <3>1, <3>3, SavedHas
    <3> QED  BY <3>2, <3>3
  <2>3. ASSUME NEW s \in SavedIn(journal) PROVE s \in SavedIn(journal')
    <3>1. PICK u \in Tests : \E i \in DOMAIN journal[u] :
              s = <<u, journal[u][i].name, journal[u][i].verdict>>
      BY <2>3, SavedHas
    <3>2. \E i \in DOMAIN journal'[u] : s = <<u, journal'[u][i].name, journal'[u][i].verdict>>
      BY <2>1, <3>1
    <3> QED  BY <3>2, SavedHas
  <2>4. <<t, Name(t), v>> \in SavedIn(journal')
    BY <2>1, SavedHas
  <2> QED  BY <2>2, <2>3, <2>4
<1> QED  BY <1>1, <1>2

Phase(p) == CASE p = "down" -> "idle" [] p = "done" -> "done" [] OTHER -> "running"

LEMMA QuietStutters ==
    ASSUME Keeps, exit' = exit, Phase(pc') = Phase(pc)
    PROVE  UNCHANGED Board!vars
BY DEF Keeps, Phase, Board!vars

LEMMA DecidesBoard ==
    ASSUME TypeOK, Books, NEW t \in Tests, NEW v \in Decided, Decides(t, v)
    PROVE  Board!Decide(t, v)
<1>1. SavedIn(journal') \in {SavedIn(journal), SavedIn(journal) \cup {<<t, TestName[build][t], v>>}}
  BY DecisionSaves DEF Name
<1>2. verdict[t] = "unknown"
  BY DEF Books, Decides
<1>3. Phase(pc) = "running" /\ pc' = pc /\ build' = build /\ exit' = exit
      /\ verdict' = [verdict EXCEPT ![t] = v]
  BY DEF Decides, Phase
<1> QED  BY <1>1, <1>2, <1>3 DEF Board!Decide, Phase, SavedIn

LEMMA StartBoard ==
    ASSUME TypeOK, Books, NEW b \in Builds, Start(b)
    PROVE  Board!Start
<1>1. /\ verdict' \in [Tests -> Verdict] /\ journal' = journal /\ exit' = exit
      /\ pc' = "spawn" /\ build' = b /\ pc \in {"down", "done"}
  BY StartReads
<1>2. ASSUME NEW t \in Tests, verdict'[t] # "unknown"
      PROVE  <<t, TestName[build'][t], verdict'[t]>> \in SavedIn(journal)
  <2>1. verdict'[t] = RecordedIn(journal[t], TestName[b][t])
    BY StartReads
  <2>2. journal[t] \in Seq(Line) /\ OnceIn(journal[t])
    BY DEF TypeOK, Books
  <2>3. PICK i \in DOMAIN journal[t] : /\ journal[t][i].name = TestName[b][t]
                                       /\ journal[t][i].verdict = verdict'[t]
    BY <1>2, <2>1, <2>2, RecordedType
  <2> QED  BY <1>1, <2>3, SavedHas
<1>3. TestName[build'] \in [Tests -> Names]
  BY <1>1, SupervisorAssumption
<1>4. Phase(pc) # "running" /\ Phase(pc') = "running" /\ SavedIn(journal') = SavedIn(journal)
  BY <1>1 DEF Phase
<1>5. [Tests -> Verdict] = [Tests -> Board!Verdict]
  BY DEF Verdict, Decided, Board!Verdict, Board!Decided
<1> QED  BY <1>1, <1>2, <1>3, <1>4, <1>5 DEF Board!Start, Phase, SavedIn

LEMMA EndsBoard == ASSUME TypeOK, Books, Ends PROVE Board!Report
<1>1. \A t \in Tests : verdict[t] # "unknown"
  BY DEF Ends, Books
<1> QED  BY <1>1 DEF Ends, Keeps, Board!Report

LEMMA CrashBoard == ASSUME Crash PROVE Board!Killed
BY DEF Crash, files, Board!Killed

LEMMA InitBoard == Init => Board!Init
<1> SUFFICES ASSUME Init PROVE Board!Init
  OBVIOUS
<1>1. TestName[build] \in [Tests -> Names]
  BY SupervisorAssumption DEF Init
<1>2. \A t \in Tests : DOMAIN journal[t] = {}
  BY DEF Init
<1>3. SavedIn(journal) = {}
  BY <1>2, SavedHas
<1> QED  BY <1>1, <1>3 DEF Init, Board!Init, SavedIn

LEMMA NextBoard == ASSUME TypeOK, Books, [Next]_vars PROVE [Board!Next]_(Board!vars)
<1>1. ASSUME Quiet \/ \E t \in Tests : Takes(t) PROVE UNCHANGED Board!vars
  <2>1. Keeps /\ exit' = exit /\ Phase(pc') = Phase(pc)
    BY <1>1 DEF Quiet, Takes, Phase
  <2> QED  BY <2>1, QuietStutters
<1>2. ASSUME NEW t \in Tests, NEW v \in Decided, Decides(t, v) PROVE Board!Next
  <2>1. v \in Board!Decided
    BY DEF Decided, Board!Decided
  <2> QED  BY <1>2, <2>1, DecidesBoard DEF Board!Next
<1>3. ASSUME NEW b \in Builds, Start(b) PROVE Board!Next
  BY <1>3, StartBoard DEF Board!Next
<1>4. CASE Ends
  BY <1>4, EndsBoard DEF Board!Next
<1>5. CASE Crash
  BY <1>5, CrashBoard DEF Board!Next
<1> QED  BY <1>1, <1>2, <1>3, <1>4, <1>5, StepKinds

(* The supervisor implements VerdictBoard: a verdict is given once and       *)
(* stays, a run reports when all are there, and a resumed run takes verdicts *)
(* from the saved ones of the same test and from nowhere else.               *)
THEOREM Implements == Spec => KeepsPromises
<1>1. TypeOK /\ Books /\ [Next]_vars => [Board!Next]_(Board!vars)
  BY NextBoard
<1> QED  BY <1>1, InitBoard, BooksKept, PTL DEF Spec, KeepsPromises, Board!Spec
=============================================================================
