------------------------- MODULE FreshnessGateProofs -------------------------
(* Proofs about FreshnessGate, for all files, imports, processes and bounds. *)
EXTENDS FreshnessGate, TLAPS

Disks == [Files -> Contents \cup {Absent}]

----------------------------------------------------------------------------
(* Snapshots *)

LEMMA Snapshots ==
    /\ \A s \in Snapshot : DOMAIN s \subseteq Files /\ s \in [DOMAIN s -> Contents]
    /\ \A S \in SUBSET Files : \A s \in [S -> Contents] : s \in Snapshot
BY DEF Snapshot

LEMMA NothingSnapshot == Nothing \in Snapshot /\ DOMAIN Nothing = {}
<1>1. DOMAIN Nothing = {} /\ Nothing \in [{} -> Contents]
  BY DEF Nothing
<1> QED  BY <1>1, Snapshots

LEMMA ExtendSnapshot ==
    ASSUME NEW s \in Snapshot, NEW f \in Files, NEW c \in Contents
    PROVE  Extend(s, f, c) \in Snapshot
<1>1. DOMAIN s \subseteq Files /\ s \in [DOMAIN s -> Contents]
  BY Snapshots
<1>2. Extend(s, f, c) \in [DOMAIN s \cup {f} -> Contents]
  BY <1>1 DEF Extend
<1> QED  BY <1>1, <1>2, Snapshots

----------------------------------------------------------------------------
(* The sources of a compilation *)

LEMMA ResolveType == \A d, i : i \in Specifiers => Resolve(d, i) \in Files
BY GateAssumption DEF Resolve

LEMMA TargetsType == ASSUME NEW d \in Disks, NEW f \in Files PROVE Targets(d, f) \subseteq Files
<1>1. CASE d[f] = Absent
  BY <1>1 DEF Targets
<1>2. CASE d[f] # Absent
  <2>1. d[f] \in Contents
    BY <1>2 DEF Disks
  <2>2. Imports[f][d[f]] \subseteq Specifiers
    BY <2>1, GateAssumption
  <2> QED  BY <1>2, <2>2, ResolveType DEF Targets
<1> QED  BY <1>1, <1>2

LEMMA SourcesClosed ==
    ASSUME NEW d \in Disks
    PROVE  /\ Root \in Sources(d) /\ Sources(d) \subseteq Files
           /\ \A f \in Sources(d) : Targets(d, f) \subseteq Sources(d)
<1>1. Root \in Sources(d) /\ Sources(d) \subseteq Files
  BY GateAssumption DEF Sources
<1>2. ASSUME NEW f \in Sources(d), NEW t \in Targets(d, f) PROVE t \in Sources(d)
  BY <1>1, <1>2, TargetsType DEF Sources
<1> QED  BY <1>1, <1>2

LEMMA SourcesLeast ==
    ASSUME NEW d \in Disks, NEW S \in SUBSET Files, Root \in S, \A f \in S : Targets(d, f) \subseteq S
    PROVE  Sources(d) \subseteq S
BY DEF Sources

\* The sources depend on their own contents and on which files there are.
LEMMA SourcesAgree ==
    ASSUME NEW d \in Disks, NEW e \in Disks,
           \A f \in Sources(d) : e[f] = d[f] /\ Targets(e, f) = Targets(d, f)
    PROVE  Compile(e) = Compile(d)
<1>1. Sources(e) \subseteq Sources(d)
  BY SourcesClosed, SourcesLeast
<1>2. Sources(d) \subseteq Sources(e)
  BY <1>1, SourcesClosed, SourcesLeast
<1> QED  BY <1>1, <1>2 DEF Compile

----------------------------------------------------------------------------
(* What the actions do to the processes *)

Process == [pc : {"idle", "verify", "hit", "read", "hash", "json", "done"},
            todo : SUBSET Files, closure : SUBSET Files, seen : Snapshot, deps : Snapshot]

Typed ==
    /\ disk \in Disks /\ bin \in Snapshot /\ json \in Snapshot
    /\ proc \in [Procs -> Process] /\ edits \in 0..MaxEdits

LEMMA TypedIsTypeOK == Typed <=> TypeOK
BY DEF Typed, TypeOK, Disks, Process

\* A process changes to these values, and no other process changes.
Becomes(p, pc, todo, closure, seen, deps) ==
    /\ proc' \in [Procs -> Process]
    /\ proc'[p].pc = pc /\ proc'[p].todo = todo /\ proc'[p].closure = closure
    /\ proc'[p].seen = seen /\ proc'[p].deps = deps
    /\ \A q \in Procs \ {p} : proc'[q] = proc[q]

Unchanged == disk' = disk /\ bin' = bin /\ json' = json /\ edits' = edits

LEMMA BecomesIdle ==
    ASSUME Typed, NEW p \in Procs, proc' = [proc EXCEPT ![p] = Idle]
    PROVE  Becomes(p, "idle", {}, {}, Nothing, Nothing)
<1>1. Idle \in Process
  BY NothingSnapshot DEF Idle, Process
<1> QED  BY <1>1 DEF Typed, Becomes, Idle

LEMMA RunFrontendBecomes ==
    ASSUME Typed, NEW p \in Procs, RunFrontend(p)
    PROVE  Becomes(p, "read", {Root}, {Root}, Nothing, Nothing)
<1>1. Root \in Files
  BY GateAssumption
<1>2. proc' \in [Procs -> Process]
  BY <1>1, NothingSnapshot DEF Typed, RunFrontend, Idle, Process
<1> QED  BY <1>2 DEF Typed, RunFrontend, Becomes, Idle

LEMMA OpenManifestBecomes ==
    ASSUME Typed, NEW p \in Procs, OpenManifest(p)
    PROVE  Unchanged /\ Becomes(p, "verify", DOMAIN json, {}, Nothing, json)
<1>1. DOMAIN json \in SUBSET Files /\ json \in Snapshot
  BY Snapshots DEF Typed
<1>2. proc' \in [Procs -> Process]
  BY <1>1, NothingSnapshot DEF Typed, OpenManifest, ToVerify, Idle, Process
<1> QED  BY <1>2 DEF Typed, OpenManifest, ToVerify, Becomes, Idle, Unchanged

LEMMA VerifyBecomes ==
    ASSUME Typed, NEW p \in Procs, NEW f \in Files, Verify(p, f), disk[f] = proc[p].deps[f]
    PROVE  /\ Unchanged
           /\ Becomes(p, "verify", proc[p].todo \ {f}, proc[p].closure, proc[p].seen, proc[p].deps)
<1>1. proc[p].todo \ {f} \in SUBSET Files
  BY DEF Typed, Process
<1>2. proc' \in [Procs -> Process]
  BY <1>1 DEF Typed, Verify, Process
<1> QED  BY <1>2 DEF Typed, Verify, Becomes, Process, Unchanged

LEMMA HitBecomes ==
    ASSUME Typed, NEW p \in Procs, Hit(p)
    PROVE  Unchanged /\ Becomes(p, "hit", {}, proc[p].closure, bin, proc[p].deps)
<1>1. proc' \in [Procs -> Process]
  BY ZenonT(60) DEF Typed, Hit, Process
<1> QED  BY <1>1 DEF Typed, Hit, Becomes, Process, Unchanged

LEMMA ReadBecomes ==
    ASSUME Typed, NEW p \in Procs, NEW f \in Files, Read(p, f), disk[f] # Absent
    PROVE  /\ Unchanged /\ Targets(disk, f) \subseteq Files
           /\ Becomes(p, "read", (proc[p].todo \cup Targets(disk, f)) \ (DOMAIN proc[p].seen \cup {f}),
                      IF f \in Contracts THEN proc[p].closure ELSE proc[p].closure \cup Targets(disk, f),
                      Extend(proc[p].seen, f, disk[f]), proc[p].deps)
<1> DEFINE seen == Extend(proc[p].seen, f, disk[f])
           targets == Targets(disk, f)
           todo == (proc[p].todo \cup targets) \ DOMAIN seen
           closure == IF f \in Contracts THEN proc[p].closure ELSE proc[p].closure \cup targets
<1>1. targets \subseteq Files
  BY TargetsType DEF Typed
<1>2. seen \in Snapshot /\ DOMAIN seen = DOMAIN proc[p].seen \cup {f}
  <2>1. proc[p].seen \in Snapshot /\ disk[f] \in Contents
    BY DEF Typed, Disks, Process
  <2>2. Extend(proc[p].seen, f, disk[f]) \in Snapshot
    BY <2>1, ExtendSnapshot
  <2> QED  BY <2>2 DEF Extend
<1>3. todo \in SUBSET Files /\ closure \in SUBSET Files
  BY <1>1 DEF Typed, Process
<1>4. proc' = [proc EXCEPT ![p].seen = seen, ![p].todo = (@ \cup targets) \ DOMAIN seen,
                              ![p].closure = IF f \in Contracts THEN @ ELSE @ \cup targets]
  BY DEF Read
<1> HIDE DEF seen, targets
<1>5. Becomes(p, "read", todo, closure, seen, proc[p].deps)
  <2> DEFINE read == [proc EXCEPT ![p].seen = seen]
             next == [read EXCEPT ![p].todo = todo]
  <2>1. read \in [Procs -> Process] /\ read[p].todo = proc[p].todo /\ read[p].closure = proc[p].closure
    BY <1>2 DEF Typed, Process
  <2> HIDE DEF todo, closure
  <2>2. next \in [Procs -> Process] /\ next[p].closure = proc[p].closure
    BY <1>3, <2>1 DEF Process
  <2>3. proc' = [next EXCEPT ![p].closure = closure]
    BY <1>4, <2>1, <2>2 DEF todo, closure
  <2> HIDE DEF next
  <2>4. proc' \in [Procs -> Process]
    BY <1>3, <2>2, <2>3 DEF Process
  <2> QED  BY <1>4, <2>4 DEF Typed, Read, Becomes, Process, todo, closure
<1>6. Unchanged
  BY DEF Read, Unchanged
<1> QED  BY <1>1, <1>2, <1>5, <1>6 DEF targets, seen

LEMMA EndFrontendBecomes ==
    ASSUME Typed, NEW p \in Procs, EndFrontend(p)
    PROVE  /\ Unchanged
           /\ Becomes(p, "hash", WithSaMod(proc[p].closure), proc[p].closure, proc[p].seen, proc[p].deps)
<1>1. WithSaMod(proc[p].closure) \in SUBSET Files
  BY GateAssumption DEF Typed, WithSaMod, Process
<1>2. proc' \in [Procs -> Process]
  BY <1>1, ZenonT(60) DEF Typed, EndFrontend, Process
<1> QED  BY <1>2 DEF Typed, EndFrontend, Becomes, Process, Unchanged

LEMMA HashBecomes ==
    ASSUME Typed, NEW p \in Procs, NEW f \in Files, Hash(p, f)
    PROVE  /\ Unchanged
           /\ Becomes(p, "hash", proc[p].todo \ {f}, proc[p].closure, proc[p].seen,
                      IF disk[f] = Absent THEN proc[p].deps ELSE Extend(proc[p].deps, f, disk[f]))
<1> DEFINE deps == IF disk[f] = Absent THEN proc[p].deps ELSE Extend(proc[p].deps, f, disk[f])
           todo == proc[p].todo \ {f}
<1>1. deps \in Snapshot /\ todo \in SUBSET Files
  <2>1. proc[p] \in Process /\ disk[f] \in Contents \cup {Absent}
    BY DEF Typed, Disks
  <2>2. proc[p].deps \in Snapshot /\ proc[p].todo \in SUBSET Files
    BY <2>1 DEF Process
  <2> QED  BY <2>1, <2>2, ExtendSnapshot
<1>2. proc' = [proc EXCEPT ![p].todo = @ \ {f},
                              ![p].deps = IF disk[f] = Absent THEN @ ELSE Extend(@, f, disk[f])]
  BY DEF Hash
<1>3. Becomes(p, "hash", todo, proc[p].closure, proc[p].seen, deps)
  <2>1. proc' \in [Procs -> Process]
    BY <1>1, <1>2, ZenonT(60) DEF Typed, Process
  <2> QED  BY <2>1, <1>2 DEF Typed, Hash, Becomes, Process
<1> QED  BY <1>3 DEF deps, todo, Hash, Unchanged

LEMMA WriteArtifactBecomes ==
    ASSUME Typed, NEW p \in Procs, WriteArtifact(p)
    PROVE  /\ disk' = disk /\ json' = json /\ edits' = edits
           /\ Becomes(p, "json", {}, proc[p].closure, proc[p].seen, proc[p].deps)
<1>1. proc' \in [Procs -> Process]
  BY DEF Typed, WriteArtifact, Process
<1> QED  BY <1>1 DEF Typed, WriteArtifact, Becomes, Process

LEMMA WriteManifestBecomes ==
    ASSUME Typed, NEW p \in Procs, WriteManifest(p)
    PROVE  /\ disk' = disk /\ bin' = bin /\ edits' = edits
           /\ Becomes(p, "done", proc[p].todo, proc[p].closure, proc[p].seen, proc[p].deps)
<1>1. proc' \in [Procs -> Process]
  BY DEF Typed, WriteManifest, Process
<1> QED  BY <1>1 DEF Typed, WriteManifest, Becomes, Process

----------------------------------------------------------------------------
(* Type correctness *)

LEMMA StepTyped == Typed /\ [Next]_vars => Typed'
<1> SUFFICES ASSUME Typed, [Next]_vars PROVE Typed'
  OBVIOUS
<1>1. ASSUME NEW p \in Procs, NoManifest(p) \/ End(p) PROVE Typed'
  BY <1>1, RunFrontendBecomes, BecomesIdle DEF NoManifest, End, Becomes, Typed
<1>2. ASSUME NEW p \in Procs, OpenManifest(p) \/ Hit(p) \/ EndFrontend(p) PROVE Typed'
  BY <1>2, OpenManifestBecomes, HitBecomes, EndFrontendBecomes DEF Becomes, Unchanged, Typed
<1>3. ASSUME NEW p \in Procs, WriteArtifact(p) PROVE Typed'
  <2>1. bin' \in Snapshot
    BY <1>3 DEF WriteArtifact, Typed, Process
  <2> QED  BY <1>3, <2>1, WriteArtifactBecomes DEF Becomes, Typed
<1>4. ASSUME NEW p \in Procs, WriteManifest(p) PROVE Typed'
  <2>1. json' \in Snapshot
    BY <1>4 DEF WriteManifest, Typed, Process
  <2> QED  BY <1>4, <2>1, WriteManifestBecomes DEF Becomes, Typed
<1>5. ASSUME NEW p \in Procs, NEW f \in Files, Verify(p, f) PROVE Typed'
  <2>1. CASE disk[f] = proc[p].deps[f]
    BY <1>5, <2>1, VerifyBecomes DEF Becomes, Unchanged, Typed
  <2>2. CASE disk[f] # proc[p].deps[f]
    BY <1>5, <2>2, RunFrontendBecomes DEF Verify, Becomes, Typed
  <2> QED  BY <2>1, <2>2
<1>6. ASSUME NEW p \in Procs, NEW f \in Files, Read(p, f) PROVE Typed'
  <2>1. CASE disk[f] = Absent
    BY <1>6, <2>1, BecomesIdle DEF Read, Becomes, Typed
  <2>2. CASE disk[f] # Absent
    BY <1>6, <2>2, ReadBecomes DEF Becomes, Unchanged, Typed
  <2> QED  BY <2>1, <2>2
<1>7. ASSUME NEW p \in Procs, NEW f \in Files, Hash(p, f) PROVE Typed'
  BY <1>7, HashBecomes DEF Becomes, Unchanged, Typed
<1>8. ASSUME NEW f \in Files, NEW c \in Contents \cup {Absent}, Edit(f, c) PROVE Typed'
  <2>1. disk' \in Disks
    BY <1>8 DEF Edit, Typed, Disks
  <2>2. edits' \in 0..MaxEdits
    BY <1>8, GateAssumption DEF Edit, Typed
  <2> QED  BY <1>8, <2>1, <2>2 DEF Edit, Typed
<1>9. CASE UNCHANGED vars
  BY <1>9 DEF vars, Typed
<1> QED  BY <1>1, <1>2, <1>3, <1>4, <1>5, <1>6, <1>7, <1>8, <1>9 DEF Next

LEMMA InitTyped == Init => Typed
<1>1. Idle \in Process
  BY NothingSnapshot DEF Idle, Process
<1> QED  BY <1>1, NothingSnapshot, GateAssumption DEF Init, Typed, Disks

\* The gate's state is what the code keeps: artifacts and manifests map files
\* to contents, and a process works through files of the compilation.
THEOREM TypeCorrect == Spec => []TypeOK
<1>1. Spec => []Typed
  BY InitTyped, StepTyped, PTL DEF Spec
<1> QED  BY <1>1, TypedIsTypeOK, PTL

----------------------------------------------------------------------------
(* Honesty *)

\* What the closure reports and what the front-end reads are the same files.
ContractsFlat == \A f \in Contracts, c \in Contents : Imports[f][c] = {}

Agrees(s) == \A f \in DOMAIN s : s[f] = disk[f]

\* Once hashed, a manifest tells of every source, and of the workspace manifest.
Covers(manifest, todo) ==
    /\ Agrees(manifest)
    /\ \A f \in Sources(disk) \cup {SaMod} : f \in todo \/ f \in DOMAIN manifest \/ disk[f] = Absent

Verifying(x) ==
    /\ \A f \in DOMAIN x.deps \ x.todo : x.deps[f] = disk[f]
    /\ Agrees(x.deps) => bin = Compile(disk)

Reading(x) ==
    /\ Root \in x.closure /\ x.closure \subseteq Sources(disk)
    /\ x.closure = DOMAIN x.seen \cup x.todo
    /\ Agrees(x.seen)
    /\ \A f \in DOMAIN x.seen : Targets(disk, f) \subseteq x.closure
    /\ x.deps = Nothing

Sound(x) ==
    /\ x.pc = "verify" => Verifying(x)
    /\ x.pc = "read" => Reading(x)
    /\ x.pc \in {"hit", "hash", "json", "done"} => x.seen = Compile(disk)
    /\ x.pc = "hash" => Covers(x.deps, x.todo)
    /\ x.pc = "json" => Covers(x.deps, {}) /\ bin = Compile(disk)

\* The files d that the artifact and the manifest were made of.  Files may
\* have changed or gone since, but none has appeared.
MadeOf(d) ==
    /\ bin = Compile(d)
    /\ \A f \in DOMAIN json : json[f] = d[f]
    /\ \A f \in Sources(d) \cup {SaMod} : f \in DOMAIN json \/ d[f] = Absent
    /\ \A f \in Files : d[f] = Absent => disk[f] = Absent

Storing == \E p \in Procs : proc[p].pc = "json"

Gate ==
    /\ Typed
    /\ \A p \in Procs : Sound(proc[p])
    /\ json # Nothing => Storing \/ \E d \in Disks : MadeOf(d)

\* Resolution asks only of files that the manifest tells of, or that were
\* absent and still are.
LEMMA MadeOfAgrees ==
    ASSUME Typed, NEW d \in Disks, MadeOf(d), Agrees(json)
    PROVE  Compile(disk) = Compile(d)
<1>1. ASSUME NEW f \in Sources(d) \cup {SaMod} PROVE disk[f] = d[f]
  <2>1. f \in Files
    BY SourcesClosed, GateAssumption
  <2> QED  BY <2>1 DEF MadeOf, Agrees
<1>2. ASSUME NEW f \in Sources(d) PROVE Targets(disk, f) = Targets(d, f)
  <2>1. disk[f] = d[f] /\ f \in Files
    BY <1>1, SourcesClosed
  <2>2. CASE d[f] = Absent
    BY <2>1, <2>2 DEF Targets
  <2>3. CASE d[f] # Absent
    <3>1. Imports[f][d[f]] \subseteq Specifiers
      BY <2>1, <2>3, GateAssumption DEF Disks
    <3>2. ASSUME NEW i \in Imports[f][d[f]] PROVE Resolve(disk, i) = Resolve(d, i)
      <4>1. disk[SaMod] = d[SaMod]
        BY <1>1
      <4>2. CASE d[SaMod] = Absent
        BY <4>1, <4>2 DEF Resolve
      <4>3. CASE d[SaMod] # Absent /\ d[Member[i]] = Absent
        <5>1. Member[i] \in Files
          BY <3>1, GateAssumption
        <5> QED  BY <4>1, <4>3, <5>1 DEF Resolve, MadeOf
      <4>4. CASE d[SaMod] # Absent /\ d[Member[i]] # Absent
        <5>1. Member[i] \in Targets(d, f)
          BY <2>3, <4>4 DEF Targets, Resolve
        <5>2. disk[Member[i]] = d[Member[i]]
          BY <1>1, <5>1, SourcesClosed
        <5> QED  BY <4>1, <4>4, <5>2 DEF Resolve
      <4> QED  BY <4>2, <4>3, <4>4
    <3> QED  BY <2>1, <2>3, <3>2 DEF Targets
  <2> QED  BY <2>2, <2>3
<1> QED  BY <1>1, <1>2, SourcesAgree DEF Typed

LEMMA GateHonest == Gate => Honest
<1> SUFFICES ASSUME Gate, Matches(json) PROVE bin = Compile(disk)
  BY DEF Honest
<1>1. Typed /\ Agrees(json) /\ json # Nothing
  BY DEF Gate, Matches, Agrees
<1>2. CASE Storing
  BY <1>2 DEF Gate, Storing, Sound
<1>3. CASE \E d \in Disks : MadeOf(d)
  <2>1. PICK d \in Disks : MadeOf(d)
    BY <1>3
  <2> QED  BY <1>1, <2>1, MadeOfAgrees DEF MadeOf
<1> QED  BY <1>1, <1>2, <1>3 DEF Gate

----------------------------------------------------------------------------
(* What a process knows, as long as no file changes *)

LEMMA RunFrontendSound ==
    ASSUME Typed, NEW x \in Process, x.pc = "read", x.todo = {Root}, x.closure = {Root},
           x.seen = Nothing, x.deps = Nothing
    PROVE  Sound(x)
<1>1. Root \in Sources(disk)
  BY SourcesClosed DEF Typed
<1> QED  BY <1>1, NothingSnapshot DEF Sound, Reading, Agrees

LEMMA VerifySound ==
    ASSUME Gate, NEW p \in Procs, NEW f \in Files, Verify(p, f), disk[f] = proc[p].deps[f]
    PROVE  Sound(proc[p])'
<1>1. Typed /\ Verifying(proc[p]) /\ Unchanged
  BY VerifyBecomes DEF Gate, Sound, Verify
<1>2. /\ proc'[p].pc = "verify" /\ proc'[p].deps = proc[p].deps
      /\ proc'[p].todo = proc[p].todo \ {f}
  BY <1>1, VerifyBecomes DEF Becomes
<1> QED  BY <1>1, <1>2 DEF Sound, Verifying, Agrees, Unchanged

LEMMA OpenManifestSound ==
    ASSUME Gate, NEW p \in Procs, OpenManifest(p)
    PROVE  Sound(proc[p])'
<1>1. Typed /\ Honest /\ json # Nothing
  BY GateHonest DEF Gate, OpenManifest
<1>2. /\ Unchanged
      /\ proc'[p].pc = "verify" /\ proc'[p].deps = json /\ proc'[p].todo = DOMAIN json
  BY <1>1, OpenManifestBecomes DEF Becomes
<1> QED  BY <1>1, <1>2 DEF Honest, Matches, Sound, Verifying, Agrees, Unchanged

LEMMA HitSound ==
    ASSUME Gate, NEW p \in Procs, Hit(p)
    PROVE  Sound(proc[p])'
<1>1. Typed /\ Verifying(proc[p]) /\ proc[p].todo = {}
  BY DEF Gate, Sound, Hit
<1>2. Unchanged /\ proc'[p].pc = "hit" /\ proc'[p].seen = bin
  BY <1>1, HitBecomes DEF Becomes
<1>3. bin = Compile(disk)
  BY <1>1 DEF Verifying, Agrees
<1> QED  BY <1>2, <1>3 DEF Sound, Unchanged

LEMMA ReadSound ==
    ASSUME ContractsFlat, Gate, NEW p \in Procs, NEW f \in Files, Read(p, f), disk[f] # Absent
    PROVE  Sound(proc[p])'
<1> DEFINE x == proc[p]
           y == proc'[p]
<1>1. Typed /\ Reading(x) /\ f \in x.todo /\ disk[f] \in Contents
  BY DEF Gate, Sound, Read, Typed, Disks
<1>2. x.seen \in Snapshot
  BY <1>1 DEF Process, Typed
<1>3. Targets(disk, f) \subseteq Sources(disk)
  BY <1>1, SourcesClosed DEF Reading, Typed
<1>4. f \in Contracts => Targets(disk, f) = {}
  BY <1>1 DEF ContractsFlat, Targets
<1>5. Unchanged /\ y.pc = "read"
      /\ y.todo = (x.todo \cup Targets(disk, f)) \ (DOMAIN x.seen \cup {f})
      /\ y.closure = x.closure \cup Targets(disk, f)
      /\ y.seen = Extend(x.seen, f, disk[f]) /\ y.deps = x.deps
  <2> HIDE DEF x, y
  <2>1. /\ Unchanged
        /\ Becomes(p, "read", (x.todo \cup Targets(disk, f)) \ (DOMAIN x.seen \cup {f}),
                   IF f \in Contracts THEN x.closure ELSE x.closure \cup Targets(disk, f),
                   Extend(x.seen, f, disk[f]), x.deps)
    BY <1>1, ReadBecomes DEF x
  <2> QED  BY <1>4, <2>1 DEF Becomes, y
<1> HIDE DEF x, y
<1>6. /\ DOMAIN y.seen = DOMAIN x.seen \cup {f}
      /\ y.seen[f] = disk[f] /\ \A g \in DOMAIN x.seen \ {f} : y.seen[g] = x.seen[g]
  <2> DEFINE e == Extend(x.seen, f, disk[f])
  <2>1. /\ DOMAIN e = DOMAIN x.seen \cup {f}
        /\ e[f] = disk[f] /\ \A g \in DOMAIN x.seen \ {f} : e[g] = x.seen[g]
    BY DEF Extend
  <2> HIDE DEF e
  <2>2. y.seen = e
    BY <1>5 DEF e
  <2> QED  BY <2>1, <2>2
<1>7. /\ Root \in y.closure /\ y.closure \subseteq Sources(disk)
      /\ y.closure = DOMAIN y.seen \cup y.todo /\ y.deps = Nothing
  BY <1>1, <1>3, <1>5, <1>6 DEF Reading
<1>8. \A g \in DOMAIN y.seen : y.seen[g] = disk[g] /\ Targets(disk, g) \subseteq y.closure
  BY <1>1, <1>5, <1>6 DEF Reading, Agrees
<1>9. disk' = disk /\ bin' = bin
  BY <1>5 DEF Unchanged
<1> QED  BY <1>5, <1>7, <1>8, <1>9 DEF Sound, Reading, Agrees, y

LEMMA EndFrontendSound ==
    ASSUME Allowed = {}, Gate, NEW p \in Procs, EndFrontend(p)
    PROVE  Sound(proc[p])'
<1> DEFINE x == proc[p]
           y == proc'[p]
<1>1. Typed /\ Reading(x) /\ x.todo = {} /\ x.seen \in Snapshot
  BY DEF Gate, Sound, EndFrontend, Typed, Process
<1>2. Unchanged /\ y.pc = "hash" /\ y.todo = x.closure \cup {SaMod}
      /\ y.seen = x.seen /\ y.deps = x.deps
  BY <1>1, EndFrontendBecomes DEF Becomes, WithSaMod
<1>3. DOMAIN x.seen = Sources(disk) /\ x.closure = Sources(disk)
  <2>1. DOMAIN x.seen \subseteq Files /\ disk \in Disks
    BY <1>1, Snapshots DEF Typed
  <2>2. Root \in DOMAIN x.seen /\ \A f \in DOMAIN x.seen : Targets(disk, f) \subseteq DOMAIN x.seen
    BY <1>1 DEF Reading
  <2>3. Sources(disk) \subseteq DOMAIN x.seen
    BY <2>1, <2>2, SourcesLeast
  <2> QED  BY <1>1, <2>3 DEF Reading
<1>4. x.seen = Compile(disk)
  <2>1. x.seen = [f \in DOMAIN x.seen |-> x.seen[f]]
    BY <1>1, Snapshots
  <2>2. \A f \in DOMAIN x.seen : x.seen[f] = disk[f]
    BY <1>1 DEF Reading, Agrees
  <2> QED  BY <1>3, <2>1, <2>2 DEF Compile
<1>5. Covers(y.deps, y.todo)
  BY <1>1, <1>2, <1>3, NothingSnapshot DEF Covers, Agrees, Reading
<1> QED  BY <1>2, <1>4, <1>5 DEF Sound, Covers, Agrees, Unchanged

LEMMA HashSound ==
    ASSUME Gate, NEW p \in Procs, NEW f \in Files, Hash(p, f)
    PROVE  Sound(proc[p])'
<1> DEFINE x == proc[p]
           y == proc'[p]
<1>1. /\ Typed /\ Covers(x.deps, x.todo) /\ x.seen = Compile(disk)
      /\ x.deps \in Snapshot /\ disk[f] \in Contents \cup {Absent}
  BY DEF Gate, Sound, Hash, Typed, Process, Disks
<1>2. /\ Unchanged /\ y.pc = "hash" /\ y.todo = x.todo \ {f} /\ y.seen = x.seen
      /\ y.deps = IF disk[f] = Absent THEN x.deps ELSE Extend(x.deps, f, disk[f])
  BY <1>1, HashBecomes DEF Becomes
<1>3. Covers(y.deps, y.todo)
  <2>1. CASE disk[f] = Absent
    BY <1>1, <1>2, <2>1 DEF Covers, Agrees
  <2>2. CASE disk[f] # Absent
    <3> HIDE DEF x, y
    <3>1. /\ DOMAIN y.deps = DOMAIN x.deps \cup {f} /\ y.deps[f] = disk[f]
          /\ \A g \in DOMAIN x.deps \ {f} : y.deps[g] = x.deps[g]
      <4> DEFINE e == Extend(x.deps, f, disk[f])
      <4>1. /\ DOMAIN e = DOMAIN x.deps \cup {f}
            /\ e[f] = disk[f] /\ \A g \in DOMAIN x.deps \ {f} : e[g] = x.deps[g]
        BY DEF Extend
      <4> HIDE DEF e
      <4>2. y.deps = e
        BY <1>2, <2>2 DEF e
      <4> QED  BY <4>1, <4>2
    <3> QED  BY <1>1, <1>2, <3>1 DEF Covers, Agrees
  <2> QED  BY <2>1, <2>2
<1> QED  BY <1>1, <1>2, <1>3 DEF Sound, Covers, Agrees, Unchanged

LEMMA WriteArtifactSound ==
    ASSUME Gate, NEW p \in Procs, WriteArtifact(p)
    PROVE  bin' = Compile(disk) /\ Sound(proc[p])'
<1>1. /\ Typed /\ Covers(proc[p].deps, {}) /\ proc[p].seen = Compile(disk) /\ bin' = proc[p].seen
  BY DEF Gate, Sound, WriteArtifact
<1>2. /\ disk' = disk /\ proc'[p].pc = "json"
      /\ proc'[p].seen = proc[p].seen /\ proc'[p].deps = proc[p].deps
  BY <1>1, WriteArtifactBecomes DEF Becomes
<1> QED  BY <1>1, <1>2 DEF Sound, Covers, Agrees

LEMMA WriteManifestSound ==
    ASSUME Gate, NEW p \in Procs, WriteManifest(p)
    PROVE  Sound(proc[p])' /\ disk \in Disks /\ MadeOf(disk)'
<1>1. /\ Typed /\ Covers(proc[p].deps, {}) /\ proc[p].seen = Compile(disk) /\ bin = Compile(disk)
      /\ json' = proc[p].deps
  BY DEF Gate, Sound, WriteManifest
<1>2. disk' = disk /\ bin' = bin /\ proc'[p].pc = "done" /\ proc'[p].seen = proc[p].seen
  BY <1>1, WriteManifestBecomes DEF Becomes
<1>3. Sound(proc[p])'
  BY <1>1, <1>2 DEF Sound
<1>4. MadeOf(disk)'
  BY <1>1, <1>2 DEF MadeOf, Covers, Agrees
<1> QED  BY <1>1, <1>3, <1>4 DEF Typed

LEMMA OthersSound ==
    ASSUME NEW p, NEW q \in Procs \ {p}, Sound(proc[q]), proc'[q] = proc[q],
           disk' = disk, bin' = bin \/ bin' = Compile(disk)
    PROVE  Sound(proc[q])'
BY DEF Sound, Verifying, Reading, Covers, Agrees

----------------------------------------------------------------------------
(* The invariant *)

\* A step of p that leaves the store alone and does not end a store.
LEMMA QuietStep ==
    ASSUME Gate, Typed', NEW p \in Procs, proc[p].pc # "json", Unchanged,
           \A q \in Procs \ {p} : proc'[q] = proc[q], Sound(proc[p])'
    PROVE  Gate'
<1>1. \A q \in Procs : Sound(proc[q])'
  BY OthersSound DEF Gate, Unchanged
<1>2. Storing => Storing'
  BY DEF Storing
<1>3. \A d \in Disks : MadeOf(d) => MadeOf(d)'
  BY DEF MadeOf, Unchanged
<1> QED  BY <1>1, <1>2, <1>3 DEF Gate, Unchanged

LEMMA StepGate == ASSUME Allowed = {}, ContractsFlat PROVE Gate /\ [Next]_vars => Gate'
<1> SUFFICES ASSUME Gate, [Next]_vars PROVE Gate'
  OBVIOUS
<1>0. Typed /\ Typed'
  BY StepTyped DEF Gate
<1>1. ASSUME NEW p \in Procs, RunFrontend(p), Unchanged, proc[p].pc # "json" PROVE Gate'
  <2>1. Becomes(p, "read", {Root}, {Root}, Nothing, Nothing)
    BY <1>0, <1>1, RunFrontendBecomes
  <2>2. proc'[p] \in Process
    BY <1>0 DEF Typed
  <2>3. Typed' => Sound(proc[p])'
    BY <1>0, <1>1, <2>1, <2>2, RunFrontendSound DEF Becomes, Unchanged, Sound, Reading, Agrees
  <2> QED  BY <1>0, <1>1, <2>1, <2>3, QuietStep DEF Becomes
<1>2. ASSUME NEW p \in Procs, proc' = [proc EXCEPT ![p] = Idle], Unchanged, proc[p].pc # "json"
      PROVE  Gate'
  <2>1. Becomes(p, "idle", {}, {}, Nothing, Nothing)
    BY <1>0, <1>2, BecomesIdle
  <2>2. Sound(proc[p])'
    BY <2>1 DEF Becomes, Sound
  <2> QED  BY <1>0, <1>2, <2>1, <2>2, QuietStep DEF Becomes
<1>3. ASSUME NEW p \in Procs, NoManifest(p) \/ End(p) PROVE Gate'
  BY <1>1, <1>2, <1>3 DEF NoManifest, End, Unchanged
<1>4. ASSUME NEW p \in Procs, OpenManifest(p) PROVE Gate'
  BY <1>0, <1>4, OpenManifestBecomes, OpenManifestSound, QuietStep DEF Becomes, OpenManifest
<1>5. ASSUME NEW p \in Procs, Hit(p) PROVE Gate'
  BY <1>0, <1>5, HitBecomes, HitSound, QuietStep DEF Becomes, Hit
<1>6. ASSUME NEW p \in Procs, EndFrontend(p) PROVE Gate'
  BY <1>0, <1>6, EndFrontendBecomes, EndFrontendSound, QuietStep DEF Becomes, EndFrontend
<1>7. ASSUME NEW p \in Procs, NEW f \in Files, Verify(p, f) PROVE Gate'
  <2>1. CASE disk[f] = proc[p].deps[f]
    BY <1>0, <1>7, <2>1, VerifyBecomes, VerifySound, QuietStep DEF Becomes, Verify
  <2>2. CASE disk[f] # proc[p].deps[f]
    BY <1>1, <1>7, <2>2 DEF Verify, Unchanged
  <2> QED  BY <2>1, <2>2
<1>8. ASSUME NEW p \in Procs, NEW f \in Files, Read(p, f) PROVE Gate'
  <2>1. CASE disk[f] = Absent
    BY <1>2, <1>8, <2>1 DEF Read, Unchanged
  <2>2. CASE disk[f] # Absent
    BY <1>0, <1>8, <2>2, ReadBecomes, ReadSound, QuietStep DEF Becomes, Read
  <2> QED  BY <2>1, <2>2
<1>9. ASSUME NEW p \in Procs, NEW f \in Files, Hash(p, f) PROVE Gate'
  BY <1>0, <1>9, HashBecomes, HashSound, QuietStep DEF Becomes, Hash
<1>10. ASSUME NEW p \in Procs, WriteArtifact(p) PROVE Gate'
  <2>1. /\ disk' = disk /\ proc'[p].pc = "json"
        /\ \A q \in Procs \ {p} : proc'[q] = proc[q]
    BY <1>0, <1>10, WriteArtifactBecomes DEF Becomes
  <2>2. bin' = Compile(disk) /\ Sound(proc[p])'
    BY <1>10, WriteArtifactSound
  <2>3. \A q \in Procs : Sound(proc[q])'
    BY <2>1, <2>2, OthersSound DEF Gate
  <2>4. Storing'
    BY <2>1 DEF Storing
  <2> QED  BY <1>0, <2>3, <2>4 DEF Gate
<1>11. ASSUME NEW p \in Procs, WriteManifest(p) PROVE Gate'
  <2>1. /\ disk' = disk /\ bin' = bin
        /\ \A q \in Procs \ {p} : proc'[q] = proc[q]
    BY <1>0, <1>11, WriteManifestBecomes DEF Becomes
  <2>2. Sound(proc[p])' /\ disk' \in Disks /\ MadeOf(disk)'
    BY <1>11, <2>1, WriteManifestSound
  <2>3. \A q \in Procs : Sound(proc[q])'
    BY <2>1, <2>2, OthersSound DEF Gate
  <2>4. \E d \in Disks : MadeOf(d)'
    BY <2>1, <2>2 DEF MadeOf
  <2> QED  BY <1>0, <2>3, <2>4 DEF Gate
<1>12. ASSUME NEW f \in Files, NEW c \in Contents \cup {Absent}, Edit(f, c) PROVE Gate'
  <2>1. /\ \A p \in Procs : proc[p].pc = "idle"
        /\ disk[f] # Absent
        /\ disk' = [disk EXCEPT ![f] = c] /\ bin' = bin /\ json' = json /\ proc' = proc
    BY <1>12 DEF Edit
  <2>2. \A p \in Procs : Sound(proc[p])'
    BY <2>1 DEF Sound
  <2>3. ASSUME NEW d \in Disks, MadeOf(d) PROVE MadeOf(d)'
    BY <1>0, <2>1, <2>3 DEF MadeOf, Typed, Disks
  <2>4. ~Storing
    BY <2>1 DEF Storing
  <2> QED  BY <1>0, <2>1, <2>2, <2>3, <2>4 DEF Gate
<1>13. CASE UNCHANGED vars
  <2>1. disk' = disk /\ bin' = bin /\ json' = json /\ proc' = proc
    BY <1>13 DEF vars
  <2> QED  BY <1>0, <2>1 DEF Gate, Sound, Verifying, Reading, Covers, Agrees, Storing, MadeOf
<1> QED
  BY <1>3, <1>4, <1>5, <1>6, <1>7, <1>8, <1>9, <1>10, <1>11, <1>12, <1>13 DEF Next

LEMMA AlwaysGate == ASSUME Allowed = {}, ContractsFlat PROVE Spec => []Gate
<1>1. Init => Gate
  BY InitTyped DEF Init, Gate, Sound, Idle
<1> QED  BY <1>1, StepGate, PTL DEF Spec

\* Whatever edits, deletions and interleavings of compiling processes: while
\* the manifest matches the files, the artifact beside it is what a full compile
\* would make of them (tryLoadFreshArtifact need not run the front-end).
THEOREM HonestGate == ASSUME Allowed = {}, ContractsFlat PROVE Spec => []Honest
<1> QED  BY AlwaysGate, GateHonest, PTL

\* What a command returns is the artifact of the files as they are, by hit or
\* by compile, even if another process stored in between.
THEOREM FreshResult == ASSUME Allowed = {}, ContractsFlat PROVE Spec => []Fresh
<1>1. Gate => Fresh
  BY DEF Gate, Sound, Fresh
<1> QED  BY <1>1, AlwaysGate, PTL
=============================================================================
