---------------------------- MODULE FreshnessGate ----------------------------
(***************************************************************************)
(* The freshness gate of plugin_freshness.zig around one compilation (one  *)
(* root source, output kind and set of options): the manifest that records *)
(* what an artifact was made from, the load that vouches for it, and the   *)
(* store at the end of a full compile, while sources are edited and        *)
(* several processes compile at once.                                      *)
(*                                                                         *)
(* The front-end is what it reads: an artifact is the function from the    *)
(* files it was made from to their contents.  A file is written in one     *)
(* step: the I/O library that does it is not part of the repository.       *)
(***************************************************************************)
EXTENDS Naturals, FiniteSets

CONSTANTS
    Files,
    Root,       \* the root source
    SaMod,      \* the workspace manifest that governs it
    Contracts,  \* those of Files that are .sa, .sai or .sal
    Contents,
    Absent,     \* what a path holds when there is no file
    Specifiers, \* what an @import names
    Imports,    \* Imports[f][c]: the specifiers in file f when its content is c
    Member,     \* the workspace member's file a specifier may resolve to
    Local,      \* the file beside the importer it resolves to otherwise
    Procs,      \* processes that compile the root
    Allowed,    \* what else may happen, see below
    MaxEdits    \* bound on edits

(* "create": a path that held no file may come to hold one.                *)
(* "edit":   files may change while a process compiles or loads.           *)
(* "crash":  a process may die between the two writes of a store.          *)
(* "above":  the workspace manifest is in a directory above the root's.    *)
Shapes == {"create", "edit", "crash", "above"}

ASSUME GateAssumption ==
    /\ {Root, SaMod} \cup Contracts \subseteq Files
    /\ Absent \notin Contents
    /\ Imports \in [Files -> [Contents -> SUBSET Specifiers]]
    /\ Member \in [Specifiers -> Files]
    /\ Local \in [Specifiers -> Files]
    /\ Allowed \subseteq Shapes
    /\ MaxEdits \in Nat

VARIABLES
    disk,       \* content of each path
    bin,        \* the stored artifact
    json,       \* the stored manifest: the content it recorded for each path
    proc,       \* the processes
    edits

vars == <<disk, bin, json, proc, edits>>

Snapshot == UNION {[S -> Contents] : S \in SUBSET Files}
Nothing  == [f \in {} |-> Absent]    \* no file, or nothing yet

Idle == [pc |-> "idle", todo |-> {}, closure |-> {}, seen |-> Nothing, deps |-> Nothing]

TypeOK ==
    /\ disk \in [Files -> Contents \cup {Absent}]
    /\ bin \in Snapshot
    /\ json \in Snapshot
    /\ proc \in [Procs -> [pc : {"idle", "verify", "hit", "read", "hash", "json", "done"},
                           todo : SUBSET Files,
                           closure : SUBSET Files,
                           seen : Snapshot,      \* what its artifact is made from
                           deps : Snapshot]]     \* manifest loaded or to be stored
    /\ edits \in 0 .. MaxEdits

----------------------------------------------------------------------------
(* What a compilation reads *)

(* mutant: a specifier taken for a path *)
ResolveByName(d, i) == i

(* resolveImportFile: a package of the workspace first, then the directory *)
(* of the importer.                                                        *)
Resolve(d, i) ==
    IF d[SaMod] # Absent /\ d[Member[i]] # Absent THEN Member[i] ELSE Local[i]

Targets(d, f) ==
    IF d[f] = Absent THEN {} ELSE {Resolve(d, i) : i \in Imports[f][d[f]]}

(* The sources of a compilation: the least set that holds the root and     *)
(* what its members import.                                                *)
Sources(d) ==
    {f \in Files : \A S \in SUBSET Files :
                       Root \in S /\ (\A g \in S : Targets(d, g) \subseteq S) => f \in S}

Compile(d) == [f \in Sources(d) |-> d[f]]

----------------------------------------------------------------------------
(* tryLoadFreshArtifact *)

Extend(snapshot, f, c) == [g \in DOMAIN snapshot \cup {f} |-> IF g = f THEN c ELSE snapshot[g]]

RunFrontend(p) ==
    proc' = [proc EXCEPT ![p] = [Idle EXCEPT !.pc = "read", !.todo = {Root}, !.closure = {Root}]]

NoManifest(p) ==
    /\ proc[p].pc = "idle"
    /\ json = Nothing
    /\ RunFrontend(p)
    /\ UNCHANGED <<disk, bin, json, edits>>

(* mutant: the root source vouches for the rest *)
VerifyRoot(manifest) == {Root}

ToVerify(manifest) == DOMAIN manifest

OpenManifest(p) ==
    /\ proc[p].pc = "idle"
    /\ json # Nothing
    /\ proc' = [proc EXCEPT ![p] = [Idle EXCEPT !.pc = "verify", !.todo = ToVerify(json), !.deps = json]]
    /\ UNCHANGED <<disk, bin, json, edits>>

Verify(p, f) ==
    /\ proc[p].pc = "verify" /\ f \in proc[p].todo
    /\ IF disk[f] = proc[p].deps[f]
       THEN proc' = [proc EXCEPT ![p].todo = @ \ {f}]
       ELSE RunFrontend(p)
    /\ UNCHANGED <<disk, bin, json, edits>>

Hit(p) ==
    /\ proc[p].pc = "verify" /\ proc[p].todo = {}
    /\ proc' = [proc EXCEPT ![p].pc = "hit", ![p].seen = bin]
    /\ UNCHANGED <<disk, bin, json, edits>>

----------------------------------------------------------------------------
(* runSlaFrontend *)

(* The imports of a contract file are read, and read on, but not reported  *)
(* to the closure.                                                         *)
Read(p, f) ==
    /\ proc[p].pc = "read" /\ f \in proc[p].todo
    /\ IF disk[f] = Absent
       THEN proc' = [proc EXCEPT ![p] = Idle]      \* an import error
       ELSE LET seen == Extend(proc[p].seen, f, disk[f])
            IN  proc' = [proc EXCEPT
                    ![p].seen = seen,
                    ![p].todo = (@ \cup Targets(disk, f)) \ DOMAIN seen,
                    ![p].closure = IF f \in Contracts THEN @ ELSE @ \cup Targets(disk, f)]
    /\ UNCHANGED <<disk, bin, json, edits>>

(* mutant: the workspace manifest is not fingerprinted *)
NoFingerprint(closure) == closure

(* "fingerprint it too when it sits next to the root source" *)
WithSaMod(closure) == IF "above" \in Allowed THEN closure ELSE closure \cup {SaMod}

EndFrontend(p) ==
    /\ proc[p].pc = "read" /\ proc[p].todo = {}
    /\ proc' = [proc EXCEPT ![p].pc = "hash", ![p].todo = WithSaMod(proc[p].closure)]
    /\ UNCHANGED <<disk, bin, json, edits>>

----------------------------------------------------------------------------
(* storeFreshArtifact *)

(* A path that cannot be read is passed over.                              *)
Hash(p, f) ==
    /\ proc[p].pc = "hash" /\ f \in proc[p].todo
    /\ proc' = [proc EXCEPT
            ![p].todo = @ \ {f},
            ![p].deps = IF disk[f] = Absent THEN @ ELSE Extend(@, f, disk[f])]
    /\ UNCHANGED <<disk, bin, json, edits>>

WriteArtifact(p) ==
    /\ proc[p].pc = "hash" /\ proc[p].todo = {}
    /\ proc[p].deps # Nothing
    /\ bin' = proc[p].seen
    /\ proc' = [proc EXCEPT ![p].pc = "json"]
    /\ UNCHANGED <<disk, json, edits>>

WriteManifest(p) ==
    /\ proc[p].pc = "json"
    /\ json' = proc[p].deps
    /\ proc' = [proc EXCEPT ![p].pc = "done"]
    /\ UNCHANGED <<disk, bin, edits>>

----------------------------------------------------------------------------
(* The command ends, or is killed; files change *)

End(p) ==
    /\ proc[p].pc # "idle"
    /\ proc[p].pc = "json" => "crash" \in Allowed
    /\ proc' = [proc EXCEPT ![p] = Idle]
    /\ UNCHANGED <<disk, bin, json, edits>>

Edit(f, c) ==
    /\ edits < MaxEdits
    /\ (\E p \in Procs : proc[p].pc # "idle") => "edit" \in Allowed
    /\ disk[f] = Absent => "create" \in Allowed
    /\ c # disk[f]
    /\ disk' = [disk EXCEPT ![f] = c]
    /\ edits' = edits + 1
    /\ UNCHANGED <<bin, json, proc>>

Init ==
    /\ disk \in [Files -> Contents \cup {Absent}]
    /\ bin = Nothing
    /\ json = Nothing
    /\ proc = [p \in Procs |-> Idle]
    /\ edits = 0

Next ==
    \/ \E p \in Procs :
        \/ NoManifest(p) \/ OpenManifest(p) \/ Hit(p)
        \/ EndFrontend(p) \/ WriteArtifact(p) \/ WriteManifest(p)
        \/ End(p)
        \/ \E f \in Files : Verify(p, f) \/ Read(p, f) \/ Hash(p, f)
    \/ \E f \in Files, c \in Contents \cup {Absent} : Edit(f, c)

Spec == Init /\ [][Next]_vars

----------------------------------------------------------------------------
(* Properties *)

Matches(manifest) ==
    manifest # Nothing /\ \A f \in DOMAIN manifest : disk[f] = manifest[f]

(* "A later invocation whose recorded closure still hashes identically     *)
(* reuses the stored artifact": whenever the manifest matches the files,   *)
(* the artifact beside it is the one a full compile would make of them.    *)
Honest == Matches(json) => bin = Compile(disk)

(* Whether its front-end ran or was skipped, a command returns the         *)
(* artifact of the files as they are.                                      *)
Fresh == \A p \in Procs : proc[p].pc \in {"hit", "done"} => proc[p].seen = Compile(disk)
=============================================================================
