# Verification of the SLA compiler plugin

`sa_plugin_sla` compiles SLA, a small systems language with owned values, to SA
text or to SAB bytecode. It runs as a plugin of a host (`sa`) and brings a test
kernel that runs a large suite in worker processes. This directory holds TLA+
models of the parts of it that are hard to test, the TLC configurations that
check them on small instances, and TLAPS proofs for every instance.

- [The system](#the-system)
- [Plan](#plan)
- [OwnershipFlow](#ownershipflow)
- [TestSupervisor and VerdictBoard](#testsupervisor-and-verdictboard)
- [FreshnessGate](#freshnessgate)
- [DeferDesugar](#deferdesugar)
- [ReachableBodies](#reachablebodies)
- [CoopTask](#cooptask)
- [MacroEffects](#macroeffects)
- [Runs and findings](#runs-and-findings)
- [Proved and only checked](#proved-and-only-checked)
- [Not modelled](#not-modelled)

Run `tlc -config X.cfg M` for the runs listed below, and
`tlapm M.tla` for the proofs in the modules named `...Proofs`.

## The system

A command (`sa sla build`, `run`, `test`, `check`, ...) goes through one
pipeline in `plugin_compile.zig`:

    load the artifact cache -> read source -> source expansion -> parse
      -> @import expansion -> defer desugaring -> test filter -> monomorphize
      -> contracts and aliases -> reachability pruning -> type checking
      -> SAB audit -> syntax lowering -> coop lowering -> closure of files read
      -> SA text or SAB -> store the artifact and its manifest

Within a command everything is sequential: what is hard there is long sequences
of legal program text, and two passes that keep books about the same thing.
Concurrency comes from several commands sharing the cache and the output
files, and from the test kernel's processes.

| Part | State it keeps | Operations | Interacts with | Hard behaviour | What makes it correct |
|---|---|---|---|---|---|
| Ownership analysis (`type_checker.zig`, `control_flow_rules.zig`) | a `ValueState` per binding; saved states per branch; loop context | one handler per statement and expression; merges at `if`, `switch`, `match`, loops | its states and cleanup lists steer both emitters | one pass stands for all paths and iterations | an accepted body never uses a moved or unassigned value |
| Release emission (`sab_codegen.zig`) | `released_regs`, saved and merged at branches and loops | `emitRelease`, `emitMove`, balancing at merges, jumps, returns | reads the checker's cleanup lists | its book and the checker's are merged by different rules | every owned value is released or moved once, on every path |
| SA text emitter (`codegen.zig`) | phi cleanups, end states of written paths | the same statements, other compensation | the same checker | the same | the same |
| Defer desugaring (`defer_desugar.zig`) | list of defers per block, chain of lists, name counter | `processBlock`, snapshots, copies at exits | runs before monomorphization; what it leaves behind is refused by the checker | every exit needs its own copies | deferred calls run once, last first, on every exit |
| Macro consumption (`control_flow_rules.zig`, `type_checker.zig` 6887-7107) | cleanup lists per call | what a macro does to its arguments, what a `?` in it releases | ownership analysis, the expansion in the emitters | macros that call macros, one book over all arms | what a call is said to consume it consumes on every path; every way out releases what the caller owns |
| Drop taint (`type_checker.zig` 1478-2150) | taint per place | statement walk after checking | choice of deep or shallow drop | aliases through fields and loops | nothing is dropped deep that someone else still owns |
| Monomorphizer | instances by name and type arguments | worklist over generic uses | adds declarations while they are walked | recursion in type arguments | one instance per use, termination |
| Reachability (`plugin_reachability.zig`) | reached functions, worklist | walk of bodies, late loading of imported ones | module table, plan cache | bodies that appear during the walk | what is pruned is not needed |
| Imports and module table | modules by path, groups of imports | resolution, discovery, lazy loading | workspace manifest, reachability | cyclic imports, resolution that changes | every needed declaration is found, once |
| Freshness gate (`plugin_freshness.zig`) | artifact and manifest on disk | load, store | the front-end's report of files read; other processes | edits, crashes and other processes between its steps | a hit returns what a compile would |
| Coop lowering (`coop_lowering.zig`) | states and slots of a task | splitting a body at suspension points | scheduler, channels | locals live across a suspension | segments run in source order with their values |
| Test kernel (`batch_test_runner.zig`) | verdicts, queues, running workers, results file | spawn, poll, reap, terminate, journal, resume | worker processes, the file system | timeouts, crashes, resume by a rebuilt binary | every test gets one honest verdict |
| Workspace resolution (`workspace.zig`) | none | nearest manifest, member, default member | commands, imports | nested manifests | the member meant is the member taken |
| Managed outputs (`plugin_project_shortcuts.zig`, `plugin_sab_paths.zig`) | SAB files at fixed paths | write, then read by the host | other commands | two commands, one path | a command runs what it compiled |
| Lexer, parser, source expansion, contracts, syntax lowering, audit, CLI | none, or a cache of pure results | pure functions | the next stage | syntax | (unit tests) |

`PROJECT.json` lists every one of these with its files, what is modelled of
it, and every hazard found, at its line, with the properties that watch it.

## Plan

Done, in this order, most important behaviour first:

1. **OwnershipFlow**, with **OwnershipFlowProofs**: the language's central
   promise. The emitter and the paths of the emitted code are composed with
   the checker in one module, because the promise relates all three.
2. **TestSupervisor** refining **VerdictBoard**, with **TestSupervisorProofs**: the
   only part with processes, timeouts, crashes and recovery.
3. **FreshnessGate**, with **FreshnessGateProofs**: files, edits and several
   compilers.
4. **DeferDesugar**, with **DeferDesugarProofs**: a source-to-source pass and a
   run of its result.
5. **ReachableBodies**, with **ReachableBodiesProofs**: the walk, the discovery
   of modules and the plan cache, which feed each other, with edits in between.
6. **CoopTask**, with **CoopTaskProofs** and **CoopValueProofs**: a goroutine's
   body, the segments it is split into, and a run of both side by side.
7. **MacroEffects**, with **MacroEffectsProofs**: what macros do with the values of
   their caller, and how they leave it.

To come:

8. *TextEmitter*: the compensation of `codegen.zig` 2105-2365 as a second
   emitter beside OwnershipFlow's checker; the same fault properties.
9. MacroEffects as the operand rule of OwnershipFlow: a call that consumes some
   of its operands. *DropTaint*, *WorkspaceResolve*, *ManagedOutputs*: one component each.

Wherever a run here shows a disagreement that is settled in the code, its
violation run becomes part of the passing one and frees a place for the next.

## OwnershipFlow

A behaviour writes a function body, statement by statement; each step does what
the checker does to its states (`cur.sym`), what the SAB emitter does to its
book (`cur.rel`), and what the emitted code does to the values on every path
that reaches this point (`cur.paths`). What the checker refuses is no step. A
frame of `stack` is an open `if`/`switch`/`match` ("branch"), loop or block,
with the states saved at its entry, the ends of its finished arms and the
paths that left it by `break` or went to its head. `faults` collects what a
path would do wrong: use after move, use before assignment, double release,
leak, a loop head found in another state.

An inner scope may declare a name again. `name`, chosen at the start, says which
binding hides which; a hidden binding cannot be read, written or moved
(`Visible`), and one scope declares a name once (`MayDeclare`). Saved states are
kept by name, so they hold one state for both bindings, the outer one's
(`ByName`), and restoring them gives it to both; so is the cleanup list of a jump,
for which the emitter finds the inner register twice (`Found`). An `else` is merged
from the symbols themselves (`LastArms`).

| Action | Code |
|---|---|
| `Let`, `Var`, `Use`, `Consume`, `Assign` | the handlers of `checkStmt`/`checkExpr`; `recordReg`, `emitMove`, `emitRelease` |
| `OpenBody`, `NextArm`, `CloseExhaustive`, `CloseIf`, `CloseSwitch` | `saveScopeStates`, `restoreScopeStates`, `mergeMultiBranchScopeStates`; `setMergeReleased`, the balancing releases |
| `CloseBlock`, `CloseLoop` | `popLocalsTo`, `restoreUninitializedFromSaved`, `genWhile` |
| `Break`, `Continue`, `Return` | cleanup lists and `genLoopJump`, `return_stmt` |

Properties: `NoUseAfterMove`, `NoUseBeforeInit`, `NoDoubleRelease`, `NoLeak`,
`LoopHeadStable` (one pass over a loop body covers every iteration),
`ConsumedHasNoOldValue` (the reason given in the code for planning no drop on a
reassignment) and `Coherent`, the inductive invariant that implies them.

The constant `Shapes` names rarer forms of statements. The code accepts all of
them; the properties hold without them and not always with them. TLC's verdict
for each one alone:

| Shape added | Violated |
|---|---|
| `move-out` (a loop body moves an enclosing binding on its way out of the function) | `NoLeak`, `ConsumedHasNoOldValue` |
| `nested-exit` (a plain block ends in a jump) | `ConsumedHasNoOldValue`; `NoLeak` at depth 3 |
| `move-break`, `move-continue` (the body then breaks or continues) | nearly all |
| `revive` (a loop body assigns to a binding moved before it) | `NoUseAfterMove`, `NoLeak`, `LoopHeadStable`, `ConsumedHasNoOldValue` |
| `no-default` (a `switch` without default) | `NoUseAfterMove`, `NoUseBeforeInit`, `LoopHeadStable` |
| `shadow-body` (a statement with a body where a binding is hidden) | all but `NoDoubleRelease` |
| `shadow-jump` (a jump out of a loop one of whose locals is hidden) | `NoLeak` |

So `ownership_bodies` has none of them, and two runs show disagreements that
documents of the repository speak about. The five fault properties but `NoLeak` also
hold with `move-out` and `nested-exit` added (377,539 states, every binding with a
name of its own).

The shortest body for `shadow-body`: in a scope where `a` is declared again and the
inner one moved, an `if` whose body does nothing gives the inner `a` the state of
the outer one, and a use of it is accepted. Without these two shapes names do
their work: a binding may hide another in a body that opens no other
while it does.

Bounds: two owned bindings and one `var`, every name its own or one name for any
two of them, either the inner one; 7 statements, nesting 3 (6 and 2 in
the violation runs). Every rule merges or compares the states of at most
two arms and one saved state, per binding; two bindings are needed for an
operation on one to disturb another; nesting 3 holds a branch in a branch in a
loop, and a jump across all of them. The proofs drop these bounds.

## TestSupervisor and VerdictBoard

One action per step of `supervisorMain`: `Start` (read the journal, queue what
is undecided), `Spawn`/`SpawnFails`, `Sweep`, `EnterSerial`, `Finish`, and for
the worker a sweep has come to, `Reap`, `Terminate`, `Kill` or `StillBusy`, then
`EndSweep`. Workers exit when they like, with any status. `Crash` kills the
supervisor anywhere; a later run may be of a rebuilt binary whose tests moved
(`TestName`). The journal holds for each index the lines that parse; a write may
fail or stop short, and then the next line is glued to the fragment.

*Properties.* `SerialExclusive`: a serial worker runs alone. `NoStalePass`: a
pass goes back to a worker of the test of that *name* that exited with 0 in
time. `JournalComplete`: without failed writes the journal gives back exactly
the verdicts of the run. `OneLineEach`: resumed tests are counted once (the
count is subtracted from an unsigned length). `TimedOutHangs`: a worker found
overdue is reported as a hang, whatever status it then exits with. `RunEnds`: a
run that is not killed ends. `KeepsPromises`: the kernel implements
`VerdictBoard`, in which a verdict is given once, a report waits for all of
them, and a new run takes over verdicts only from saved lines of the same test.

*Fairness.* Weak fairness of `Loop`: the supervisor is one process that never
blocks (it polls). Weak fairness of `WorkerDies`: a process sent SIGKILL ends.
Strong fairness of `Terminate` and `Kill` taken over all tests: whether a worker
is overdue depends on a clock the model leaves out, so each visit may find
either; but time passes, so a supervisor that visits busy workers forever finds
one overdue at some point. Nothing makes a worker exit by itself.

*Bounds.* Three tests, one serial, two jobs: a full pool, a queue behind it and
a serial phase after it. Two runs of two builds, in which one test keeps its
place, one moves and one is new; one failed or short write. A third run
reads the same file as a second one does.

Not a property, since directories are no part of the state, but a disagreement
all the same: the header of `batch_test_runner.zig` (31-32) promises each worker a
private TMPDIR, and line 527 chooses it by `idx % jobs` instead of by free slot, so
with two jobs test 2 shares test 0's as soon as test 1 ends before it.

## FreshnessGate

The files of a compilation are paths with a content or `Absent`. An artifact is
the function from the files it was made from to their contents, so two
artifacts are equal exactly when they were made of the same files.
`OpenManifest`, `Verify`, `Hit` and `NoManifest` are `tryLoadFreshArtifact`;
`Read` and `EndFrontend` the front-end, file by file; `Hash`, `WriteArtifact` and
`WriteManifest` are `storeFreshArtifact`; `End` is a command that returns or is
killed, `Edit` anyone who edits, creates or deletes a file. `Resolve` is the
rule of `plugin_imports.zig`: the workspace member first, if there is a `sa.mod`.

`Honest`: whenever the manifest matches the files on disk, the stored artifact
is the one a full compile would make. `Fresh`: what a command returns, by hit or
by compile, is the artifact of the files as they are.

`Allowed` names what else may happen. `freshness_loads` allows none of it and
the two properties hold for two processes of one key in every interleaving. TLC's
verdict for the rest:

| Allowed | `Honest` | Why |
|---|---|---|
| `create` | violated | a closure member that is absent at the store is not recorded, so nothing notices when it appears |
| imports of contracts by contracts | violated (`freshness_contract`) | they are read but not reported to the closure |
| `above` | violated | only a `sa.mod` beside the root source is recorded, while resolution takes the nearest one above: `src/main.sla`, the layout `init` creates, has it one level up |
| `edit` | violated | files are read by the front-end and hashed when the artifact is stored |
| `crash` | violated | a process that dies between the artifact and the manifest leaves a new artifact under an old manifest, which matches again when the edit is undone |

All but `freshness_contract` are hazards of the design rather than disagreements
with what the repository says of it; they have no run. To see one, add its name to
`Allowed` in `FreshnessLoads.cfg`.

*Bounds.* Five paths, with one member file and one local file that the same
specifier may mean, one contract; two contents; two edits, which is an edit and
its undoing, or changes of two files; two processes.

## DeferDesugar

First a function is written while the desugarer walks it: `bodies` is the stack
of `processBlock` calls with their `outer`, `defers` and `last_was_exit`, and
`out` the code produced. Then `out` runs, taking branches freely. Beside it the
run keeps what the defer statements it passed are owed: when a body is
left, by falling off its end or by a jump, the calls registered in it become
`due`, innermost body first, last registered first. `RunsOnExit` says that the
calls made are the calls due, at every moment that is not in the middle of an
exit; `KeepsArguments` that each was made with the argument of its own
registration, also in loops; `ReturnsValue` that the value returned is the one
the return expression had before the deferred calls.

| Action | Code |
|---|---|
| `Defer`, `Return`, `BreakOrContinue`, `Assign`, `TailValue` | the cases of `processBlock`; `snapshotCall`, `emitDefers` |
| `Open` | `processStmtChildren`, `processExpr`: which chain a nested body gets, and that arms of `select` and `arena` blocks are not entered |
| `Close`, `Finish` | the fallthrough copies |
| `Survivor` | a defer in a body that is not entered: refused by the checker |
| `RunLet` ... `RunExit` | the run of the result (the language's meaning) |

| Shape added | Violated |
|---|---|
| `loop-return` (a return in a loop, defers outside it) | `RunsOnExit` (`defer_return`): the loop body starts from an empty chain, which is right for `break` and wrong for `return` |
| `hidden-exit` (a jump out of a `select` arm or an `arena` block) | `RunsOnExit`: the pass does not enter these bodies |
| `tail` (a function body with defers ends in a value expression) | `ReturnsValue`: the copies come after it. The checker takes the deferred call for the tail, and reports a type mismatch unless the types agree |
| `name` (`return x` when a deferred call may write `x`) | `ReturnsValue`: identifiers are not saved before the calls |

*Bounds.* Five statements (without the ends of bodies), kinds `if`, `while` and
`select`, loops entered twice. Five statements hold a loop with a branch that
breaks past a defer with another defer outside, the longest chain of
decisions in the code. A `block` is an `if` that is taken, an `arena` a `select`
arm that is. With all five kinds the same run has 17 million states and passes.

## ReachableBodies

A filtered test build parses bodies only where the selected test reaches them.
`source` holds what each body calls; a build indexes the modules in `ordered`,
walks bodies (`reach`, `work`), keeps a record of each call it could not
resolve (`records`), parses the bodies it reached (`parsed`), and looks for
modules whose names were called. The reachable set is stored under a hash of
the texts, as a plan; the next build that finds one parses its bodies and walks
nothing. Contract files of modules, and with them macros, are loaded last.
Between builds a body is edited.

| Action | Code |
|---|---|
| `BeginCold`, `Drain` | `ReachabilitySession`, `drain`: `Walk` is `markExpr`/`markCall` over a body; `Direct` and `Candidates` the resolution by name and by suffix |
| `Materialize` | `materializeReachableFunctionBodies`, `enqueueNewlyParsed` |
| `Discover` | `discoverModules` (`Grown`), `refresh` (`Rescan`: which records have become resolvable) |
| `Store`, `Cut` | `storeReachablePlan`; a process that dies in it |
| `BeginPlanned` | `tryLoadReachablePlan` and what is skipped on a hit |
| `LoadContract`, `LoadContractPlanned`, `Rebuild`, `Rebuilt` | the loop over contracts of modules; with a session it is refreshed, without one everything is walked again |
| `Edit` | anyone who edits a source |

`NothingLost`: between any two steps of a session, a body that was walked has
marked all it calls that is indexed and left an open record of the rest, or it
is queued again. `Complete`: a finished build holds the body of everything the
test needs, where need is a least fixed point over the program and knows
nothing of sessions, plans or order. `Exact`: the result is what one walk from scratch over the
modules found would give, so neither the incremental session nor a plan keeps
or loses a function. `Terminates`: the loops, which feed each other, end.

*Fairness.* Weak fairness of `Build`: a build is one sequential process that waits for
nobody. Nobody has to begin a build or edit.

| Allowed, or instance | `Complete` | `Exact` | Why |
|---|---|---|---|
| `export` | violated | holds | a plan is keyed by the modules it was looked up with; a function added to a module found only by discovery, where it was missing before, leaves the key as it was |
| `contract` | violated | violated | the callees of a macro of the root's contract file are not in the key |
| `late` | violated | violated | the plan is stored before macros of modules' contracts are loaded; after a hit there is no session to refresh, and the root's calls of such a macro are not followed until something rebuilds it |
| `cut` | violated | violated | a plan longer than the 8 KiB buffer is written in pieces and accepted if it names one symbol |
| `Programs <- Far`, `Importers = {Root}` | violated | holds | a bare call of a function two imports away: its module is found only through one that contributes nothing itself |
| `Methods = {j, k}`: two methods of one bare name | violated | holds | a call resolved by suffix leaves no record once one candidate is indexed, so the module of another is not looked for |

They are seen by changing `ReachBuilds.cfg` as the first column says. The plan's
consequences contradict `progress.md` 290-292, which promises output identical to
the cold path; the last line does the "correctness-preserving lazy-discovery step"
of `current_plan.md` 1634, since an eager build of the same sources keeps the body.

*Bounds.* Four modules in a cycle of imports, the last two out of the root's
direct reach; four functions, one method; 324 programs that differ in how each
body calls the next (bare, qualified, by method, by macro, not at all), with
either importer of the contract and either size of the root; two builds with an
edit between them. Longer chains repeat what the fourth module does: it is
found by a body that was found by discovery.

## CoopTask

For targets without threads, `main` and every function started by `go` become a
state machine. A body is cut into segments: behind a call that may block, around
the bodies of `if`, `while` and blocks that suspend or spawn, nowhere else. Each
segment is a function of its own; only the frame lives on. The dispatcher calls
the segment of `frame.state` until one answers 1.

First a goroutine is written, and each statement is appended to `code` as it is
and to the current segment as the splitter leaves it. `Finish` computes which
names get a field (`Worthy` of the least `Live`). Then `run` is the machine
(registers, frame, place, what the runtime holds for it) with the source beside it:
`src` is its next statement, `env` the values its names have. An instruction records the
statement it was made for (`src`); one that is `shown` is what that statement does, and
moves both.

| Action | Code |
|---|---|
| `New`, `Use`, `Move`, `Spawn`, `Suspend`, `Return`, `BreakOrContinue` | the cases of `emitStmt`; `emitBlockingAssign`, `emitSpawnSite`, `closeReturn` |
| `OpenSplit`, `Else`, `CloseSplit` | `emitIf`, `emitWhile`, split blocks, `emitSeq` |
| `OpenPlain`, `ClosePlain` | `emitPlainInner`, `plainList`: copied bodies |
| `Finish` | `liveList`, `liveStmt`, `buildFrameInfo`, the end segment of `rewrite` |
| `Reads`, `RunNew`, `RunSpawn`, `PlainOpen`, `PlainClose`, `PlainJump` | what `emitPlain` leaves in a segment; moved handles are flushed to the frame and taken from there |
| `Completes`, `Blocks`, `RunTake` | the call, `writeBacks` and verdict of `closeSuspend`; `takePrologue` |
| `Goto`, `Branch`, `RunReturn` | `closeToState`, `closeCondTransfer`, `closeReturn`, and a `return` left as it is |
| `Start`, `Wake` | the host's runtime, as the code uses it: it posts a status of 0, writes through out-pointers and calls the step function |

*Properties.* `SourceOrder`: what a segment does next is the next statement of the
source. `RightValues`: a name that is read has the value it has in the source.
`StopsForReason`: the step function returns when the task waits in a call that the
runtime will answer or has finished, and it finishes once. `Finishes`: a task whose
loops end finishes.

*Fairness.* Weak fairness of `Execute`: the dispatcher is a loop without waiting, and
the runtime answers what it let block. Nobody has to go on writing.

A program may be `refused` later: a name whose register no statement wrote is
refused by the verifier of the bytecode, a name read after its move by the checker,
and a `break` of a split loop in a copied body by the emitter. The first happens to
sound programs: names are framed by their liveness at calls, but segments are also
cut at branches and at bodies that only spawn, and the uses in a `for` body or
behind a `break` are not followed. The header (40-41) promises a named diagnostic
there; the author of such a program gets `UnknownRegister`.

| Shape added | Violated |
|---|---|
| `plain-return` (a `return` in a body that is copied) | `StopsForReason` (`coop_return`), `SourceOrder`: `return e` is left as it is and its value taken for the segment's verdict. 1 stops a task that is not finished, anything else runs the segment again |
| `nested-move` (one copied statement assigns a handle and moves it) | `RightValues` (with `MaxStmts = 5`): the move reads the frame, which was brought up to date before the statement only |
| `sync-out` (a receive finds the channel closed and does not block) | `RightValues`: `closed` is written to the frame by the call and overwritten by the write-back of the register behind it |

*Abstractions.* `x` holds a word and `chan` a handle; an assignment gives a name a
value it does not have. `closed` and `rc` stand for the names a lowered receive
binds. A call's status is 0, since the lowering panics on any other. Conditions
are free; loops are entered `MaxRounds` times in a run.

*Bounds.* Four statements (without the ends of bodies): a loop with a branch that
calls, or two calls with an assignment in a copied body between. With five
the invariants hold in 14,097,520 states. Two rounds let a loop body see what
its last iteration left in the frame.

## MacroEffects

A call of a user macro is checked without its body: the checker knows of each
argument that it is consumed always, never, or on some paths only, and then it
refuses the call. It also lists, once per call, the caller's bindings to be released
where a `?` in the macro leaves the caller's function. The SAB emitter
expands the body and releases of that list what its own book holds.

A behaviour writes macros in postfix order. A part of a body carries what each
analysis says of it (`direct`, `forwarded`, `tried`, `sources`), what the checker of
the body has consumed (`gone`), the emitter's `book`, and what really happens on every
path: `ends` reach its end, `exits` leave. A call is a part made from that of a
finished macro, so what macros forward is found through any number of calls.

| Action or operator | Code |
|---|---|
| `Move`, `Try`, `TryValue`, `Return`, `Panic`, `Skip` | the cases of `macroNodeConsumption`; `genMacroMove`, `genTry`, `genMacroStmt` |
| `Call`, `CallPart`, `Accepted` | `macroNodeForwardedConsumption`, `macroNodeForwardsTrySource`, `MacroConditionalConsume`; `genUserMacroCallWithParent` |
| `Follow`, `SequenceEffect`, `MayFollow` | `sequenceMacroParamConsumption`, `genMacroBlock`; the checker of the body refuses uses after moves |
| `IfElse`, `BranchEffect`, `MergedGone` | `branchMacroParamConsumption`, `genMacroIfStatement`, the merge of value states |
| `While`, `LoopEffect`, `MayLoop` | `genMacroWhile`, `LoopConditionalConsume` |
| `Define`, `Verdict` | `checkMacro`, `macroParamConsumptionRecursive` |
| `Released` | `macro_call_try_cleanups`, `emitBranchCleanupForNode`, `releaseOpenLocals` |

*Properties.* `VerdictRight`: an argument said to be consumed is used on every path on
which the caller goes on, one said not to be on none. `RefusedRightly`: a macro
refused for consuming "only on some control-flow paths" has such paths. `ExitsClean`:
a way out of an accepted macro releases what the caller still owns, once, and not what it
gives back. `BookRight`: behind the call the book is right on every path, so the
caller releases the rest once.

`Shapes` names rarer forms of bodies that the checker accepts. TLC's verdict for each
one alone, with two macros:

| Shape added | Violated | Why |
|---|---|---|
| `leaving-arm` (an arm or loop body leaves after a move or return) | `ExitsClean`, `BookRight` | `genMacroIfStatement` does not restore the book between the arms, as `genIfStatement` does for the reason given at `sab_codegen.zig` 23596-23602 |
| `arm-exit` (an exit in the second arm after the first has moved) | `ExitsClean` | the same |
| `two-sources` (two `?` of one macro that give back different arguments) | `ExitsClean` | the list leaves out both, so each `?` leaks the other; `current_plan.md` 1552 describes a list "excluding only the propagated Option argument" |
| `two-ways` (a parameter is consumed directly in one part and by a call, or by a move in one and by `?` in the other) | `RefusedRightly`, `ExitsClean`, `BookRight` | a direct result hides what is forwarded (`type_checker.zig` 7032); a `?` uses without moving, so arms of equal effect leave different books |

*Abstractions.* Arguments are owned, distinct, and each passed once. A `?` stands as a
statement or is the value of a `let`, an assignment or a `return`, where all analyses
look for it. Left out: effects in loop conditions, arms of `switch` and `match` (the
forwarding walk does not enter them), `break` and `continue`, a move in a return
value, locals of macros, and names: the list is of names, and a local of the expansion
that has a name of the list is found first (`sab_codegen.zig` 3970).

*Bounds.* Two parameters, so that one can be kept while the other is given back; three
macros, so that a call forwards what a call forwards; five statements in all; three
parts open at once. The proofs drop the bounds.

## Runs and findings

| Run | Question | Answer |
|---|---|---|
| `ownership_bodies` | do the two books and the paths agree, is any accepted body unsafe, does anything leak? | they agree; none, nothing; 1,054,239 states |
| `ownership_continue` | may a loop move an outer binding and continue? | accepted, and the second iteration finds it gone |
| `ownership_no_default` | is a `switch` without default covered? | no: a `var` assigned in every case counts as assigned |
| `supervisor_runs` | do the kernel's promises survive crashes, hangs, failed writes and a rebuild? | yes; 491,358 states |
| `freshness_loads` | is a hit always what a compile would give? | yes, under the stated conditions; 706,153 states |
| `freshness_contract` | ... with contracts that import contracts? | no |
| `defer_exits` | do deferred calls run on every exit? | yes, without the four shapes; 3,791,902 states |
| `defer_return` | ... on a return in a loop? | no |
| `reach_builds` | does a build keep every body the test needs, and no other, from a plan too? | yes, under the stated conditions; 233,351 states |
| `coop_runs` | do the segments of a goroutine do what its source says? | yes, without the three shapes; 557,301 states |
| `coop_return` | ... with a return in a copied body? | no |
| `macro_bodies` | is what the caller of a macro is told true, and is every way out of it clean? | yes, without the four shapes; 951,039 states |

Each violation run has an entry under "findings" in `PROJECT.json` that quotes
the line of the repository the code disagrees with. `CHECK_DEADLOCK` is off where the
system may stop: a body has returned or is at its bound, no run follows a run,
a function is done.

Each passing property has a mutant: a changed definition of the model, as a
plausible bug of the code would change it, under which TLC finds the property
violated.

## Proved and only checked

`OwnershipFlowProofs` proves, for every set of bindings, every nesting and every
length of a body:

- `TypeCorrect`: `Spec => []TypeOK`;
- `Soundness`: `Shapes = {}` implies `Spec => []Coherent`;
- `NoFaults` and `OldValueGone`: what follows from it, the five fault properties
  and `ConsumedHasNoOldValue`; `MovedNotUsed`, `AssignedBeforeUse`, `ReleasedOnce`,
  `ReleasedAlways` and `LoopComesBack` state the five one by one.

None of the fault properties is inductive: that nothing is released twice at a
merge needs that the emitter's book says of each arm what the checker says, and
that both are right about every path. `Coherent` says so of the present point
(`Agrees`), of every saved state and finished arm the analysis will come back to
(`FrameAgrees`), and relates them: a binding of an enclosing body is still in
scope, and within a loop as it was at its head (`Encloses`, `SteadySince`), which
is why one pass covers every iteration. `LoopsIndexed` ties each frame to
its innermost loop, `ClearBodies` (no binding is hidden where a body was opened) makes
a state kept by name the state of its binding, and `term <=> paths = {}` ties the checker's `blockTerminates` to
the paths. The proof has a lemma for each operator on flows (what it does to
`Agrees`), one for opening, closing and re-entering frames, and one step per
action. The only assumptions are `OwnershipAssumption`, which TLC evaluates on the
runs, and `Shapes = {}` where stated; the table of shapes above shows that it
cannot be dropped.

`ReachableBodiesProofs` proves, for every program, import graph and any number of
builds and edits:

- `TypeCorrect`: `Spec => []TypeOK`;
- `NoCallDropped`: `NothingLost`, when no two methods share a bare name (`NoTwins`);
- `BuildsExact`: `Exact`, when in addition `Allowed = {}`.

`NothingLost` is about the middle of a session and carries itself, once it says
also that what is open is of walked bodies and that what was resolved stays
resolved in a growing index (`Session`). `Exact` needs two more: that everything
in `reach` is there because of a chain of calls from the root (`Planned`: no
smaller set holds), which survives each growth of the index because with
`NoTwins` a call that had a target keeps it; and that every plan on disk whose
key matches the files is exact for them (`PlansGood`), which an edit preserves
because it changes the key or what the plan does not depend on. The tables
above show where each assumption is needed.

- `KeepsAllNeeded`: `Complete`, when in addition the program is `Near`: what a body calls
  is declared in its own module, in one the root imports, or in one that these
  import.

`Complete` relates the build to the meaning of the program rather than to a walk.
Its invariant adds what discovery found: of every name that a walked body means the
module was ordered (`FoundAll`), and what it calls without a declaration in sight
was left in `refs` (`Told`), so that the next round brings it; a plan on disk found
the same when it was made (`PlansFound`). `Near` is what the search covers, not a
restriction of the runs: TLC finds it true of every program that `ReachBuilds`
enumerates. `Terminates` needs fairness and stays with TLC.

`FreshnessGateProofs` proves, for all files, imports and processes:

- `TypeCorrect`: `Spec => []TypeOK`;
- `HonestGate` and `FreshResult`: `Honest` and `Fresh`, when `Allowed = {}` and contract
  files import nothing (`ContractsFlat`). The table of `Allowed` shows that neither can be dropped.

The invariant (`Gate`) says what each process knows while no file changes: one
that reads has read a part of the sources that its closure encloses; one that
hashes holds `Compile(disk)` and a manifest of what it has hashed; one that
verifies knows that a match of its manifest, even of one replaced in the
meantime, vouches for the artifact now stored. Across edits it remembers the
files `d` the pair was made of (`MadeOf`): none that was absent from `d` has
appeared, so a manifest that matches makes resolution choose as it did
then, and the sources, a least fixed point, are the same.

`TestSupervisorProofs` proves, for every window, any builds, any number of jobs and
runs, and wherever a run is killed or a write fails:

- `TypeCorrect`: `Spec => []TypeOK`; `BooksKept`: the inductive invariant below;
- `OneLine`, `SerialAlone`, `PassesVouched`, `NothingLost`: the four safety properties;
- `OverdueHangs`: the action property `TimedOutHangs`;
- `Implements`: `Spec => KeepsPromises`, the refinement of VerdictBoard.

`Books` says of a run that every test of the window is queued, running or decided,
in one of the three, that an open test has no line under its present name, and that
no index has two lines of one name, whichever run wrote them. With it the count of
resumed tests is the count of decided ones. `Vouched` adds to `NoStalePass` the same of
the journal's lines, `Whole` says that without a failed write the decided verdicts
and the lines agree. The many steps of the loop come down to six kinds (`StepKinds`):
one that touches neither verdicts nor journal, one that takes a test from a
queue, one that decides a test, the start, the end and the death of a run; each
later lemma has one case per kind. For the refinement the board's `saved` is what a
run of each build would read from the journal, and its phase the supervisor's.
`RunEnds` needs fairness, which the prover does not handle, and stays with TLC.

`MacroEffectsProofs` proves, for any parameters, any number of macros and bodies of
any length:

- `TypeCorrect`: `Spec => []TypeOK`; `VerdictsHold`: `Spec => []VerdictRight`, with every shape;
- `RefusalsHold`: `RefusedRightly`, unless `two-ways` is among the shapes;
- `BooksKept`: the inductive invariant below, and from it `BookHolds` and `ExitsHold`:
  `BookRight` and `ExitsClean`, when `Shapes = {}`.

A step adds one part that is built from those there are (`StepBuilds`), so each
property follows from one that every construction keeps. `Fair` says that a part has a
path that uses what it is said to use, one that spares what it does not always
consume, and consumes a parameter either itself or through calls. `Booked` says that
the book is right about each path where the checker has no doubt. That alone is
not inductive: a part may be in doubt, and a statement behind it might settle the
doubt the wrong way (conditional, then always, is always). `Marked` excludes it: what
the book calls gone is consumed for the checker as well, so nothing that follows uses it,
and what is in doubt stays in doubt until the call is refused.

`CoopTaskProofs` proves, for goroutines of any length and nesting and runs with any
number of rounds:

- `Inductive`: the invariant below;
- `StaysInCode`: the dispatcher never meets a state without a segment, and no segment
  runs off its end;
- `StopsRightly`: `StopsForReason`, unless `plain-return` is among the shapes;
- `RunsInOrder`: `SourceOrder`, for whatever blocks, again without `plain-return`.

What a run does is read off the instruction it is at, so the invariant is about the code:
of sealed code (`Sealed`) every segment ends in a transfer or a return, every opening
instruction has its close, and every transfer leads to a segment there is. While the code
is being written, `Shape` says what the splitter's open bodies owe to it: split
bodies enclose the copied ones (`Nested`), each segment is the current one, whole,
or one that exactly one open body will fill (`OthersWhole`, `Apart`), it is empty
until then (`SplitPlaces`), what the current one has open belongs to an open body
(`CurrentOpen`), and one that was jumped out of has its end (`ExitEnds`). Each operation
of the splitter keeps each of these by a lemma of its own. The table of shapes in the
section on CoopTask shows why `plain-return` is excluded.

`RunsInOrder` needs more. The program has no record of where in the source a segment
begins; the proof gives every segment a label that says so (`Label`): at a statement,
behind the body of one, or with the else of one. `Tells` says that a segment is right
for its label: its first instruction is for the statement there (`Begins`), each of the
others for the statement that comes after the one before (`Width`), and a transfer leads
to a segment whose label is where the source goes (`Leads`, `GoesTo`). While the
splitter works, bodies are properly nested up to those still open (`Nests`), some
labelling exists for which all segments are right (`Knows`), and the segments that an
open body has still to fill carry the labels its opening gave them (`Owes`); each
operation keeps this while the code grows, so that what an opening promised holds when
the body is closed. Of the finished code, `Settle` (the next statement that does
something, which is found by recursion) is shown to be well defined, because bodies
nest, and equal for all places that only blocks and ends separate; a run is then
`OnTrack`: its source is where the instruction it is at was made for.

`CoopValueProofs` proves, from both invariants:

- `CoopTypes`: `Spec => []TypeOK`, with every shape;
- `RightlyRead`: `RightValues`, with none of the three shapes.

The types need some of the above. That a task which runs is at an instruction is
`InCode`; that what it reads, calls and takes is a name needs every instruction made for
a statement that has one (`Made`, `Named`); that the source beside it stays in the body
needs bodies to nest and `Settle` to be defined, which is where an `if` may get its
`else` only once (`Elseless`). What the fields of the frame are depends on `Live`, a
recursion until nothing changes, of which nothing is known before it is shown to end:
`Flow` only adds names to the live sets on the way from none (`Pairs` counts them), so a
fixed point is reached (`Fixed`), the recursion has a solution, and every solution has
that fixed point as its value.

`RightValues` relates three places that hold a value: register, frame and source.
`ValInv` says when they agree (`Holds`: the value is the source's, or reading it is
refused, or the source has none). Registers always do, but for `rc` before the prologue
has taken the status and `closed` between its binding and the receive. The frame agrees
for every name the segment cannot have set yet (`FrameRight`); `MaySet` reads that off
the text: an assignment stands before, or in a copied body around, where a loop may have
come past it. A transfer writes back the names `scanTouch` finds before it; where a
segment ends, all its copied bodies are closed, so these are all that may be set, and
the next segment loads right values (`CutHolds`, `DispatchRight`). While a task waits,
`rc` and the flag of a receive are still to come. A handle that is moved is read from
the frame, also where the segment has assigned it; that is right because `emitPlain`
wrote it back in front of the outermost copied body around the move, and nothing in that
body assigns it (`MovesRight`, `NotSet`). All this is about how segments look, so
`ValInv` also keeps them `Tidy`: copied bodies nest, jumps stay in their loops, no body
moves what it assigns (`Pure`, which `nested-move` breaks), the flag of a receive is
bound right before it, the segment behind a call begins with the prologue, and nothing
leads back to the first one, which binds the locals. Every action of the splitter keeps
these by a lemma of its own, and so does every step of a run. Which names have a field
does not matter to the theorem: without one the register of the next segment is empty,
and the program is refused. That a sound program is not refused for it is no property
here; it does not hold (see the section on CoopTask).

`DeferDesugarProofs` proves, for functions of any length and nesting and loops of any
number of rounds:

- `TypeCorrect`: `Spec => []TypeOK`; `Inductive`: the invariant below, with every shape;
- `MakesWhatIsDue` and `MakesAsRegistered`: `RunsOnExit` and `KeepsArguments`, when neither
  `loop-return` nor `hidden-exit` is among the shapes. (Where calls are lost, the n-th
  call made is not the n-th due, so arguments cannot be compared either.);
- `ReturnsAsEvaluated`: `ReturnsValue`, when neither `tail` nor `name` is.

These are the shapes the table in the section on DeferDesugar finds wrong. The proof
gives every instruction a place (`Place`): the bodies open there, the calls
registered in each, and how many calls of the next exit stand before it. `Code` says
that an instruction fits its place (`Fits`: a jump stands behind the calls of every
body it leaves, innermost first) and leads to the next one (`After`), a branch over a
body to the place behind it. While the desugarer writes, `Links` says that its
stack of bodies is the last place, and that `outer` holds what the enclosing bodies have
registered from the nearest loop on (`Chains`); this is where a `return` in a
loop loses the calls further out. While the code runs, `Runs` says that the run is owed by
each open body (`Lives`) the calls registered at its place, with the arguments kept for
them. The module's first section has what this needs of lists: that `FlattenSeq`, which is
recursive, concatenates, and that reversal turns it around. The library's induction
theorems take a predicate and cannot be used; instead, of all the lists that would
refute a statement the shortest (`ShortestList`) is shown not to exist.

Only model-checked: `RunEnds`, `Terminates` and `Finishes`, which need fairness. Every
other property that a passing run checks is the statement of a theorem.

## Not modelled

- Reachability: constants, types and SLA macros, which are marked by the same
  walk; receiver types and known-value facts that narrow candidates; functions
  of one name in two modules, overload sets, visibility; modules that do not
  parse. Functions the root declares are always kept and stand for themselves.
- Ownership: borrows and parameters, statements after a jump,
  stack slots, deep against shallow drop.
- Supervisor: output and log files, children that outlive a worker, workers that
  outlive a killed supervisor.
- Freshness: the cache of the host's broker, which is not in the repository;
  options and compiler version in the key (one key is modelled); partial
  writes of one file.
- Defer: statements nested in operands or in a return value, other than one
  argument, macro and closure bodies.
- Coop: which functions become tasks and the shapes refused by name; aggregates
  that live in the frame, borrows, `select`, `switch` and `match` bodies, the wrapper
  of `main`; several tasks, since what they share is in the host's runtime.
- Macros: see the abstractions in their section; macros in OwnershipFlow's bodies.
- The pure stages: parser, lowering and instruction selection are functions of
  large syntax and are left to their tests; `PROJECT.json` gives the reason for
  each component.
