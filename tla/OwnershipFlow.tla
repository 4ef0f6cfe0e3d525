--------------------------- MODULE OwnershipFlow ---------------------------
(***************************************************************************)
(* Value-state analysis of a Sla function body and the release code the    *)
(* SAB emitter derives beside it.                                          *)
(*                                                                         *)
(* A behaviour writes a function body statement by statement.  Each step   *)
(* does three things at once:                                              *)
(*   - what type_checker.zig does to the ValueState of every binding       *)
(*     (cur.sym), including the statements it refuses (no such step);      *)
(*   - what sab_codegen.zig does to its book of released registers         *)
(*     (cur.rel) and the releases it emits;                                *)
(*   - what the emitted code does to the values themselves, on every       *)
(*     control path that reaches this point (cur.paths, a set of           *)
(*     valuations).  paths = {} means that no path gets here: the last     *)
(*     instruction emitted was a terminator.                               *)
(* faults collects what a run of the emitted code would do wrong.          *)
(*                                                                         *)
(* A flow is a record of these three parts; a frame of the stack is a      *)
(* statement whose body is being written, with the flow at its entry.      *)
(***************************************************************************)
EXTENDS Naturals, Sequences, FiniteSets

CONSTANTS
    Vars,       \* bindings
    Namings,    \* ways to name them: f[v] is the binding v shares its name with
    Scalars,    \* those declared by `var` (primitive slots); the others own
    Shapes,     \* statement shapes, beyond the ordinary ones, a body may use
    MaxDepth,   \* bound on nested statements
    MaxStmts    \* bound on statements in a body

(*   move-out       a loop body moves a binding of the enclosing code: in a  *)
(*                  return value, or anywhere when every path through the    *)
(*                  body leaves it by a jump                                 *)
(*   move-break     ... and then leaves the loop by `break`                  *)
(*   move-continue  ... and then goes back to the loop head by `continue`    *)
(*   revive         a loop body assigns to a binding moved before the loop   *)
(*   no-default     a switch has no default case and its cases leave a       *)
(*                  binding otherwise than the path that matches none        *)
(*   nested-exit    a plain block ends in a jump                             *)
(*   shadow-body    a statement with a body stands where a binding is hidden *)
(*                  by one of its name                                       *)
(*   shadow-jump    a binding of a loop body is hidden where the body jumps  *)
AllShapes == {"move-out", "move-break", "move-continue", "revive",
              "no-default", "nested-exit", "shadow-body", "shadow-jump"}

ASSUME OwnershipAssumption ==
    /\ Scalars \subseteq Vars
    /\ Namings \subseteq [Vars -> Vars]
    /\ Shapes \subseteq AllShapes
    /\ MaxDepth \in Nat
    /\ MaxStmts \in Nat

Owned == Vars \ Scalars

VARIABLES
    cur,        \* the flow at the point where the next statement goes
    stack,      \* frames of the statements whose bodies are open
    term,       \* blockTerminates of the block being written, so far
    left,       \* statements that may still be written
    faults,     \* <<kind, binding>> pairs the emitted code would commit
    name        \* the naming of the bindings

vars == <<cur, stack, term, left, faults, name>>

----------------------------------------------------------------------------
(* Flows *)

SymState == {"absent", "uninitialized", "active", "consumed"}
Value    == {"none", "uninit", "live", "gone"}

Valuation == [Vars -> Value]
Flow == [sym : [Vars -> SymState], rel : SUBSET Vars, paths : SUBSET Valuation]
Arm  == [flow : Flow, falls : BOOLEAN]
Frame == [kind : {"branch", "loop", "block"}, pre : Flow, exits : BOOLEAN,
          loop : Nat,   \* the index of the innermost loop frame, 0 if none
          arms : SUBSET Arm, breaks : SUBSET Valuation, back : SUBSET Valuation]

FaultKind == {"use-after-move", "use-before-init", "double-release",
              "leak", "loop-carried"}

SetIn(f, S, x) == [v \in Vars |-> IF v \in S THEN x ELSE f[v]]
SetPaths(P, S, x) == {SetIn(p, S, x) : p \in P}

Open(F)   == {v \in Vars : F.sym[v] # "absent"}
Active(F) == {v \in Vars : F.sym[v] = "active"}

(* Values move out of the bindings W: markConsumed and emitMove. *)
ConsumeIn(F, W) ==
    [sym   |-> SetIn(F.sym, W, "consumed"),
     rel   |-> F.rel \cup W,
     paths |-> SetPaths(F.paths, W, "gone")]

(* mutant: recordReg forgets to take the register out of the book *)
DefineKeepsBook(F, v) ==
    [sym   |-> SetIn(F.sym, {v}, "active"),
     rel   |-> F.rel,
     paths |-> SetPaths(F.paths, {v}, "live")]

(* v receives a value; recordReg takes its register out of the book. *)
DefineIn(F, v) ==
    [sym   |-> SetIn(F.sym, {v}, "active"),
     rel   |-> F.rel \ {v},
     paths |-> SetPaths(F.paths, {v}, "live")]

DeclareIn(F, s) ==
    [sym   |-> SetIn(F.sym, {s}, "uninitialized"),
     rel   |-> F.rel \ {s},
     paths |-> SetPaths(F.paths, {s}, "uninit")]

(* The bindings L go out of scope. *)
PopIn(F, L) ==
    [sym   |-> SetIn(F.sym, L, "absent"),
     rel   |-> F.rel \ L,
     paths |-> SetPaths(F.paths, L, "none")]

Dead(F) == [F EXCEPT !.paths = {}]

----------------------------------------------------------------------------
(* What the emitted code does wrong on some path of P *)

Faulty(kind, S) == {<<kind, v>> : v \in S}

(* reading, or moving out of, the bindings S *)
Stale(P, S) ==
    Faulty("use-after-move", {v \in S : \E p \in P : p[v] = "gone"})
      \cup Faulty("use-before-init", {v \in S : \E p \in P : p[v] = "uninit"})

(* emitting a release of the bindings S *)
Doubled(P, S) ==
    Faulty("double-release", {v \in S \cap Owned : \E p \in P : p[v] # "live"})

(* letting the bindings S go, or overwriting them, without a release *)
Leaked(P, S) ==
    Faulty("leak", {v \in S \cap Owned : \E p \in P : p[v] = "live"})

(* A path back to the loop head must find there what the first iteration  *)
(* found: the body was checked and emitted for that state only.           *)
Carried(F, P) ==
    Faulty("loop-carried",
        {v \in Open(F) : \E p \in P :
            \/ F.sym[v] = "active" /\ p[v] # "live"
            \/ v \in Owned /\ (v \in F.rel <=> p[v] = "live")})

----------------------------------------------------------------------------
(* Merging the arms of a branch *)

(* mutant: a binding that some arm still holds stays active *)
UnionStates(xs) ==
    IF "active" \in xs THEN "active" ELSE CHOOSE x \in xs : TRUE

(* intersectLiveBranchValueStates *)
IntersectStates(xs) ==
    IF \A x, y \in xs : x = y THEN CHOOSE x \in xs : TRUE
    ELSE IF "uninitialized" \in xs THEN "uninitialized"
    ELSE "consumed"

(* mutant: arms that leave the function take part in the merge *)
MergeAllSym(pre, arms) ==
    [v \in Vars |-> IntersectStates({a.flow.sym[v] : a \in arms})]

(* The checker's merge: the state before if no arm falls through, else the *)
(* intersection of the arms that do.                                       *)
MergeSym(pre, arms) ==
    LET live == {a \in arms : a.falls}
    IN  [v \in Vars |-> IF live = {} THEN pre[v]
                        ELSE IntersectStates({a.flow.sym[v] : a \in live})]

(* The emitter's merge: every arm that reaches the merge first releases    *)
(* what another such arm has released.                                     *)
LiveArms(arms) == {a \in arms : a.flow.paths # {}}
(* mutant: setMergeReleased's intersection without the balancing before it *)
MergeUnbalanced(pre, arms) ==
    IF LiveArms(arms) = {} THEN pre
    ELSE {v \in Vars : \A a \in LiveArms(arms) : v \in a.flow.rel}
MergeRel(pre, arms) ==
    IF LiveArms(arms) = {} THEN pre ELSE UNION {a.flow.rel : a \in LiveArms(arms)}
(* mutant: the union goes into the book, the releases are not emitted *)
BalanceNothing(arms, a) == {}
Balance(arms, a) == MergeRel({}, arms) \ a.flow.rel
MergePaths(arms) ==
    UNION {SetPaths(a.flow.paths, Balance(arms, a), "gone") : a \in LiveArms(arms)}
BalanceFaults(arms) ==
    UNION {Doubled(a.flow.paths, Balance(arms, a)) : a \in LiveArms(arms)}

MergeFlow(pre, checked, emitted) ==
    [sym   |-> MergeSym(pre.sym, checked),
     rel   |-> MergeRel(pre.rel, emitted),
     paths |-> MergePaths(emitted)]

----------------------------------------------------------------------------
(* Names *)

Top == stack[Len(stack)]
Pop == SubSeq(stack, 1, Len(stack) - 1)

(* A binding may be declared once more in an inner scope; a lookup of the    *)
(* name then finds the inner one.                                            *)
Hiders(v)  == {w \in Vars \ {v} : name[w] = v /\ cur.sym[w] # "absent"}
Visible(v) == Hiders(v) = {}
Found(v)   == IF Visible(v) THEN {v} ELSE Hiders(v)

(* In one scope it is a Redeclaration.                                       *)
Namesakes(v)  == {w \in Vars \ {v} : name[w] = name[v] /\ cur.sym[w] # "absent"}
MayDeclare(v) ==
    /\ cur.sym[v] = "absent"
    /\ \A w \in Namesakes(v) :
          w = name[v] /\ stack # <<>> /\ Top.pre.sym[w] # "absent"

(* saveScopeStates: one state for each name, that of the outer binding.      *)
ByName(sym) ==
    [v \in Vars |-> IF sym[v] # "absent" /\ sym[name[v]] # "absent"
                    THEN sym[name[v]] ELSE sym[v]]
Saved(F) == [F EXCEPT !.sym = ByName(@)]

----------------------------------------------------------------------------
(* Loops *)

(* current_loop_scope *)
CurrentLoop == IF stack = <<>> THEN 0 ELSE Top.loop
InLoop == CurrentLoop # 0
LoopFrame == stack[CurrentLoop]

(* bindingIsLocalToLoop *)
LocalToLoop(v) == LoopFrame.pre.sym[v] = "absent"

(* mutant: no guard *)
NoLoopGuard(v) == TRUE

(* consumeBinding's loop guard *)
LoopGuardAccepts(v) == InLoop => (LoopFrame.exits \/ LocalToLoop(v))

(* mutant: a body that may not run initialises *)
KeepInitialized(sym, saved) == sym

(* restoreUninitializedFromSaved *)
RestoreUninitialized(sym, saved) ==
    [v \in Vars |-> IF saved[v] = "uninitialized" THEN "uninitialized" ELSE sym[v]]

----------------------------------------------------------------------------
(* Which of the rarer shapes this body may use *)

OuterToLoop(v) == InLoop /\ ~LocalToLoop(v)
MovedOut == {v \in Vars : LoopFrame.pre.sym[v] = "active" /\ cur.sym[v] # "active"}

ReturnShape(v)  == OuterToLoop(v) => "move-out" \in Shapes
ConsumeShape(v) == (OuterToLoop(v) /\ LoopFrame.exits) => "move-out" \in Shapes
AssignShape(v)  == (OuterToLoop(v) /\ cur.sym[v] = "consumed") => "revive" \in Shapes
JumpShape(kind) == MovedOut # {} => kind \in Shapes

MayConsume(v) ==
    /\ cur.sym[v] = "active"
    /\ Visible(v)
    /\ LoopGuardAccepts(v)
    /\ ConsumeShape(v)

----------------------------------------------------------------------------
(* Statements *)

Statement == ~term /\ left > 0

(* Operands of a call, a constructor or an initialiser that move. *)
Operands == {W \in SUBSET Owned : Cardinality(W) <= 1}

(* let v = f(W) *)
Let(v, W) ==
    /\ Statement
    /\ MayDeclare(v)
    /\ \A w \in W : MayConsume(w)
    /\ cur' = DefineIn(ConsumeIn(cur, W), v)
    /\ faults' = faults \cup Stale(cur.paths, W)
    /\ left' = left - 1
    /\ UNCHANGED <<stack, term>>

(* var s: T *)
Var(s) ==
    /\ Statement
    /\ MayDeclare(s)
    /\ cur' = DeclareIn(cur, s)
    /\ left' = left - 1
    /\ UNCHANGED <<stack, term, faults>>

(* An expression that reads v in place. *)
Use(v) ==
    /\ Statement
    /\ cur.sym[v] = "active"
    /\ Visible(v)
    /\ faults' = faults \cup Stale(cur.paths, {v})
    /\ left' = left - 1
    /\ UNCHANGED <<cur, stack, term>>

(* !v, or a call statement that moves v *)
Consume(v) ==
    /\ Statement
    /\ MayConsume(v)
    /\ cur' = ConsumeIn(cur, {v})
    /\ faults' = faults \cup Stale(cur.paths, {v})
    /\ left' = left - 1
    /\ UNCHANGED <<stack, term>>

(* v = f(W); with W = {v} the accumulation form v = f(v), which the loop  *)
(* guard lets through.  The old value is released when the book says the  *)
(* register still holds one.                                              *)
Assign(v, W) ==
    LET held == {v} \ (cur.rel \cup W)
        lost == {v} \cap cur.rel
    IN  /\ Statement
        /\ cur.sym[v] # "absent"
        /\ Visible(v)
        /\ AssignShape(v)
        /\ \A w \in W : IF w = v THEN cur.sym[v] = "active" ELSE MayConsume(w)
        /\ cur' = DefineIn(ConsumeIn(cur, W), v)
        /\ faults' = faults \cup Stale(cur.paths, W)
                            \cup Doubled(cur.paths, held) \cup Leaked(cur.paths, lost)
        /\ left' = left - 1
        /\ UNCHANGED <<stack, term>>

----------------------------------------------------------------------------
(* Statements with a body *)

(* mutant: a loop's number is taken after it was counted *)
LateFrame(kind, exits) ==
    [kind |-> kind, pre |-> cur, exits |-> exits,
     loop |-> IF kind = "loop" THEN Len(stack) + 2 ELSE CurrentLoop,
     arms |-> {}, breaks |-> {}, back |-> {}]

NewFrame(kind, exits) ==
    [kind |-> kind, pre |-> cur, exits |-> exits,
     loop |-> IF kind = "loop" THEN Len(stack) + 1 ELSE CurrentLoop,
     arms |-> {}, breaks |-> {}, back |-> {}]

(* The checker reads blockTerminates(body) before it walks a loop body, so *)
(* exits is chosen here and the body must turn out that way.               *)
OpenBody(kind, exits) ==
    /\ Statement
    /\ Len(stack) < MaxDepth
    /\ (\E v \in Open(cur) : ~Visible(v)) => "shadow-body" \in Shapes
    /\ stack' = Append(stack, NewFrame(kind, exits))
    /\ left' = left - 1
    /\ UNCHANGED <<cur, term, faults>>

(* The end of a body: releaseLocalsFrom and popLocalsTo. *)
Locals(F)    == Open(cur) \ Open(F)
EndOfBody(F) == PopIn(cur, Locals(F))
EndFaults(F) ==
    LET released == (Locals(F) \cap Owned) \ cur.rel
    IN  Doubled(cur.paths, released) \cup Leaked(cur.paths, Locals(F) \ released)

ThisArm  == [flow |-> EndOfBody(Top.pre), falls |-> ~term]
SavedArm == [ThisArm EXCEPT !.flow = Saved(@)]

(* From one arm to the next: the checker restores the saved states, the    *)
(* emitter its snapshot.                                                   *)
NextArm ==
    /\ stack # <<>> /\ Top.kind = "branch"
    /\ left > 0
    /\ stack' = [stack EXCEPT ![Len(stack)].arms = @ \cup {SavedArm}]
    /\ cur' = Saved(Top.pre)
    /\ term' = FALSE
    /\ faults' = faults \cup EndFaults(Top.pre)
    /\ left' = left - 1

CloseArms(checked, emitted, terminates) ==
    /\ cur' = MergeFlow(Saved(Top.pre), checked, emitted)
    /\ term' = terminates
    /\ faults' = faults \cup EndFaults(Top.pre) \cup BalanceFaults(emitted)
    /\ stack' = Pop
    /\ UNCHANGED left

SkipArm == [flow |-> Saved(Top.pre), falls |-> TRUE]

(* if-else, match, and switch with a default: some arm is taken.  The states *)
(* at the end of an else are not saved.                                      *)
LastArms == IF Cardinality(Top.arms) <= 1 THEN {ThisArm, SavedArm} ELSE {SavedArm}
CloseExhaustive ==
    /\ stack # <<>> /\ Top.kind = "branch"
    /\ \E last \in LastArms :
          LET arms == Top.arms \cup {last}
          IN  CloseArms(arms, arms, \A a \in arms : ~a.falls)

(* if without else: one arm and the path that skips it. *)
CloseIf ==
    /\ stack # <<>> /\ Top.kind = "branch" /\ Top.arms = {}
    /\ LET arms == {SavedArm, SkipArm} IN CloseArms(arms, arms, FALSE)

(* switch without default: only the emitter accounts for the path that    *)
(* matches no case.                                                       *)
CloseSwitch ==
    /\ stack # <<>> /\ Top.kind = "branch"
    /\ LET cases == Top.arms \cup {SavedArm}
           paths == cases \cup {SkipArm}
           pre   == Saved(Top.pre).sym
           SkipMatters == MergeSym(pre, cases) # MergeSym(pre, paths)
       IN  /\ SkipMatters => "no-default" \in Shapes
           /\ CloseArms(cases, paths, FALSE)

(* A plain block never terminates for the checker, whatever it ends in. *)
CloseBlock ==
    /\ stack # <<>> /\ Top.kind = "block"
    /\ term => "nested-exit" \in Shapes
    /\ cur' = EndOfBody(Top.pre)
    /\ term' = FALSE
    /\ faults' = faults \cup EndFaults(Top.pre)
    /\ stack' = Pop
    /\ UNCHANGED left

(* After a loop the emitter goes back to the book it had before it; the   *)
(* checker keeps the states the body ended with.                          *)
LoopExit(F, sym, back, breaks) ==
    [sym   |-> RestoreUninitialized(sym, ByName(F.sym)),
     rel   |-> F.rel,
     paths |-> F.paths \cup back \cup breaks]

CloseLoop ==
    /\ stack # <<>> /\ Top.kind = "loop"
    /\ term = Top.exits
    /\ LET end  == EndOfBody(Top.pre)
           back == Top.back \cup end.paths
       IN  /\ cur' = LoopExit(Top.pre, end.sym, back, Top.breaks)
           /\ faults' = faults \cup EndFaults(Top.pre) \cup Carried(Top.pre, back)
    /\ term' = FALSE
    /\ stack' = Pop
    /\ UNCHANGED left

----------------------------------------------------------------------------
(* Jumps *)

(* genLoopJump: break and continue release the checker's cleanup list, the *)
(* active bindings local to the loop, except those that the book holds as  *)
(* released.  It is a list of names (releaseCleanupName).                  *)
LoopLocals == Locals(LoopFrame.pre)
Arrived    == SetPaths(cur.paths, LoopLocals, "none")
JumpFaults ==
    LET found    == UNION {Found(v) : v \in LoopLocals \cap Active(cur)}
        released == (found \cap Owned) \ cur.rel
    IN  Doubled(cur.paths, released) \cup Leaked(cur.paths, LoopLocals \ released)

LeaveBody ==
    /\ Statement
    /\ InLoop
    /\ (\E v \in LoopLocals : ~Visible(v)) => "shadow-jump" \in Shapes
    /\ cur' = Dead(cur)
    /\ faults' = faults \cup JumpFaults
    /\ term' = TRUE
    /\ left' = left - 1

Break ==
    /\ LeaveBody
    /\ JumpShape("move-break")
    /\ stack' = [stack EXCEPT ![CurrentLoop].breaks = @ \cup Arrived]

Continue ==
    /\ LeaveBody
    /\ JumpShape("move-continue")
    /\ stack' = [stack EXCEPT ![CurrentLoop].back = @ \cup Arrived]

(* return: W moves into the value, R is the value; releaseOpenLocals       *)
(* releases every other binding the book does not hold as released.       *)
Return(R, W) ==
    LET released == (Open(cur) \cap Owned) \ (cur.rel \cup R \cup W)
    IN  /\ Statement
        /\ \A v \in R \cup W : cur.sym[v] = "active" /\ Visible(v)
        /\ \A w \in W : ReturnShape(w)
        /\ cur' = Dead(ConsumeIn(cur, W))
        /\ faults' = faults \cup Stale(cur.paths, R \cup W)
                            \cup Doubled(cur.paths, released)
                            \cup Leaked(cur.paths, Open(cur) \ (released \cup R \cup W))
        /\ term' = TRUE
        /\ left' = left - 1
        /\ UNCHANGED stack

----------------------------------------------------------------------------
Init ==
    /\ cur = [sym |-> [v \in Vars |-> "absent"], rel |-> {},
              paths |-> {[v \in Vars |-> "none"]}]
    /\ stack = <<>>
    /\ term = FALSE
    /\ left = MaxStmts
    /\ faults = {}
    /\ name \in Namings

Statements ==
    \/ \E v \in Owned, W \in Operands : Let(v, W)
    \/ \E s \in Scalars : Var(s)
    \/ \E v \in Vars : Use(v)
    \/ \E v \in Vars : Consume(v)
    \/ \E v \in Owned, W \in Operands : Assign(v, W)
    \/ \E s \in Scalars : Assign(s, {})
    \/ OpenBody("branch", FALSE)
    \/ OpenBody("block", FALSE)
    \/ \E exits \in BOOLEAN : OpenBody("loop", exits)
    \/ NextArm
    \/ CloseExhaustive
    \/ CloseIf
    \/ CloseSwitch
    \/ CloseBlock
    \/ CloseLoop
    \/ Break
    \/ Continue
    \/ \E W \in Operands : Return({}, W)
    \/ \E R \in Operands : Return(R, {})

Next == Statements /\ UNCHANGED name

Spec == Init /\ [][Next]_vars

----------------------------------------------------------------------------
(* Properties *)

(* Every part of the state keeps its shape. *)
TypeOK ==
    /\ cur \in Flow
    /\ stack \in Seq(Frame)
    /\ \A i \in DOMAIN stack : stack[i].loop \in 0 .. i
    /\ term \in BOOLEAN
    /\ left \in 0..MaxStmts
    /\ faults \subseteq FaultKind \X Vars
    /\ name \in Namings

NoFault(kind) == \A v \in Vars : <<kind, v>> \notin faults

(* No accepted body reads or moves a value that some path to that point    *)
(* has already moved away (UseAfterMove is the checker's to report).       *)
NoUseAfterMove == NoFault("use-after-move")

(* No accepted body reads a `var` that some path leaves unassigned.        *)
NoUseBeforeInit == NoFault("use-before-init")

(* No path through the emitted code releases a value twice: not at the end *)
(* of a block, at a merge, at a jump, at a return or at a reassignment.    *)
NoDoubleRelease == NoFault("double-release")

(* No path lets an owned value go without releasing or moving it.          *)
NoLeak == NoFault("leak")

(* The paths that reach a loop's back-edge find every binding as the first *)
(* iteration found it, so the one pass over the body covers them all.      *)
LoopHeadStable == NoFault("loop-carried")

(* "A .consumed binding has no old value" (checker comment at assign_stmt, *)
(* which is why a reassignment of a consumed binding plans no deep drop).  *)
ConsumedHasNoOldValue ==
    \A v \in Owned : cur.sym[v] = "consumed" => \A p \in cur.paths : p[v] # "live"

----------------------------------------------------------------------------
(* The inductive invariant behind the properties, for bodies that use none *)
(* of the rarer shapes.                                                    *)

(* What a checker state says about the value. *)
Meaning(x) ==
    CASE x = "absent"   -> {"none"}
      [] x = "active"   -> {"live"}
      [] x = "consumed" -> {"gone"}
      [] OTHER          -> {"uninit", "live", "gone"}

(* The emitter's book says the same as the checker, and both are right.    *)
BookAgrees(F) ==
    \A v \in Vars :
        /\ F.sym[v] \in {"absent", "active"} => v \notin F.rel
        /\ F.sym[v] = "consumed" => v \in F.rel
        /\ v \in Owned => F.sym[v] # "uninitialized"
Truthful(sym, P) == \A p \in P : \A v \in Vars : p[v] \in Meaning(sym[v])
Agrees(F) == BookAgrees(F) /\ Truthful(F.sym, F.paths)

(* Inside a body opened at G, the bindings of G are still there ...        *)
InScopeOf(G, sym) == \A v \in Vars : G.sym[v] # "absent" => sym[v] # "absent"

(* ... and inside a loop they are as they were at its head, except that a  *)
(* `var` may have been assigned.                                           *)
SteadySince(G, sym) ==
    \A v \in Vars : G.sym[v] # "absent" =>
        \/ sym[v] = G.sym[v]
        \/ G.sym[v] = "uninitialized" /\ sym[v] = "active"

Encloses(f, sym) ==
    /\ InScopeOf(f.pre, sym)
    /\ f.kind = "loop" => SteadySince(f.pre, sym)

ArmAgrees(f, a) ==
    /\ Agrees(a.flow)
    /\ a.falls <=> a.flow.paths # {}
    /\ \A v \in Vars : a.flow.sym[v] = "absent" <=> f.pre.sym[v] = "absent"

FrameAgrees(f) ==
    /\ f.pre.paths # {}
    /\ Agrees(f.pre)
    /\ \A a \in f.arms : ArmAgrees(f, a)
    /\ Truthful(f.pre.sym, f.breaks \cup f.back)

(* loop names the innermost loop a frame is in. *)
LoopsIndexed(stk) ==
    \A i \in DOMAIN stk :
        /\ stk[i].loop # 0 => stk[stk[i].loop].kind = "loop"
        /\ \A j \in 1 .. i : stk[j].kind = "loop" => j <= stk[i].loop

Nested(stk, sym) ==
    \A i \in DOMAIN stk :
        /\ FrameAgrees(stk[i])
        /\ Encloses(stk[i], sym)
        /\ \A j \in DOMAIN stk : i < j =>
            /\ Encloses(stk[i], stk[j].pre.sym)
            /\ \A a \in stk[j].arms : Encloses(stk[i], a.flow.sym)

(* Where a body was opened no binding is hidden, so a state by name is that  *)
(* of the binding.                                                           *)
Clear(sym) == \A v \in Vars : sym[v] # "absent" /\ name[v] # v => sym[name[v]] = "absent"
ClearBodies == \A i \in DOMAIN stack : Clear(stack[i].pre.sym)

(* The checker, the emitter and the emitted code tell one story, here and  *)
(* at every point the analysis will come back to.                          *)
OneStory ==
    /\ Agrees(cur)
    /\ term <=> cur.paths = {}
    /\ LoopsIndexed(stack)
    /\ Nested(stack, cur.sym)
    /\ faults = {}

Coherent == OneStory /\ ClearBodies
=============================================================================
