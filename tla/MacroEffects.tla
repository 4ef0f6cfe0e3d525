---------------------------- MODULE MacroEffects ----------------------------
(* What a user macro does with the values of its caller.  The checker sums a *)
(* macro up in one word per parameter: it consumes the argument always,      *)
(* never, or on some paths only, and in the last case it refuses the call    *)
(* (control_flow_rules.zig 45-190, type_checker.zig 6887-7107 and            *)
(* 10460-10492).  A `?` in a macro leaves the caller's function, so the      *)
(* checker also lists, once per call, what has to be released then, and the  *)
(* SAB emitter releases of that list what its book still holds wherever it   *)
(* expands a `?` (sab_codegen.zig 3964-3983, 11573-11600, 11908-11979).      *)
(*                                                                           *)
(* A behaviour writes macros in postfix order: statements are pushed on      *)
(* `open` and joined to sequences, branches and loops.  A part of a body     *)
(* carries what each of the analyses says of it, what the emitter's book     *)
(* holds behind it, and beside them what really happens on every path.       *)
EXTENDS Integers, Sequences, FiniteSets

CONSTANTS
    Params,     \* the parameters of every macro
    Shapes,     \* rarer forms of bodies (below)
    MaxMacros,  \* bound on the macros written
    MaxLeaves,  \* bound on the statements of all macros
    MaxOpen     \* bound on the parts not yet joined

AllShapes == {"leaving-arm", "arm-exit", "two-sources", "two-ways"}

ASSUME MacroAssumption ==
    /\ Params # {} /\ Shapes \subseteq AllShapes
    /\ {MaxMacros, MaxLeaves, MaxOpen} \subseteq Nat

VARIABLES
    open,       \* parts of the macro being written
    macros,     \* finished macros
    left        \* statements that may still be written

vars == <<open, macros, left>>

Effect == {"never", "always", "conditional"}

(* What a path has done: moved values away, used them by a move or a `?`. *)
Path == [moved : SUBSET Params, used : SUBSET Params]

(* A path that leaves the caller's function or the program, the parameter it *)
(* gives back (of a `?` on anything else: none), and the emitter's book then. *)
Exit == [by : {"try", "return", "panic"}, moved : SUBSET Params, used : SUBSET Params,
         source : SUBSET Params, book : SUBSET Params]

Part ==
    [direct    : [Params -> Effect],  \* macroParamConsumption of the body itself
     forwarded : [Params -> Effect],  \* ... of the macros it calls
     gone      : SUBSET Params,       \* consumed for the checker of the body
     tried     : BOOLEAN,             \* macroHasTry
     sources   : SUBSET Params,       \* macroParamIsTrySource
     book      : SUBSET Params,       \* released_regs the code has added
     ends      : SUBSET Path,         \* paths that reach its end
     exits     : SUBSET Exit]         \* paths that leave

Never == [p \in Params |-> "never"]
Untouched == [moved |-> {}, used |-> {}]

-----------------------------------------------------------------------------
(* The analyses, joined. *)

SequenceEffect(l, r) ==
    IF "always" \in {l, r} THEN "always"
    ELSE IF "conditional" \in {l, r} THEN "conditional" ELSE "never"

(* Mutants of BranchEffect: arms taken for a sequence; two arms that both   *)
(* consume taken for a doubt.                                               *)
ArmsInSequence(l, r) == SequenceEffect(l, r)
ArmsInDoubt(l, r) == IF l = "never" /\ r = "never" THEN "never" ELSE "conditional"

BranchEffect(l, r) == IF l = r THEN l ELSE "conditional"

LoopEffect(e) == IF e = "never" THEN "never" ELSE "conditional"

(* A macro that consumes a parameter itself is not asked what it forwards. *)
Verdict(m) ==
    [p \in Params |-> IF m.direct[p] # "never" THEN m.direct[p] ELSE m.forwarded[p]]

Uses(c) == {p \in Params : c.direct[p] # "never" \/ c.forwarded[p] # "never"}

(* A call with a conditional parameter is refused.                          *)
Accepted(m) == \A p \in Params : Verdict(m)[p] # "conditional"

-----------------------------------------------------------------------------
(* Statements. *)

Nothing ==
    [direct |-> Never, forwarded |-> Never, gone |-> {}, tried |-> FALSE,
     sources |-> {}, book |-> {}, ends |-> {Untouched}, exits |-> {}]

(* Mutant of MovePart: genMacroMove without markConsumed. *)
MoveUnmarked(p) ==
    [Nothing EXCEPT !.direct[p] = "always", !.gone = {p},
                    !.ends = {[moved |-> {p}, used |-> {p}]}]

MovePart(p) ==
    [Nothing EXCEPT !.direct[p] = "always", !.gone = {p}, !.book = {p},
                    !.ends = {[moved |-> {p}, used |-> {p}]}]

(* `s?`: the failing path leaves with s, the other takes the payload out of *)
(* it and leaves the container to its owner.                                *)
TryPart(s) ==
    [direct    |-> [p \in Params |-> IF p \in s THEN "always" ELSE "never"],
     forwarded |-> Never, gone |-> s, tried |-> TRUE, sources |-> s, book |-> {},
     ends      |-> {[moved |-> {}, used |-> s]},
     exits     |-> {[by |-> "try", moved |-> {}, used |-> s, source |-> s, book |-> {}]}]

(* The releases in front of a return stay in the book. *)
ReturnPart ==
    [Nothing EXCEPT
        !.book = Params, !.ends = {},
        !.exits = {[by |-> "return", moved |-> {}, used |-> {}, source |-> {}, book |-> {}]}]

(* The parameters passed for those in s. *)
Passed(pos, s) == {p \in Params : pos[p] \in s}

(* Mutant of SourcesOf: only the sources of the macro's own `?` are found.  *)
NoSources(m, pos) == {}

SourcesOf(m, pos) == Passed(pos, m.sources)

(* Nothing is released. *)
PanicPart ==
    [Nothing EXCEPT
        !.ends = {},
        !.exits = {[by |-> "panic", moved |-> {}, used |-> {}, source |-> {}, book |-> {}]}]

(* A call of macro m in a macro body; argument p stands at the position of  *)
(* its parameter pos[p].  Its code is expanded here.                        *)
CallPart(m, pos) ==
    [direct    |-> Never,
     forwarded |-> [p \in Params |-> Verdict(m)[pos[p]]],
     gone      |-> {p \in Params : Verdict(m)[pos[p]] # "never"},
     tried     |-> m.tried,
     sources   |-> SourcesOf(m, pos),
     book      |-> Passed(pos, m.book),
     ends      |-> {[moved |-> Passed(pos, e.moved), used |-> Passed(pos, e.used)] : e \in m.ends},
     exits     |-> {[by |-> e.by, moved |-> Passed(pos, e.moved), used |-> Passed(pos, e.used),
                     source |-> Passed(pos, e.source), book |-> Passed(pos, e.book)] : e \in m.exits}]

-----------------------------------------------------------------------------
(* Parts joined. *)

InSequence(a, b) == [p \in Params |-> SequenceEffect(a[p], b[p])]
InBranches(a, b) == [p \in Params |-> BranchEffect(a[p], b[p])]

(* The exits of code that is emitted behind a and reached by path e. *)
Behind(a, e, x) ==
    [x EXCEPT !.moved = @ \cup e.moved, !.used = @ \cup e.used, !.book = @ \cup a.book]

LaterExits(a, b) == {Behind(a, e, x) : e \in a.ends, x \in b.exits}

Then(e, f) == [moved |-> e.moved \cup f.moved, used |-> e.used \cup f.used]

LaterEnds(a, b) == {Then(e, f) : e \in a.ends, f \in b.ends}

Sequence(a, b) ==
    [direct    |-> InSequence(a.direct, b.direct),
     forwarded |-> InSequence(a.forwarded, b.forwarded),
     gone      |-> a.gone \cup b.gone,
     tried     |-> a.tried \/ b.tried,
     sources   |-> a.sources \cup b.sources,
     book      |-> a.book \cup b.book,
     ends      |-> LaterEnds(a, b),
     exits     |-> a.exits \cup LaterExits(a, b)]

(* An arm that ends in a jump does not count for the states behind the if.  *)
MergedGone(a, b) ==
    (IF a.ends = {} THEN {} ELSE a.gone) \cup (IF b.ends = {} THEN {} ELSE b.gone)

(* Both arms are emitted one after the other with one book. *)
Branch(a, b) ==
    [direct    |-> InBranches(a.direct, b.direct),
     forwarded |-> InBranches(a.forwarded, b.forwarded),
     gone      |-> MergedGone(a, b),
     tried     |-> a.tried \/ b.tried,
     sources   |-> a.sources \cup b.sources,
     book      |-> a.book \cup b.book,
     ends      |-> a.ends \cup b.ends,
     exits     |-> a.exits \cup {Behind(a, Untouched, x) : x \in b.exits}]

(* A body that comes back to the head uses no parameter (MayLoop), so its   *)
(* paths are those of one iteration.                                        *)
Loop(a) ==
    [a EXCEPT !.direct = [p \in Params |-> LoopEffect(a.direct[p])],
              !.forwarded = [p \in Params |-> LoopEffect(a.forwarded[p])],
              !.ends = {Untouched}]

-----------------------------------------------------------------------------
(* What the checker of the macro body accepts. *)

(* Nothing follows a jump, and what is consumed is not used again. *)
MayFollow(a, b) == a.ends # {} /\ Uses(b) \cap a.gone = {}

(* LoopConditionalConsume, unless the body leaves. *)
MayLoop(a) == Uses(a) = {} \/ a.ends = {}

(* The rarer shapes. *)
LeavesTraces(a) == a.ends = {} /\ a.book # {}

TwoSources(a, b) == a.tried /\ b.tried /\ a.sources # b.sources

TwoWays(a, b) ==
    \E p \in Uses(a) \cap Uses(b) :
        \/ ~(p \in a.book <=> p \in b.book)
        \/ ~(a.direct[p] = "never" <=> b.direct[p] = "never")

Plain(a, b) ==
    /\ "two-sources" \in Shapes \/ ~TwoSources(a, b)
    /\ "two-ways" \in Shapes \/ ~TwoWays(a, b)

PlainArms(a, b) ==
    /\ "leaving-arm" \in Shapes \/ ~(LeavesTraces(a) \/ LeavesTraces(b))
    /\ "arm-exit" \in Shapes \/ a.book = {} \/ b.exits = {}

-----------------------------------------------------------------------------
Init == open = <<>> /\ macros = <<>> /\ left = MaxLeaves

Push(part) ==
    /\ left > 0 /\ Len(open) < MaxOpen
    /\ open' = Append(open, part)
    /\ left' = left - 1
    /\ UNCHANGED macros

Skip == Push(Nothing)
Move(p) == Push(MovePart(p))
Try(p) == Push(TryPart({p}))
TryValue == Push(TryPart({}))
Return == Push(ReturnPart)
Panic == Push(PanicPart)

(* An argument each; a macro that never comes back is not called. *)
Positions == {pos \in [Params -> Params] : \A p, q \in Params : pos[p] = pos[q] => p = q}

Call(k, pos) ==
    /\ Accepted(macros[k]) /\ macros[k].ends # {}
    /\ Push(CallPart(macros[k], pos))

(* The last two parts replaced by one. *)
Join(part) ==
    /\ open' = Append(SubSeq(open, 1, Len(open) - 2), part)
    /\ UNCHANGED <<macros, left>>

Follow ==
    /\ Len(open) >= 2
    /\ LET a == open[Len(open) - 1]
           b == open[Len(open)]
       IN  MayFollow(a, b) /\ Plain(a, b) /\ Join(Sequence(a, b))

IfElse ==
    /\ Len(open) >= 2
    /\ LET a == open[Len(open) - 1]
           b == open[Len(open)]
       IN  Plain(a, b) /\ PlainArms(a, b) /\ Join(Branch(a, b))

While ==
    /\ Len(open) >= 1
    /\ LET a == open[Len(open)]
       IN  /\ MayLoop(a)
           /\ "leaving-arm" \in Shapes \/ ~LeavesTraces(a)
           /\ open' = [open EXCEPT ![Len(open)] = Loop(a)]
    /\ UNCHANGED <<macros, left>>

Define ==
    /\ Len(open) = 1 /\ Len(macros) < MaxMacros
    /\ macros' = Append(macros, open[1])
    /\ open' = <<>>
    /\ UNCHANGED left

Next ==
    \/ Skip \/ TryValue \/ Return \/ Panic
    \/ \E p \in Params : Move(p) \/ Try(p)
    \/ \E k \in 1..Len(macros), pos \in Positions : Call(k, pos)
    \/ Follow \/ IfElse \/ While \/ Define

Spec == Init /\ [][Next]_vars
-----------------------------------------------------------------------------
(* Properties. *)

Parts == {open[i] : i \in DOMAIN open} \cup {macros[k] : k \in DOMAIN macros}

(* Every path that leaves by `?` is seen by macroHasTry, and the parameter it *)
(* gives back by macroParamIsTrySource.                                       *)
Seen(c) ==
    \A x \in c.exits : x.by = "try" => c.tried /\ x.source \subseteq c.sources

TypeOK ==
    /\ open \in Seq(Part)
    /\ macros \in Seq(Part)
    /\ left \in 0..MaxLeaves
    /\ \A c \in Parts : Seen(c)

(* What the caller is told is true of every path on which it goes on: an    *)
(* argument consumed "always" has been used on each of them, one consumed   *)
(* "never" on none.                                                         *)
VerdictRight ==
    \A k \in DOMAIN macros, p \in Params : \A e \in macros[k].ends :
        /\ Verdict(macros[k])[p] = "always" => p \in e.used
        /\ Verdict(macros[k])[p] = "never" => p \notin e.used

(* "macro consumes parameter only on some control-flow paths": a macro that *)
(* is refused has a path that uses the parameter and one that does not.     *)
RefusedRightly ==
    \A k \in DOMAIN macros, p \in Params :
        Verdict(macros[k])[p] = "conditional" =>
            /\ \E e \in macros[k].ends \cup macros[k].exits : p \in e.used
            /\ \E e \in macros[k].ends \cup macros[k].exits : p \notin e.used

(* Mutant of Released: all active bindings are listed.                      *)
ReleasedAll(m, x) == Params \ x.book

(* What is released on the way out of the caller: before a return all that  *)
(* the book does not call gone, at a `?` of these the caller's active       *)
(* bindings without the arguments that the macro may give back.             *)
Released(m, x) ==
    IF x.by = "return" THEN Params \ x.book ELSE (Params \ m.sources) \ x.book

(* Where an accepted macro leaves the caller's function, what the caller    *)
(* still owns is released, each argument once, and what is given back not.  *)
ExitsClean ==
    \A k \in DOMAIN macros : Accepted(macros[k]) =>
        \A x \in macros[k].exits : x.by # "panic" =>
            Released(macros[k], x) = Params \ (x.moved \cup x.source)

(* Behind an accepted macro the emitter's book says of every path what it   *)
(* has moved away, so that the caller releases the rest once.               *)
BookRight ==
    \A k \in DOMAIN macros : Accepted(macros[k]) =>
        \A e \in macros[k].ends : e.moved = macros[k].book
=============================================================================
