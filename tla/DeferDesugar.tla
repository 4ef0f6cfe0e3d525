---------------------------- MODULE DeferDesugar ----------------------------
(***************************************************************************)
(* The `defer` desugaring (defer_desugar.zig) and a run of its result.     *)
(*                                                                         *)
(* A behaviour first writes a function body statement by statement while   *)
(* the desugarer walks it: `bodies` is the stack of processBlock calls,    *)
(* `out` the code they have produced, flattened, a body between the        *)
(* instruction that opens it and its "close".  Then it runs `out`, taking  *)
(* branches freely.  The run keeps beside the code's own state what the    *)
(* defer statements it passed are owed: `live` holds, for every body it is *)
(* in, the calls registered there, and `due` those whose body it has left. *)
(***************************************************************************)
EXTENDS Naturals, Sequences, SequencesExt

CONSTANTS
    Shapes,      \* statement shapes, beyond the ordinary ones, a body may use
    Kinds,       \* kinds of nested bodies a function may use
    MaxStmts,    \* bound on statements in a function
    MaxRounds    \* bound on the times a run enters a loop body

(*   loop-return   a return in a loop body, with defers outside the loop     *)
(*   hidden-exit   a jump in a body the desugarer does not enter, out of a   *)
(*                 body that has defers                                      *)
(*   tail          a function body with defers ends in a value expression    *)
(*   name          `return x` for a variable x a deferred call may write     *)
AllShapes == {"loop-return", "hidden-exit", "tail", "name"}

(* "if" stands for the bodies of if, match and let-else, "while" for both    *)
(* loops, "select" for the arms of a select and "arena" for arena blocks.    *)
Hidden   == {"select", "arena"}
AllKinds == {"block", "if", "while"} \cup Hidden

ASSUME DeferAssumption ==
    /\ Shapes \subseteq AllShapes
    /\ Kinds \subseteq AllKinds
    /\ MaxStmts \in Nat
    /\ MaxRounds \in Nat

VARIABLES
    phase,     \* "body", then "run" and "done", or "rejected"
    bodies,    \* the bodies being written, innermost last
    out,       \* the desugared code
    counter,   \* Desugarer.counter, as far as snapshots use it
    defers,    \* the defer statements so far: TRUE for those that pass &x
    left,      \* statements that may still be written
    run        \* the state of the run

source == <<bodies, out, counter, defers, left>>
vars   == <<phase, source, run>>

----------------------------------------------------------------------------
(* Code *)

Bit    == {0, 1}
Ref    == 2      \* a snapshot that holds &x
Unset  == 3      \* a snapshot name not bound yet
Void   == 2      \* the result of a function without a value
Jumps  == {"break", "continue"}
Exits  == {"return-value", "return-saved", "return-name"}
Ops    == AllKinds \cup Jumps \cup Exits
            \cup {"let", "call", "assign", "save", "tail", "close", "end"}

(* at: the opening instruction a close or a jump belongs to.                 *)
Instr == [op : Ops, defer : Nat, name : Nat, at : Nat]

Plain(op)      == [op |-> op, defer |-> 0, name |-> 0, at |-> 0]
Bound(op, at)  == [Plain(op) EXCEPT !.at = at]

Call == [defer : Nat, name : Nat]

(* The run of a function with one variable x.                                *)
(*   lets     the values of the snapshot names; saved that of __dfret_ or of *)
(*            the tail expression                                            *)
(*   rounds   loop bodies that may still be entered                          *)
(*   live     the bodies it is in, innermost last, and what they owe         *)
(*   due      the calls whose body was left; ran those that were made        *)
(*   want     x when the deferred calls of the present exit began            *)
Arg  == Bit \cup {Ref, Unset}
Owed == [defer : Nat, arg : Arg]
Machine == [pc : Nat \ {0}, x : Bit, lets : [0 .. MaxStmts -> Arg], saved : Bit,
            result : Bit \cup {Void}, rounds : 0 .. MaxRounds,
            live : Seq([at : Nat, owed : Seq(Owed)]), due : Seq(Owed),
            ran : Seq(Owed), want : Bit]

(* A call of processBlock: outer is its parameter, defers the list it fills, *)
(* exited its last_was_exit.  A body that is not seen has no such call.      *)
Body == [kind : AllKinds \cup {"fn"}, at : Nat, outer : Seq(Seq(Call)),
         defers : Seq(Call), exited : BOOLEAN, seen : BOOLEAN]

Top      == Last(bodies)
Chain(b) == Append(b.outer, b.defers)

(* Copies of the calls, innermost body first, last registered first.         *)
EmitDefers(lists) ==
    LET calls == Reverse(FlattenSeq(lists))
    IN  [i \in DOMAIN calls |->
            [Plain("call") EXCEPT !.defer = calls[i].defer, !.name = calls[i].name]]

(* Mutants of FreshName: a counter not advanced, and one advanced twice.     *)
FreshNameStuck(c) == c
FreshNameTwice(c) == c + 2

FreshName(c) == c + 1

(* Mutant of OuterOf: a loop body keeps the chain.                           *)
OuterOfAny(kind, b) == Chain(b)

(* The chain a nested body starts from: a loop body forgets the outer one.   *)
OuterOf(kind, b) == IF kind = "while" THEN <<>> ELSE Chain(b)

(* Mutant of NeedsSaving.                                                    *)
NeverSaving(form, b) == FALSE

(* The return value goes into a name of its own when calls come between.     *)
NeedsSaving(form, b) == form = "return-value" /\ FlattenSeq(Chain(b)) # <<>>

----------------------------------------------------------------------------
(* Writing and desugaring a body *)

Writing == /\ phase = "body"
           /\ left > 0
           /\ ~Top.exited
           /\ out # <<>> => Last(out).op # "tail"

Write(bs, code) ==
    /\ bodies' = bs
    /\ out' = out \o code
    /\ left' = left - 1
    /\ UNCHANGED <<phase, run>>

WithTop(b) == Append(Front(bodies), b)

(* What a jump leaves behind: the defers of the bodies it goes out of.       *)
ListsFrom(n)  == [i \in 1 .. (Len(bodies) - n + 1) |-> bodies[n + i - 1].defers]
Loops         == {i \in DOMAIN bodies : bodies[i].kind = "while"}
Innermost     == CHOOSE i \in Loops : \A j \in Loops : j <= i
Crossed(n)       == FlattenSeq(ListsFrom(n))
MayWrite(n)   == \E i \in DOMAIN Crossed(n) : defers[Crossed(n)[i].defer]

(* `defer f(x)` or, by reference, `defer f(&x)`.                             *)
Defer ==
    \E ref \in BOOLEAN :
        LET call == [defer |-> Len(defers) + 1, name |-> FreshName(counter)]
        IN  /\ Writing
            /\ Top.seen
            /\ Write(WithTop([Top EXCEPT !.defers = Append(@, call)]),
                     <<[Plain("let") EXCEPT !.defer = call.defer, !.name = call.name]>>)
            /\ defers' = Append(defers, ref)
            /\ counter' = FreshName(counter)

(* A defer statement the desugarer did not reach: the checker refuses it.    *)
Survivor ==
    /\ Writing
    /\ ~Top.seen
    /\ phase' = "rejected"
    /\ UNCHANGED <<source, run>>

(* x := 1 - x; two of them in a row would be none.                           *)
Assign ==
    /\ Writing
    /\ out # <<>> => Last(out).op # "assign"
    /\ Write(bodies, <<Plain("assign")>>)
    /\ UNCHANGED <<counter, defers>>

(* A value expression at the end of the function body.                       *)
TailValue ==
    /\ Writing
    /\ Len(bodies) = 1
    /\ Top.defers # <<>> => "tail" \in Shapes
    /\ Write(bodies, <<Plain("tail")>>)
    /\ UNCHANGED <<counter, defers>>

Copies == IF Top.seen THEN EmitDefers(Chain(Top)) ELSE <<>>

(* "return-name" also stands for a literal and for no value: the code treats *)
(* them alike.                                                               *)
Return ==
    \E form \in {"return-value", "return-name"} :
        /\ Writing
        /\ (Top.seen /\ Crossed(1) # FlattenSeq(Chain(Top))) => "loop-return" \in Shapes
        /\ (~Top.seen /\ Crossed(1) # <<>>) => "hidden-exit" \in Shapes
        /\ (form = "return-name" /\ MayWrite(1)) => "name" \in Shapes
        /\ Write(WithTop([Top EXCEPT !.exited = TRUE]),
                 IF Top.seen /\ NeedsSaving(form, Top)
                 THEN <<Plain("save")>> \o Copies \o <<Plain("return-saved")>>
                 ELSE Copies \o <<Plain(form)>>)
        /\ UNCHANGED <<counter, defers>>

BreakOrContinue ==
    \E op \in Jumps :
        /\ Writing
        /\ Loops # {}
        /\ (~Top.seen /\ Crossed(Innermost) # <<>>) => "hidden-exit" \in Shapes
        /\ Write(WithTop([Top EXCEPT !.exited = TRUE]),
                 Append(Copies, Bound(op, bodies[Innermost].at)))
        /\ UNCHANGED <<counter, defers>>

Open ==
    \E kind \in Kinds :
        /\ Writing
        /\ Write(Append(bodies,
                   [kind |-> kind, at |-> Len(out) + 1, outer |-> OuterOf(kind, Top),
                    defers |-> <<>>, exited |-> FALSE,
                    seen |-> Top.seen /\ kind \notin Hidden]),
                 <<Plain(kind)>>)
        /\ UNCHANGED <<counter, defers>>

(* Block fallthrough: the body's own defers, unless it just jumped.          *)
Fallthrough == IF Top.seen /\ ~Top.exited THEN EmitDefers(<<Top.defers>>) ELSE <<>>

Close ==
    /\ phase = "body"
    /\ Len(bodies) > 1
    /\ bodies' = Front(bodies)
    /\ out' = out \o Append(Fallthrough, Bound("close", Top.at))
    /\ UNCHANGED <<phase, counter, defers, left, run>>

Finish ==
    /\ phase = "body"
    /\ Len(bodies) = 1
    /\ phase' = "run"
    /\ out' = out \o Append(Fallthrough, Plain("end"))
    /\ UNCHANGED <<bodies, counter, defers, left, run>>

----------------------------------------------------------------------------
(* Running the desugared code *)

Current     == out[run.pc]
CloseOf(at) == CHOOSE i \in DOMAIN out : out[i].op = "close" /\ out[i].at = at

Step(ops)  == phase = "run" /\ Current.op \in ops
Becomes(r) == run' = r /\ UNCHANGED <<phase, source>>

(* The run after leaving every body from live[n] inwards for the instruction *)
(* at i: what they owe is due, innermost first and last registered first.    *)
Leave(n, i) ==
    LET owed == [j \in 1 .. (Len(run.live) - n + 1) |-> run.live[n + j - 1].owed]
    IN  [run EXCEPT !.live = SubSeq(@, 1, n - 1), !.pc = i, !.want = run.x,
                    !.due = @ \o Reverse(FlattenSeq(owed))]

RunLet ==
    /\ Step({"let"})
    /\ LET arg == IF defers[Current.defer] THEN Ref ELSE run.x
       IN  Becomes([run EXCEPT
               !.pc = @ + 1,
               !.lets[Current.name] = arg,
               !.live[Len(run.live)].owed =
                   Append(@, [defer |-> Current.defer, arg |-> arg])])

(* A call that was given &x writes x.                                        *)
RunCall ==
    /\ Step({"call"})
    /\ LET arg == run.lets[Current.name]
       IN  Becomes([run EXCEPT
               !.pc = @ + 1,
               !.ran = Append(@, [defer |-> Current.defer, arg |-> arg]),
               !.x = IF arg = Ref THEN 1 - @ ELSE @])

RunAssign ==
    /\ Step({"assign"})
    /\ Becomes([run EXCEPT !.pc = @ + 1, !.x = 1 - @, !.want = 1 - run.x])

RunValue ==
    /\ Step({"save", "tail"})
    /\ Becomes([run EXCEPT !.pc = @ + 1, !.saved = run.x])

Enter ==
    /\ Step(Kinds)
    /\ Current.op = "while" => run.rounds > 0
    /\ Becomes([run EXCEPT
           !.pc = @ + 1,
           !.live = Append(@, [at |-> run.pc, owed |-> <<>>]),
           !.rounds = IF Current.op = "while" THEN @ - 1 ELSE @])

Skip ==
    /\ Step(Kinds \ {"block", "arena"})
    /\ Becomes([run EXCEPT !.pc = CloseOf(@) + 1])

RunClose ==
    /\ Step({"close"})
    /\ Becomes(Leave(Len(run.live),
                 IF out[Current.at].op = "while" THEN Current.at ELSE run.pc + 1))

RunJump ==
    /\ Step(Jumps)
    /\ Becomes(Leave(CHOOSE i \in DOMAIN run.live : run.live[i].at = Current.at,
                 IF Current.op = "continue" THEN Current.at ELSE CloseOf(Current.at) + 1))

(* A function that falls off its end returns its tail, if that comes last.   *)
Result ==
    CASE Current.op = "return-saved" -> run.saved
      [] Current.op = "end" ->
           IF run.pc > 1 /\ out[run.pc - 1].op = "tail" THEN run.saved ELSE Void
      [] OTHER -> run.x

RunExit ==
    /\ Step(Exits \cup {"end"})
    /\ run' = [Leave(1, run.pc) EXCEPT !.result = Result, !.want = run.want]
    /\ phase' = "done"
    /\ UNCHANGED source

----------------------------------------------------------------------------

Init ==
    /\ phase = "body"
    /\ bodies = <<[kind |-> "fn", at |-> 0, outer |-> <<>>, defers |-> <<>>,
                   exited |-> FALSE, seen |-> TRUE]>>
    /\ out = <<>> /\ counter = 0 /\ defers = <<>> /\ left = MaxStmts
    /\ run = [pc |-> 1, x |-> 0, lets |-> [n \in 0 .. MaxStmts |-> Unset],
              saved |-> 0, result |-> Void, rounds |-> MaxRounds,
              live |-> <<[at |-> 0, owed |-> <<>>]>>,
              due |-> <<>>, ran |-> <<>>, want |-> 0]

Desugar == \/ Defer \/ Survivor \/ Assign \/ TailValue \/ Return \/ BreakOrContinue
           \/ Open \/ Close \/ Finish
Execute == \/ RunLet \/ RunCall \/ RunAssign \/ RunValue \/ Enter \/ Skip
           \/ RunClose \/ RunJump \/ RunExit

Next == Desugar \/ Execute

Spec == Init /\ [][Next]_vars

----------------------------------------------------------------------------
(* Properties *)

(* The variables have their types, the counter counts snapshots and a run    *)
(* is in bodies the code opened, the function's own first.                   *)
TypeOK ==
    /\ phase \in {"body", "run", "done", "rejected"}
    /\ bodies \in Seq(Body) /\ bodies # <<>>
    /\ out \in Seq(Instr)
    /\ defers \in Seq(BOOLEAN) /\ counter \in 0 .. Len(defers)
    /\ left \in 0 .. MaxStmts
    /\ run \in Machine /\ run.pc <= Len(out) + 1
    /\ phase = "run" => run.live # <<>> /\ run.live[1].at = 0

Ids(calls) == [i \in DOMAIN calls |-> calls[i].defer]

(* An exit is under way: some of its calls have run, the jump has not.       *)
MidExit == phase = "run" /\ run.pc > 1 /\ out[run.pc - 1].op = "call"

(* A deferred call runs when its body is left, on whichever of the exits,    *)
(* once for each time its defer statement was passed, the innermost body     *)
(* first and the last registered first; and it runs at no other time.        *)
(* (defer_desugar.zig, emitDefers and its callers.)                          *)
RunsOnExit ==
    /\ IsPrefix(Ids(run.due), Ids(run.ran))
    /\ ~MidExit => Len(run.ran) = Len(run.due)

(* Every call is made with the argument as it was at the defer statement,    *)
(* whatever was assigned since, also when a loop comes by again.             *)
(* (snapshotCall)                                                            *)
KeepsArguments ==
    \A i \in DOMAIN run.due \cap DOMAIN run.ran : run.ran[i] = run.due[i]

HasValue == Current.op # "end" \/ \E i \in DOMAIN out : out[i].op = "tail"

(* A function returns what its return or tail expression was worth before    *)
(* the deferred calls ran.  (processBlock on a return statement)             *)
ReturnsValue == phase = "done" /\ HasValue => run.result = run.want
=============================================================================
