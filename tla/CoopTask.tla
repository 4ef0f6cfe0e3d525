------------------------------ MODULE CoopTask ------------------------------
(***************************************************************************)
(* The cooperative lowering of a goroutine (coop_lowering.zig) and a run   *)
(* of the state machine it produces.                                       *)
(*                                                                         *)
(* A behaviour first writes the body of a goroutine, `code`, statement by  *)
(* statement, while the splitter turns it into the segments `segs`.  A     *)
(* body whose statements suspend or spawn is split at its boundaries, any  *)
(* other one stays in one segment; the writer says beforehand which it     *)
(* will be.  Then the dispatcher runs the segments: between two segments   *)
(* only the frame survives.  Beside the machine the source is run: `src`   *)
(* is its next statement and `env` the values its names have.              *)
(***************************************************************************)
EXTENDS Naturals, Sequences, SequencesExt

CONSTANTS
    Shapes,      \* what a body, or the runtime, may do beyond the ordinary
    Kinds,       \* kinds of nested bodies
    MaxStmts,    \* bound on the statements of a goroutine
    MaxRounds    \* bound on the times a run enters a loop body

(*   plain-return  a return in a nested body that is not split               *)
(*   nested-move   a handle assigned and moved in one statement that is not  *)
(*                 split                                                     *)
(*   sync-out      a receive on a closed channel completes without blocking  *)
AllShapes == {"plain-return", "nested-move", "sync-out"}

Loops    == {"while", "for"}
AllKinds == {"if", "block"} \cup Loops

ASSUME CoopAssumption ==
    /\ Shapes \subseteq AllShapes
    /\ Kinds \subseteq AllKinds
    /\ MaxStmts \in Nat
    /\ MaxRounds \in Nat

VARIABLES
    phase,     \* "body", then "run", or "refused" by a later stage
    code,      \* the source
    bodies,    \* the bodies being written, innermost last
    segs,      \* the segments; a state is the index of one
    cur,       \* the segment being filled
    fields,    \* the names that have a field in the frame
    left,      \* statements that may still be written
    run        \* the state of the run

source == <<code, bodies, segs, cur, fields, left>>
vars   == <<phase, source, run>>

----------------------------------------------------------------------------
(* Code *)

(* x holds a word and chan a handle, which an assignment or a call moves;    *)
(* both are bound first thing in the body.  closed and rc stand for the      *)
(* names a lowered receive binds, each time anew.                            *)
Locals == {"x", "chan"}
Names  == Locals \cup {"closed", "rc"}

Bit     == {0, 1}
Blocked == 2        \* SA_COOP_BLOCKED
None    == 3        \* no value: unbound, moved away or not delivered
Value   == Bit \cup {Blocked, None}

Calls == {"wait", "recv"}             \* calls that may suspend the task
Jumps == {"break", "continue"}

(* at: the opening statement that an else, a close or a jump belongs to.     *)
Stmt == [op : {"new", "use", "move", "spawn", "return", "else", "close"}
                 \cup Calls \cup Jumps \cup AllKinds,
         name : Names \cup {""}, at : Nat]

(* src: the statement it was made for; shown: it is what that statement      *)
(* does.  to, other: segments of a transfer, or the opening instruction in   *)
(* the same segment.                                                         *)
Instr == [op : {"new", "use", "move", "take", "spawn", "goto", "branch",
                "finish", "return", "close"} \cup Calls \cup Jumps \cup AllKinds,
          name : Names \cup {""}, src : Nat, shown : BOOLEAN, to : Nat, other : Nat]

Here == Len(code) + 1

S(op, name, at) == [op |-> op, name |-> name, at |-> at]
I(op, name, to) ==
    [op |-> op, name |-> name, src |-> Here, shown |-> FALSE, to |-> to, other |-> 0]

Visible(i) == [i EXCEPT !.shown = TRUE]
Later(i)   == [i EXCEPT !.src = @ + 1]

(* at: its opening statement; open: its opening instruction, if not split.   *)
(* head, next: where continue and what follows it go, if split; alt: its     *)
(* else segment while that is unopened.  binds: a receive has bound closed.  *)
Body == [kind : AllKinds \cup {"fn"}, split : BOOLEAN, at : Nat, open : Nat,
         head : Nat, alt : Nat, next : Nat, exited : BOOLEAN, binds : BOOLEAN]

Top        == Last(bodies)
WithTop(b) == Append(Front(bodies), b)

ClosesAt(s, at) == CHOOSE i \in DOMAIN s : s[i].op = "close" /\ s[i].at = at
CloseIn(s, at)  == CHOOSE i \in DOMAIN s : s[i].op = "close" /\ s[i].to = at
ElseOf(at)      == {i \in DOMAIN code : code[i].op = "else" /\ code[i].at = at}

----------------------------------------------------------------------------
(* Writing and splitting a body *)

Writing == phase = "body" /\ left > 0 /\ ~Top.exited

Write(bs, stmts, newsegs, at) ==
    /\ bodies' = bs
    /\ code' = code \o stmts
    /\ segs' = newsegs
    /\ cur' = at
    /\ left' = left - 1
    /\ UNCHANGED <<phase, fields, run>>

Open(b, newsegs, at) ==
    Write(Append(bodies, b), <<S(b.kind, "", 0)>>, newsegs, at)

(* The current segment goes on with the instructions.                        *)
Extended(instrs) == [segs EXCEPT ![cur] = @ \o instrs]

(* The statement of the current segment that the next one is a part of: the  *)
(* instructions of the outermost body that is not split.                     *)
Plain      == {i \in DOMAIN bodies : ~bodies[i].split}
Outermost  == CHOOSE i \in Plain : \A j \in Plain : i <= j
PlainPart  == IF Plain = {} THEN {}
              ELSE {segs[cur][i] : i \in bodies[Outermost].open .. Len(segs[cur])}
Mixes(op, name) == \E i \in PlainPart : i.op = op /\ i.name = name

(* Two statements in a row that make no difference are not written.          *)
Repeats(op, names) ==
    code # <<>> /\ Last(code).op = op /\ Last(code).name \in names

InScope(name) == name \in Locals \/ \E i \in DOMAIN bodies : bodies[i].binds

(* name = ...                                                                *)
New ==
    \E name \in Locals :
        /\ Writing
        /\ ~Repeats("new", {name})
        /\ Mixes("move", name) => "nested-move" \in Shapes
        /\ Write(bodies, <<S("new", name, 0)>>,
                 Extended(<<Visible(I("new", name, 0))>>), cur)

(* Anything that reads a name and moves nothing.                             *)
Use ==
    \E name \in Locals \cup {"closed"} :
        /\ Writing
        /\ InScope(name)
        /\ ~Repeats("use", Names \ {"rc"})
        /\ Write(bodies, <<S("use", name, 0)>>,
                 Extended(<<Visible(I("use", name, 0))>>), cur)

Move ==
    /\ Writing
    /\ Mixes("new", "chan") => "nested-move" \in Shapes
    /\ Write(bodies, <<S("move", "chan", 0)>>,
             Extended(<<Visible(I("move", "chan", 0))>>), cur)

(* emitSpawnSite: it cuts nothing, but bodies it is in are split.            *)
Spawn ==
    /\ Writing
    /\ Top.split
    /\ ~Repeats("spawn", {""})
    /\ Write(bodies, <<S("spawn", "", 0)>>,
             Extended(<<Visible(I("spawn", "", 0))>>), cur)

(* emitBlockingAssign, suspendHere: `let rc = call`, and the check of rc     *)
(* that the syntax lowering puts behind every call.  A receive first binds   *)
(* closed and passes its address.                                            *)
Suspend ==
    \E call \in Calls :
        LET next == Len(segs) + 1
            bind == IF call = "recv" THEN <<I("new", "closed", 0)>> ELSE <<>>
        IN  /\ Writing
            /\ Top.split
            /\ call = "recv" => \A i \in DOMAIN Front(bodies) : ~bodies[i].binds
            /\ Write(WithTop([Top EXCEPT !.binds = @ \/ call = "recv"]),
                     <<S(call, "rc", 0), S("use", "rc", 0)>>,
                     Append(Extended(bind \o <<Visible(I(call, "rc", next))>>),
                            <<Later(I("take", "rc", 0)), Later(Visible(I("use", "rc", 0)))>>),
                     next)

(* closeReturn, or a return that emitPlain leaves as it is.                  *)
Return ==
    /\ Writing
    /\ ~Top.split => "plain-return" \in Shapes
    /\ Write(WithTop([Top EXCEPT !.exited = TRUE]), <<S("return", "", 0)>>,
             Extended(<<Visible(I(IF Top.split THEN "finish" ELSE "return", "", 0))>>), cur)

LoopBodies == {i \in DOMAIN bodies : bodies[i].kind \in Loops}
Innermost  == bodies[CHOOSE i \in LoopBodies : \A j \in LoopBodies : j <= i]

(* Mutant of Target: continue goes round without looking at the condition.   *)
TargetAfterHead(op) == IF op = "break" THEN Innermost.next ELSE Innermost.head + 1

(* break_id and cont_id.                                                     *)
Target(op) == IF op = "break" THEN Innermost.next ELSE Innermost.head

(* A jump of a split loop from a body that is not split stays as it is, in a *)
(* function without a loop: the emitter refuses it.                          *)
BreakOrContinue ==
    \E op \in Jumps :
        /\ Writing
        /\ LoopBodies # {}
        /\ IF Innermost.split /\ ~Top.split
           THEN phase' = "refused" /\ UNCHANGED <<source, run>>
           ELSE Write(WithTop([Top EXCEPT !.exited = TRUE]),
                      <<S(op, "", Innermost.at)>>,
                      Extended(<<Visible(IF Top.split THEN I("goto", "", Target(op))
                                         ELSE I(op, "", Innermost.open))>>),
                      cur)

NewBody(kind) ==
    [kind |-> kind, split |-> FALSE, at |-> Here, open |-> 0, head |-> 0,
     alt |-> 0, next |-> 0, exited |-> FALSE, binds |-> FALSE]

(* A body without suspension or spawn: emitPlain copies it.                  *)
OpenPlain ==
    \E kind \in Kinds :
        /\ Writing
        /\ Open([NewBody(kind) EXCEPT !.open = Len(segs[cur]) + 1],
                Extended(<<IF kind = "block" THEN I(kind, "", 0)
                           ELSE Visible(I(kind, "", 0))>>), cur)

(* emitIf, emitWhile and the case of a block in emitStmt.                    *)
OpenSplit ==
    \E kind \in Kinds \ {"for"} :
        LET n == Len(segs)
            split == [NewBody(kind) EXCEPT !.split = TRUE]
            branch(then, else) ==
                [Visible(I("branch", "", then)) EXCEPT !.other = else]
        IN  /\ Writing
            /\ Top.split
            /\ \/ /\ kind = "block"
                  /\ Open([split EXCEPT !.next = n + 1], segs \o <<<<>>>>, cur)
               \/ /\ kind = "if"
                  /\ Open([split EXCEPT !.alt = n + 2, !.next = n + 3],
                          Extended(<<branch(n + 1, n + 2)>>) \o <<<<>>, <<>>, <<>>>>, n + 1)
               \/ /\ kind = "while"
                  /\ Open([split EXCEPT !.head = n + 1, !.next = n + 3],
                          Extended(<<I("goto", "", n + 1)>>)
                             \o <<<<branch(n + 2, n + 3)>>, <<>>, <<>>>>, n + 2)

Written  == Len(code) > Top.at
Suspends == \E i \in Top.at .. Len(code) : code[i].op \in Calls \cup {"spawn"}

(* Mutant of Fallthrough: the last arm of a branch is left open.             *)
FallthroughOpen == IF Top.exited \/ (Top.kind = "if" /\ Top.alt = 0) THEN <<>>
                   ELSE <<I("goto", "", IF Top.kind = "while" THEN Top.head ELSE Top.next)>>

(* What emitSeq ends a body with, unless it jumped.                          *)
Fallthrough ==
    IF Top.exited THEN <<>>
    ELSE <<I("goto", "", IF Top.kind = "while" THEN Top.head ELSE Top.next)>>

(* Mutant of NoElse: the segment of a missing else leads to itself.          *)
NoElseStuck == <<I("goto", "", Top.alt)>>

(* The segment of a missing else.                                            *)
NoElse == <<I("goto", "", Top.next)>>

Else ==
    /\ phase = "body"
    /\ Len(bodies) > 1
    /\ Top.kind = "if" /\ Top.alt # 0 /\ Written
    /\ bodies' = WithTop([Top EXCEPT !.alt = 0, !.exited = FALSE, !.binds = FALSE])
    /\ code' = Append(code, S("else", "", Top.at))
    /\ segs' = Extended(Fallthrough)
    /\ cur' = Top.alt
    /\ UNCHANGED <<phase, fields, left, run>>

ClosePlain ==
    /\ phase = "body"
    /\ Len(bodies) > 1
    /\ ~Top.split /\ Written
    /\ bodies' = Front(bodies)
    /\ code' = Append(code, S("close", "", Top.at))
    /\ segs' = Extended(<<I("close", "", Top.open)>>)
    /\ UNCHANGED <<phase, cur, fields, left, run>>

CloseSplit ==
    /\ phase = "body"
    /\ Len(bodies) > 1
    /\ Top.split /\ Suspends
    /\ bodies' = Front(bodies)
    /\ code' = Append(code, S("close", "", Top.at))
    /\ segs' = IF Top.alt = 0 THEN Extended(Fallthrough)
               ELSE [Extended(Fallthrough) EXCEPT ![Top.alt] = NoElse]
    /\ cur' = Top.next
    /\ UNCHANGED <<phase, fields, left, run>>

----------------------------------------------------------------------------
(* The frame: names live across a suspension (liveList, liveStmt)            *)

CloseOf(at) == ClosesAt(code, at)

(* Where control may go as liveStmt sees it: a jump or a return runs on into *)
(* the next statement, and a for is one statement whose body is not read.    *)
LiveNext(i) ==
    CASE code[i].op = "while" -> {i + 1, CloseOf(i) + 1}
      [] code[i].op = "if"    -> {i + 1} \cup {j + 1 : j \in
                                    IF ElseOf(i) = {} THEN {CloseOf(i)} ELSE ElseOf(i)}
      [] code[i].op = "for"   -> {CloseOf(i) + 1}
      [] code[i].op = "else"  -> {CloseOf(code[i].at) + 1}
      [] code[i].op = "close" /\ code[code[i].at].op = "while" -> {code[i].at}
      [] OTHER -> {i + 1}

Uses(i) == IF code[i].op \in {"use", "move"} THEN {code[i].name} ELSE {}
Defs(i) == CASE code[i].op \in {"new", "wait"} -> {code[i].name}
             [] code[i].op = "recv" -> {"rc", "closed"}
             [] OTHER -> {}

Blocking == {i \in DOMAIN code : code[i].op \in Calls}

(* The names live before each statement.                                     *)
Live ==
    LET After(live, i) == UNION {live[j] : j \in LiveNext(i) \cap DOMAIN code}
        grow[live \in [DOMAIN code -> SUBSET Names]] ==
            LET more == [i \in DOMAIN code |-> Uses(i) \cup (After(live, i) \ Defs(i))]
            IN  IF more = live THEN live ELSE grow[more]
    IN  grow[[i \in DOMAIN code |-> {}]]

(* The names live behind a call that may block, and those it binds.          *)
Worthy(live) ==
    UNION {Defs(i) \cup UNION {live[j] : j \in LiveNext(i) \cap DOMAIN code} : i \in Blocking}

(* buildFrameInfo and rewrite.  A body that never suspends, or ends in an    *)
(* assignment, adds nothing to the others.                                   *)
Finish ==
    /\ phase = "body"
    /\ Len(bodies) = 1
    /\ Blocking # {} /\ Last(code).op # "new"
    /\ phase' = "run"
    /\ segs' = Append(IF Top.exited THEN segs
                      ELSE Extended(<<I("goto", "", Len(segs) + 1)>>),
                      <<Visible(I("finish", "", 0))>>)
    /\ fields' = Worthy(Live)
    /\ UNCHANGED <<code, bodies, cur, left, run>>

----------------------------------------------------------------------------
(* The source beside the machine *)

(* The first statement that does something, from position i on.              *)
Settle(i) ==
    LET settle[j \in 1 .. Len(code) + 1] ==
            IF j > Len(code) \/ code[j].op \notin {"close", "else", "block"} THEN j
            ELSE IF code[j].op = "close" /\ code[code[j].at].op \in Loops THEN code[j].at
            ELSE settle[1 + IF code[j].op = "else" THEN CloseOf(code[j].at) ELSE j]
    IN  settle[i]

(* The next statement, where taken says how a condition turned out; a return *)
(* leads to the end.                                                         *)
SourceNext(i, taken) ==
    IF code[i].op = "return" THEN Len(code) + 1
    ELSE IF code[i].op = "continue" THEN code[i].at
    ELSE IF code[i].op = "break" THEN Settle(CloseOf(code[i].at) + 1)
    ELSE IF code[i].op \in Loops \cup {"if"} /\ ~taken
         THEN Settle(1 + IF ElseOf(i) = {} THEN CloseOf(i) ELSE CHOOSE j \in ElseOf(i) : TRUE)
    ELSE Settle(i + 1)

----------------------------------------------------------------------------
(* Running the segments *)

(* The run of a task.                                                        *)
(*   state, pc     the frame's state and the place in that segment           *)
(*   regs, frame   values in the segment's registers and in the frame        *)
(*   at            in a segment, waiting for the runtime, or given up        *)
(*   pend          the status the runtime has for the task                   *)
(*   call          the call it waits in: wait, recv or none                  *)
(*   ends          how often it has said it is finished                      *)
Machine == [state : Nat, pc : Nat \ {0}, regs : [Names -> Value],
            frame : [Names -> Value], at : {"segment", "waiting", "stopped"},
            pend : {0, None}, call : Calls \cup {""}, ends : 0 .. 2,
            rounds : 0 .. MaxRounds, src : Nat, env : [Names -> Value]]

Segment == segs[run.state]
Current == Segment[run.pc]

Step(ops)  == phase = "run" /\ run.at = "segment" /\ Current.op \in ops
Becomes(r) == run' = r /\ UNCHANGED <<phase, source>>

(* The source has done the same statement.                                   *)
Follow(r, taken) == [r EXCEPT !.src = SourceNext(Current.src, taken)]

(* The dispatcher calls the segment of the state: its prologue loads every   *)
(* field, and the first segment binds the locals.                            *)
Dispatch(r, id) ==
    [r EXCEPT !.state = id, !.pc = 1, !.at = "segment",
              !.regs = [n \in Names |-> IF n \in fields THEN r.frame[n]
                                        ELSE IF id = 1 /\ n \in Locals THEN 0 ELSE None]]

(* The start of the outermost statement that instruction k is in.            *)
Opener(k) ==
    LET around == {i \in 1 .. k - 1 : Segment[i].op \in AllKinds /\ CloseIn(Segment, i) > k}
    IN  IF around = {} THEN k ELSE CHOOSE i \in around : \A j \in around : i <= j

(* Mutant of Touched: assignments in nested bodies are not seen.             *)
TouchedShallow(k) ==
    {Segment[i].name : i \in {j \in 1 .. k : /\ Segment[j].op \in {"new", "take"} \cup Calls
                                            /\ Opener(j) = j}}

(* scanTouch: the names the segment has assigned before instruction k + 1.   *)
Touched(k) ==
    {Segment[i].name : i \in {j \in 1 .. k : Segment[j].op \in {"new", "take"} \cup Calls}}

(* writeBacks                                                                *)
WriteBack(r, names) ==
    [r EXCEPT !.frame = [n \in Names |-> IF n \in names \cap fields THEN r.regs[n] ELSE @[n]]]

(* The handles that are moved in the statement that starts at instruction i: *)
(* emitPlain writes them back before it, and moves them out of the frame.    *)
Sites(i) ==
    LET last == IF Segment[i].op \in AllKinds THEN CloseIn(Segment, i) ELSE i
    IN  {Segment[j].name : j \in {k \in i .. last : Segment[k].op = "move"}}

(* What emitPlain stores in front of a statement.                            *)
Flushed(r) ==
    IF Opener(r.pc) = r.pc
    THEN WriteBack(r, Touched(r.pc - 1) \cap Sites(r.pc))
    ELSE r

(* What reading the name at the current instruction gives.                   *)
Read(name) ==
    IF Current.op = "move" /\ name \in fields THEN Flushed(run).frame[name]
    ELSE run.regs[name]

(* A program that reads a name it has moved away is refused by the checker,  *)
(* one that reads a register nobody wrote by the verifier of the result.     *)
Reads ==
    /\ Step({"use", "move"})
    /\ IF None \in {Read(Current.name), run.env[Current.name]}
       THEN phase' = "refused" /\ UNCHANGED <<source, run>>
       ELSE Becomes(Follow([Flushed(run) EXCEPT
                !.pc = @ + 1,
                !.env[Current.name] = IF Current.op = "move" THEN None ELSE @], TRUE))

(* A value the name does not have yet.                                       *)
Other(name) == IF run.env[name] = 0 THEN 1 ELSE 0

RunNew ==
    /\ Step({"new"})
    /\ LET value == IF Current.shown THEN Other(Current.name) ELSE 0
           there == [run EXCEPT !.pc = @ + 1, !.regs[Current.name] = value]
       IN  Becomes(IF Current.shown THEN Follow([there EXCEPT !.env[Current.name] = value], TRUE)
                   ELSE there)

RunSpawn ==
    /\ Step({"spawn"})
    /\ Becomes(Follow([run EXCEPT !.pc = @ + 1], TRUE))

(* takePrologue                                                              *)
RunTake ==
    /\ Step({"take"})
    /\ Becomes([run EXCEPT !.pc = @ + 1, !.pend = None,
                           !.regs["rc"] = IF run.pend = None THEN @ ELSE run.pend])

(* What a completed call delivers: a status of 0, since any other panics,    *)
(* and for a receive whether the channel was closed.                         *)
Deliver(r, call, bit) ==
    [r EXCEPT !.env["rc"] = 0,
              !.env["closed"] = IF call = "recv" THEN bit ELSE @,
              !.frame["closed"] = IF call = "recv" THEN bit ELSE @]

(* Mutant of Verdict: stop after every call.                                 *)
VerdictStop(rc) == 1

(* closeSuspend: 1 stops the step, 0 lets it go on.                          *)
Verdict(rc) == IF rc = Blocked THEN 1 ELSE 0

(* The call, what closeSuspend puts behind it, and the verdict.              *)
After(r, rc, to) ==
    LET back == WriteBack([r EXCEPT !.regs["rc"] = rc], Touched(r.pc))
    IN  IF Verdict(rc) = 1 THEN [back EXCEPT !.state = to, !.pc = 1, !.at = "waiting"]
        ELSE Dispatch(back, to)

Completes ==
    \E bit \in Bit :
        /\ Step(Calls)
        /\ Current.op = "wait" => bit = 0
        /\ bit = 1 => "sync-out" \in Shapes
        /\ Becomes(Follow(After(Deliver(run, Current.op, bit), 0, Current.to), TRUE))

Blocks ==
    /\ Step(Calls)
    /\ Becomes(Follow([After(run, Blocked, Current.to) EXCEPT !.call = Current.op], TRUE))

(* The runtime delivers and calls the step function again.                   *)
Wake ==
    \E bit \in Bit :
        /\ phase = "run"
        /\ run.at = "waiting"
        /\ run.call # ""
        /\ run.call = "wait" => bit = 0
        /\ Becomes(Dispatch([Deliver(run, run.call, bit) EXCEPT
                                !.pend = 0, !.call = ""], run.state))

(* closeToState; one that is shown is a jump of the source.                  *)
Goto ==
    /\ Step({"goto"})
    /\ LET there == Dispatch(WriteBack(run, Touched(run.pc)), Current.to)
       IN  Becomes(IF Current.shown THEN Follow(there, TRUE) ELSE there)

Entering(taken) == taken /\ code[Current.src].op \in Loops

(* closeCondTransfer                                                         *)
Branch ==
    \E taken \in BOOLEAN :
        /\ Step({"branch"})
        /\ Entering(taken) => run.rounds > 0
        /\ Becomes(Follow([Dispatch(WriteBack(run, Touched(run.pc)),
                                    IF taken THEN Current.to ELSE Current.other)
                             EXCEPT !.rounds = IF Entering(taken) THEN @ - 1 ELSE @], taken))

(* A nested body inside a segment.                                           *)
PlainOpen ==
    \E taken \in BOOLEAN :
        /\ Step(AllKinds)
        /\ Current.op = "block" => taken
        /\ Current.op # "block" /\ Entering(taken) => run.rounds > 0
        /\ LET there == [Flushed(run) EXCEPT
                            !.pc = IF taken THEN @ + 1 ELSE CloseIn(Segment, @) + 1]
           IN  Becomes(IF Current.op = "block" THEN there
                       ELSE Follow([there EXCEPT
                               !.rounds = IF Entering(taken) THEN @ - 1 ELSE @], taken))

PlainClose ==
    /\ Step({"close"})
    /\ Becomes([run EXCEPT !.pc = IF Segment[Current.to].op \in Loops
                                  THEN Current.to ELSE @ + 1])

PlainJump ==
    /\ Step(Jumps)
    /\ Becomes(Follow([run EXCEPT !.pc = IF Current.op = "continue" THEN Current.to
                                         ELSE CloseIn(Segment, Current.to) + 1], TRUE))

(* The end of a segment function without a next state: closeReturn tells the *)
(* runtime and stops.  The value of a return that was left as it is is taken *)
(* for the verdict: 1 stops, any other one runs the segment again.           *)
RunReturn ==
    \E verdict \in Bit :
        /\ Step({"finish", "return"})
        /\ Current.op = "finish" => verdict = 1
        /\ LET ended == [run EXCEPT !.ends = IF Current.op = "finish" THEN @ + 1 ELSE @,
                                    !.src = Len(code) + 1]
           IN  Becomes(IF verdict = 1 THEN [ended EXCEPT !.at = "stopped"]
                       ELSE Dispatch(ended, run.state))

----------------------------------------------------------------------------

Init ==
    /\ phase = "body"
    /\ code = <<>>
    /\ bodies = <<[kind |-> "fn", split |-> TRUE, at |-> 0, open |-> 0, head |-> 0,
                   alt |-> 0, next |-> 0, exited |-> FALSE, binds |-> FALSE]>>
    /\ segs = <<<<>>>>
    /\ cur = 1 /\ fields = {} /\ left = MaxStmts
    /\ run = [state |-> 1, pc |-> 1, regs |-> [n \in Names |-> None],
              frame |-> [n \in Names |-> 0], at |-> "waiting", pend |-> None,
              call |-> "", ends |-> 0, rounds |-> MaxRounds, src |-> 0,
              env |-> [n \in Names |-> 0]]

(* sa_coop_run_main, or the runtime for a spawned task: the first step.      *)
Start ==
    /\ phase = "run"
    /\ run.src = 0
    /\ Becomes([Dispatch(run, 1) EXCEPT !.src = Settle(1)])

Split == \/ New \/ Use \/ Move \/ Spawn \/ Suspend \/ Return \/ BreakOrContinue
         \/ OpenPlain \/ OpenSplit \/ Else \/ ClosePlain \/ CloseSplit \/ Finish
Execute == \/ Start \/ Reads \/ RunNew \/ RunSpawn \/ RunTake \/ Completes \/ Blocks
           \/ Wake \/ Goto \/ Branch \/ PlainOpen \/ PlainClose \/ PlainJump
           \/ RunReturn

Next == Split \/ Execute

Spec == Init /\ [][Next]_vars /\ WF_vars(Execute)

----------------------------------------------------------------------------
(* Properties *)

TypeOK ==
    /\ phase \in {"body", "run", "refused"}
    /\ code \in Seq(Stmt)
    /\ bodies \in Seq(Body) /\ bodies # <<>>
    /\ segs \in Seq(Seq(Instr))
    /\ cur \in DOMAIN segs
    /\ fields \subseteq Names
    /\ left \in 0 .. MaxStmts
    /\ run \in Machine
    /\ phase = "run" /\ run.at = "segment" => run.pc \in DOMAIN Segment

InSegment == phase = "run" /\ run.at = "segment"

(* The statements the segments carry out are those of the source, in the     *)
(* order of the source: none is skipped, repeated or done twice, whatever    *)
(* the calls, branches and jumps in between.                                 *)
(* (emitSeq, emitIf, emitWhile and the dispatcher of rewrite.)               *)
SourceOrder == InSegment /\ Current.shown => Current.src = run.src

(* A name that is read has the value the source gave it, through any number  *)
(* of suspensions, transfers and deliveries, or the program was refused.     *)
(* (writeBacks, the prologue of rewrite, takePrologue, emitPlain.)           *)
RightValues ==
    InSegment /\ Current.op \in {"use", "move"} =>
        \/ Read(Current.name) \in {None, run.env[Current.name]}
        \/ run.env[Current.name] = None

(* A step function returns to the scheduler because the task waits in a call *)
(* that the runtime will answer or has finished, once and for good.          *)
(* (A segment function returns 1 to stop, "suspended or done".)              *)
StopsForReason ==
    phase = "run" /\ run.src # 0 =>
        /\ run.at = "waiting" => run.call # ""
        /\ run.ends = IF run.at = "stopped" THEN 1 ELSE 0

(* A task whose loops end finishes: those who join it are woken.             *)
Finishes == phase = "run" ~> run.ends = 1 \/ phase = "refused"
=============================================================================
