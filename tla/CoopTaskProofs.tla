--------------------------- MODULE CoopTaskProofs ---------------------------
(* Proofs about CoopTask, for bodies of any length and any nesting.  The     *)
(* splitter leaves every segment it is done with Whole: control cannot fall  *)
(* off its end, every jump and close in it has its opening instruction, and  *)
(* every transfer leads to a segment there is.  A run therefore stays in the *)
(* code, and what a step function returns for can be read off its last       *)
(* instruction.                                                              *)
(*                                                                           *)
(* The second part proves that a run carries out the source in order. Every  *)
(* segment has a label, which says where in the source it begins: at a       *)
(* statement, behind a body, or with an else. Tells says that a segment is   *)
(* right for its label: its first instruction is for the statement there,    *)
(* each next one for the statement that follows (Width), and each transfer   *)
(* leads to a segment whose label is where the source goes. No label is part *)
(* of the program; while the splitter works, some labelling exists for which *)
(* all segments are right (Knows), the bodies still open are owed the labels *)
(* their opening promised (Owes), and every action of the splitter keeps     *)
(* this while the code grows. When it is done, a run is OnTrack: its source  *)
(* is at the statement its instruction is for.                               *)
EXTENDS CoopTask, Integers, SequenceTheorems, FiniteSetTheorems, WellFoundedInduction, TLAPS

-----------------------------------------------------------------------------
(* What the splitter keeps. *)

Transfers == {"goto", "branch"} \cup Calls
Terminal  == Transfers \cup {"finish", "return"}

(* Instruction c may stand behind the instructions s, among n segments.      *)
Fits(c, s, n) ==
    /\ c.op \in Transfers => c.to \in 1 .. n
    /\ c.op = "branch" => c.other \in 1 .. n
    /\ c.op \in {"close"} \cup Jumps => c.to \in DOMAIN s /\ s[c.to].op \in AllKinds
    /\ "plain-return" \notin Shapes => c.op # "return"

Good(s, n) == \A j \in DOMAIN s : Fits(s[j], s, n)

Closed(s, j) == \E k \in DOMAIN s : s[k].op = "close" /\ s[k].to = j
Ended(s)     == s # <<>> /\ s[Len(s)].op \in Terminal
Whole(s)     == Ended(s) /\ \A j \in DOMAIN s : s[j].op \in AllKinds => Closed(s, j)

(* The segments a split body still has to fill.                              *)
Pending(b) == {n \in {b.next, b.alt} : n # 0}

Lists(bs, sg, c) ==
    bs \in Seq(Body) /\ bs # <<>> /\ sg \in Seq(Seq(Instr)) /\ c \in DOMAIN sg

AllGood(sg) == \A s \in DOMAIN sg : Good(sg[s], Len(sg))

(* The outermost body is the function's, split bodies come before the others *)
(* and only the innermost one may have jumped.                               *)
Nested(bs) ==
    /\ bs[1].split /\ bs[1].kind = "fn" /\ Pending(bs[1]) = {}
    /\ \A i \in DOMAIN bs : i > 1 => bs[i].kind \in AllKinds
    /\ \A i \in DOMAIN bs : i < Len(bs) => ~bs[i].exited
    /\ \A i, j \in DOMAIN bs : i < j /\ bs[j].split => bs[i].split

(* The places a body leads to: those of a split body are there, and those    *)
(* still to be filled are empty and not the current one.                     *)
SplitPlaces(b, sg, c) ==
    /\ b.next \in Pending(b) /\ b.next # b.alt
    /\ b.kind # "for"
    /\ b.kind = "while" => b.head \in DOMAIN sg
    /\ \A n \in Pending(b) : n \in DOMAIN sg /\ n # c /\ sg[n] = <<>>

PlainPlaces(b, sg, c) ==
    b.open \in DOMAIN sg[c] /\ sg[c][b.open].op = b.kind /\ b.alt = 0

Places(bs, sg, c) ==
    \A i \in DOMAIN bs :
        /\ i > 1 /\ bs[i].split => SplitPlaces(bs[i], sg, c)
        /\ ~bs[i].split => PlainPlaces(bs[i], sg, c)

Apart(bs) ==
    \A i, j \in DOMAIN bs :
        i # j /\ bs[i].split /\ bs[j].split => Pending(bs[i]) \cap Pending(bs[j]) = {}

(* A segment is being filled, still to be filled or whole; what the current  *)
(* one has open is a body being written.                                     *)
OthersWhole(bs, sg, c) ==
    \A s \in DOMAIN sg :
        s = c \/ Whole(sg[s]) \/ \E i \in DOMAIN bs : bs[i].split /\ s \in Pending(bs[i])

CurrentOpen(bs, sg, c) ==
    \A j \in DOMAIN sg[c] :
        sg[c][j].op \in AllKinds =>
            Closed(sg[c], j) \/ \E i \in DOMAIN bs : ~bs[i].split /\ bs[i].open = j

ExitEnds(bs, sg, c) == bs[Len(bs)].exited /\ bs[Len(bs)].split => Ended(sg[c])

(* Every stack of bodies with a loop in it has an innermost one.             *)
HasInnermost(bs) ==
    \A n \in DOMAIN bs :
        \/ \A i \in 1 .. n : bs[i].kind \notin Loops
        \/ \E m \in 1 .. n : /\ bs[m].kind \in Loops
                             /\ \A i \in 1 .. n : bs[i].kind \in Loops => i <= m

Shape(bs, sg, c) ==
    /\ Lists(bs, sg, c) /\ AllGood(sg) /\ Nested(bs)
    /\ Places(bs, sg, c) /\ Apart(bs) /\ OthersWhole(bs, sg, c)
    /\ CurrentOpen(bs, sg, c) /\ ExitEnds(bs, sg, c) /\ HasInnermost(bs)

(* The finished code.                                                        *)
Sealed(sg) ==
    /\ sg \in Seq(Seq(Instr)) /\ sg # <<>>
    /\ AllGood(sg)
    /\ \A s \in DOMAIN sg : Whole(sg[s])

-----------------------------------------------------------------------------
(* What a run keeps. *)

(* A record with the fields of a run, whatever they hold.                    *)
IsRun(r) ==
    r \in [state : {r.state}, pc : {r.pc}, regs : {r.regs}, frame : {r.frame},
           at : {r.at}, pend : {r.pend}, call : {r.call}, ends : {r.ends},
           rounds : {r.rounds}, src : {r.src}, env : {r.env}]

Unstarted(r) == r.at = "waiting" /\ r.call = "" /\ r.src = 0

InCode(r, sg) ==
    /\ r.at \in {"segment", "waiting", "stopped"}
    /\ r.at = "segment" => r.state \in DOMAIN sg /\ r.pc \in DOMAIN sg[r.state]
    /\ r.at = "waiting" => Unstarted(r) \/ (r.call # "" /\ r.state \in DOMAIN sg)
    /\ r.at = "stopped" => r.src # 0

EndsOnce(r) == r.ends = IF r.at = "stopped" THEN 1 ELSE 0

IInv ==
    /\ IsRun(run)
    /\ phase \in {"body", "run", "refused"}
    /\ code \in Seq(Stmt)
    /\ phase = "body" => Shape(bodies, segs, cur) /\ Unstarted(run) /\ run.ends = 0
    /\ phase = "run" => Sealed(segs) /\ InCode(run, segs)
    /\ phase = "run" /\ "plain-return" \notin Shapes => EndsOnce(run)

-----------------------------------------------------------------------------
(* Lemmas about runs. *)

(* q differs from r in its values and its place in the source only.          *)
Alike(q, r) ==
    /\ IsRun(q)
    /\ q.state = r.state /\ q.pc = r.pc /\ q.at = r.at
    /\ q.call = r.call /\ q.ends = r.ends

LEMMA FollowAlike ==
    ASSUME NEW r, IsRun(r), NEW taken PROVE Alike(Follow(r, taken), r)
  BY DEF Follow, Alike, IsRun

LEMMA WriteBackAlike ==
    ASSUME NEW r, IsRun(r), NEW names PROVE Alike(WriteBack(r, names), r)
  BY DEF WriteBack, Alike, IsRun

LEMMA FlushedAlike ==
    ASSUME NEW r, IsRun(r) PROVE Alike(Flushed(r), r)
  BY WriteBackAlike DEF Flushed, Alike, IsRun

LEMMA DeliverAlike ==
    ASSUME NEW r, IsRun(r), NEW call, NEW bit PROVE Alike(Deliver(r, call, bit), r)
<1> DEFINE q == [r EXCEPT !.env["rc"] = 0]
<1>1. Alike(q, r)
  BY DEF Alike, IsRun
<1> QED BY <1>1 DEF Deliver, Alike, IsRun

(* A dispatch starts a segment.                                              *)
LEMMA DispatchStarts ==
    ASSUME NEW r, IsRun(r), NEW id
    PROVE  LET d == Dispatch(r, id) IN
           /\ IsRun(d) /\ d.state = id /\ d.pc = 1 /\ d.at = "segment"
           /\ d.call = r.call /\ d.ends = r.ends
  BY DEF Dispatch, IsRun

(* A call that blocked stops the segment, any other call starts the next.    *)
LEMMA AfterCall ==
    ASSUME NEW r, IsRun(r), NEW rc, NEW to
    PROVE  LET a == After(r, rc, to) IN
           /\ IsRun(a) /\ a.state = to /\ a.pc = 1 /\ a.call = r.call /\ a.ends = r.ends
           /\ a.at = IF rc = Blocked THEN "waiting" ELSE "segment"
<1> DEFINE there == [r EXCEPT !.regs["rc"] = rc]
           back  == WriteBack(there, Touched(r.pc))
<1>1. Alike(there, r)
  BY DEF Alike, IsRun
<1>2. Alike(back, r)
  BY <1>1, WriteBackAlike DEF Alike
<1>3. CASE rc = Blocked
  <2>1. After(r, rc, to) = [back EXCEPT !.state = to, !.pc = 1, !.at = "waiting"]
    BY <1>3 DEF After, Verdict
  <2> HIDE DEF back
  <2> QED BY <1>2, <1>3, <2>1 DEF Alike, IsRun
<1>4. CASE rc # Blocked
  <2>1. After(r, rc, to) = Dispatch(back, to)
    BY <1>4 DEF After, Verdict
  <2> HIDE DEF back
  <2> QED BY <1>2, <1>4, <2>1, DispatchStarts DEF Alike
<1> QED BY <1>3, <1>4

-----------------------------------------------------------------------------
(* A run stays in sealed code. *)

(* An instruction that ends no segment has another one behind it.            *)
LEMMA GoesOn ==
    ASSUME NEW s \in Seq(Instr), Ended(s), NEW j \in DOMAIN s, s[j].op \notin Terminal
    PROVE  j + 1 \in DOMAIN s
  BY DEF Ended

(* The close of an opening instruction is found.                             *)
LEMMA CloseFound ==
    ASSUME NEW s, Whole(s), NEW j \in DOMAIN s, s[j].op \in AllKinds
    PROVE  CloseIn(s, j) \in DOMAIN s /\ s[CloseIn(s, j)].op = "close"
  BY DEF Whole, Closed, CloseIn

(* A transfer leads to a segment with a first instruction.                   *)
LEMMA TransferLands ==
    ASSUME NEW sg, Sealed(sg), NEW n \in 1 .. Len(sg)
    PROVE  n \in DOMAIN sg /\ 1 \in DOMAIN sg[n]
<1>1. sg \in Seq(Seq(Instr)) /\ n \in DOMAIN sg
  BY DEF Sealed
<1>2. sg[n] \in Seq(Instr) /\ sg[n] # <<>>
  BY <1>1 DEF Sealed, Whole, Ended
<1> QED BY <1>1, <1>2

(* Where a run in a segment is.                                              *)
LEMMA AtInstruction ==
    ASSUME Sealed(segs), InCode(run, segs), run.at = "segment"
    PROVE  /\ run.state \in DOMAIN segs /\ run.pc \in DOMAIN Segment
           /\ Segment \in Seq(Instr) /\ Whole(Segment)
           /\ Fits(Current, Segment, Len(segs))
<1>1. segs \in Seq(Seq(Instr)) /\ run.state \in DOMAIN segs /\ run.pc \in DOMAIN Segment
  BY DEF Sealed, InCode, Segment
<1>2. Segment \in Seq(Instr) /\ Whole(Segment) /\ Good(Segment, Len(segs))
  BY <1>1 DEF Sealed, AllGood, Segment
<1> QED BY <1>1, <1>2 DEF Good, Current

(* Landing at the start of a segment.                                        *)
LEMMA Landed ==
    ASSUME NEW q, NEW n \in 1 .. Len(segs), Sealed(segs),
           q.state = n, q.pc = 1, q.at = "segment"
    PROVE  InCode(q, segs)
  BY TransferLands DEF InCode

(* Staying in the segment.                                                   *)
LEMMA Stayed ==
    ASSUME NEW q, InCode(run, segs), run.at = "segment",
           q.state = run.state, q.at = "segment", q.pc \in DOMAIN Segment
    PROVE  InCode(q, segs)
  BY DEF InCode, Segment

Kept(q) == IsRun(q) /\ InCode(q, segs) /\ ("plain-return" \notin Shapes => EndsOnce(q))

(* Kept depends on these parts of a run.                                     *)
LEMMA AlikeKept ==
    ASSUME NEW q, NEW r, Alike(q, r), Kept(r), r.at = "segment"
    PROVE  Kept(q)
  BY DEF Alike, Kept, InCode, EndsOnce

(* A step of a run that keeps what it should.                                *)
RunsOn == \E q : Becomes(q) /\ Kept(q)

(* A statement or a part of one, then the next instruction.                  *)
LEMMA Advances ==
    ASSUME Sealed(segs), Kept(run), run.at = "segment",
           Current.op \notin Terminal,
           NEW q, IsRun(q), q.state = run.state, q.pc = run.pc + 1,
           q.at = run.at, q.ends = run.ends
    PROVE  Kept(q)
<1>1. run.pc + 1 \in DOMAIN Segment
  BY AtInstruction, GoesOn DEF Kept, Whole, Current
<1>2. InCode(q, segs)
  BY <1>1, Stayed DEF Kept
<1> QED BY <1>2 DEF Kept, EndsOnce

(* To the start of a segment.                                                *)
LEMMA Lands ==
    ASSUME Sealed(segs), Kept(run), run.at # "stopped",
           NEW q, IsRun(q), q.state \in 1 .. Len(segs), q.pc = 1, q.at = "segment",
           q.ends = run.ends
    PROVE  Kept(q)
<1>1. InCode(q, segs)
  BY Landed
<1> QED BY <1>1 DEF Kept, EndsOnce

LEMMA StartKeeps ==
    ASSUME Sealed(segs), Kept(run), Start PROVE RunsOn
<1> DEFINE d == Dispatch(run, 1)
           q == [d EXCEPT !.src = Settle(1)]
<1>0. run.at # "stopped"
  BY DEF Start, Kept, InCode
<1>1. IsRun(q) /\ q.state = 1 /\ q.pc = 1 /\ q.at = "segment" /\ q.ends = run.ends
  <2>1. IsRun(d) /\ d.state = 1 /\ d.pc = 1 /\ d.at = "segment" /\ d.ends = run.ends
    BY DispatchStarts DEF Kept
  <2> HIDE DEF d
  <2> QED BY <2>1 DEF IsRun
<1>2. 1 \in 1 .. Len(segs)
  BY DEF Sealed
<1>3. Kept(q)
  BY <1>0, <1>1, <1>2, Lands
<1> QED BY <1>3 DEF Start, RunsOn

LEMMA ReadsKeeps ==
    ASSUME Sealed(segs), Kept(run), Reads, phase' = "run" PROVE RunsOn
<1> DEFINE name == Current.name
           there == [Flushed(run) EXCEPT
                !.pc = @ + 1,
                !.env[name] = IF Current.op = "move" THEN None ELSE @]
           q == Follow(there, TRUE)
<1>1. run.at = "segment" /\ Current.op \notin Terminal
  BY DEF Reads, Step, Terminal, Transfers, Calls
<1>2. IsRun(there) /\ there.state = run.state /\ there.pc = run.pc + 1
        /\ there.at = run.at /\ there.ends = run.ends
  <2> DEFINE f == Flushed(run)
             kept == IF Current.op = "move" THEN None ELSE f.env[name]
             g == [f EXCEPT !.pc = @ + 1, !.env[name] = kept]
  <2>1. Alike(f, run)
    BY FlushedAlike DEF Kept
  <2>2. there = g
    OBVIOUS
  <2> HIDE DEF f, kept, name, there
  <2>3. IsRun(g) /\ g.state = f.state /\ g.pc = f.pc + 1 /\ g.at = f.at /\ g.ends = f.ends
    BY <2>1 DEF Alike, IsRun
  <2> QED BY <2>1, <2>2, <2>3 DEF Alike
<1>3. Alike(q, there)
  BY <1>2, FollowAlike
<1>4. Kept(q)
  <2> HIDE DEF q, there
  <2> QED BY <1>1, <1>2, <1>3, Advances DEF Alike
<1>5. Becomes(q)
  BY DEF Reads, Step
<1> QED BY <1>4, <1>5 DEF RunsOn

LEMMA RunNewKeeps ==
    ASSUME Sealed(segs), Kept(run), RunNew PROVE RunsOn
<1> DEFINE value == IF Current.shown THEN Other(Current.name) ELSE 0
           there == [run EXCEPT !.pc = @ + 1, !.regs[Current.name] = value]
           told  == [there EXCEPT !.env[Current.name] = value]
<1>1. run.at = "segment" /\ Current.op \notin Terminal
  BY DEF RunNew, Step, Terminal, Transfers, Calls
<1>2. IsRun(there) /\ there.state = run.state /\ there.pc = run.pc + 1
        /\ there.at = run.at /\ there.ends = run.ends
  BY DEF Kept, IsRun
<1>3. Kept(there)
  <2> HIDE DEF there
  <2> QED BY <1>1, <1>2, Advances
<1>4. Alike(told, there)
  <2> HIDE DEF there, value
  <2> QED BY <1>2 DEF Alike, IsRun
<1>5. Alike(Follow(told, TRUE), told)
  BY <1>4, FollowAlike DEF Alike
<1>6. Kept(Follow(told, TRUE))
  <2> HIDE DEF there, told
  <2> QED BY <1>1, <1>2, <1>3, <1>4, <1>5, AlikeKept DEF Alike
<1>7. Becomes(there) \/ Becomes(Follow(told, TRUE))
  BY DEF RunNew
<1> QED BY <1>3, <1>6, <1>7 DEF RunsOn

LEMMA RunSpawnKeeps ==
    ASSUME Sealed(segs), Kept(run), RunSpawn PROVE RunsOn
<1> DEFINE there == [run EXCEPT !.pc = @ + 1]
           q == Follow(there, TRUE)
<1>1. run.at = "segment" /\ Current.op \notin Terminal
  BY DEF RunSpawn, Step, Terminal, Transfers, Calls
<1>2. IsRun(there) /\ there.state = run.state /\ there.pc = run.pc + 1
        /\ there.at = run.at /\ there.ends = run.ends
  BY DEF Kept, IsRun
<1>3. Alike(q, there)
  BY <1>2, FollowAlike
<1>4. Kept(q)
  <2> HIDE DEF q, there
  <2> QED BY <1>1, <1>2, <1>3, Advances DEF Alike
<1> QED BY <1>4 DEF RunSpawn, RunsOn

LEMMA RunTakeKeeps ==
    ASSUME Sealed(segs), Kept(run), RunTake PROVE RunsOn
<1> DEFINE q == [run EXCEPT !.pc = @ + 1, !.pend = None,
                            !.regs["rc"] = IF run.pend = None THEN @ ELSE run.pend]
<1>1. run.at = "segment" /\ Current.op \notin Terminal
  BY DEF RunTake, Step, Terminal, Transfers, Calls
<1>2. IsRun(q) /\ q.state = run.state /\ q.pc = run.pc + 1
        /\ q.at = run.at /\ q.ends = run.ends
  BY DEF Kept, IsRun
<1>3. Kept(q)
  <2> HIDE DEF q
  <2> QED BY <1>1, <1>2, Advances
<1> QED BY <1>3 DEF RunTake, RunsOn

(* Where a transfer leads. *)
LEMMA TransferFits ==
    ASSUME Sealed(segs), Kept(run), run.at = "segment", Current.op \in Transfers
    PROVE  Current.to \in 1 .. Len(segs)
  BY AtInstruction DEF Kept, Fits

LEMMA CompletesKeeps ==
    ASSUME Sealed(segs), Kept(run), Completes PROVE RunsOn
<1>1. PICK bit \in Bit :
        /\ Step(Calls)
        /\ Becomes(Follow(After(Deliver(run, Current.op, bit), 0, Current.to), TRUE))
  BY DEF Completes
<1> DEFINE given == Deliver(run, Current.op, bit)
           there == After(given, 0, Current.to)
           q == Follow(there, TRUE)
<1>2. run.at = "segment" /\ Current.op \in Transfers
  BY <1>1 DEF Step, Transfers
<1>3. Alike(given, run)
  BY DeliverAlike DEF Kept
<1>4. IsRun(there) /\ there.state = Current.to /\ there.pc = 1
        /\ there.at = "segment" /\ there.ends = run.ends
  <2> HIDE DEF given
  <2> QED BY <1>3, AfterCall DEF Alike, Blocked
<1>5. Alike(q, there)
  <2> HIDE DEF there
  <2> QED BY <1>4, FollowAlike
<1>6. Kept(q)
  <2> HIDE DEF q, there
  <2> QED BY <1>2, <1>4, <1>5, TransferFits, Lands DEF Alike
<1> QED BY <1>1, <1>6 DEF RunsOn

LEMMA BlocksKeeps ==
    ASSUME Sealed(segs), Kept(run), Blocks PROVE RunsOn
<1> DEFINE there == After(run, Blocked, Current.to)
           called == [there EXCEPT !.call = Current.op]
           q == Follow(called, TRUE)
<1>1. run.at = "segment" /\ Current.op \in Calls
  BY DEF Blocks, Step
<1>2. IsRun(there) /\ there.state = Current.to /\ there.pc = 1
        /\ there.at = "waiting" /\ there.ends = run.ends
  BY AfterCall DEF Kept
<1>3. IsRun(called) /\ called.state = Current.to /\ called.at = "waiting"
        /\ called.call = Current.op /\ called.ends = run.ends
  <2> HIDE DEF there
  <2> QED BY <1>2 DEF IsRun
<1>4. Alike(q, called)
  <2> HIDE DEF called
  <2> QED BY <1>3, FollowAlike
<1>5. Current.to \in DOMAIN segs
  BY <1>1, TransferFits, TransferLands DEF Transfers
<1>6. Kept(q)
  <2> HIDE DEF q, called
  <2>1. q.call # "" /\ q.at = "waiting" /\ q.state \in DOMAIN segs
    BY <1>1, <1>3, <1>4, <1>5 DEF Alike, Calls
  <2> QED BY <2>1, <1>1, <1>3, <1>4 DEF Alike, Kept, InCode, EndsOnce
<1>7. Becomes(q)
  BY DEF Blocks
<1> QED BY <1>6, <1>7 DEF RunsOn

LEMMA WakeKeeps ==
    ASSUME Sealed(segs), Kept(run), Wake PROVE RunsOn
<1>1. PICK bit \in Bit :
        /\ run.at = "waiting" /\ run.call # ""
        /\ Becomes(Dispatch([Deliver(run, run.call, bit) EXCEPT
                                !.pend = 0, !.call = ""], run.state))
  BY DEF Wake
<1> DEFINE given == Deliver(run, run.call, bit)
           there == [given EXCEPT !.pend = 0, !.call = ""]
           q == Dispatch(there, run.state)
<1>2. Alike(given, run)
  BY DeliverAlike DEF Kept
<1>3. IsRun(there) /\ there.ends = run.ends
  <2> HIDE DEF given
  <2> QED BY <1>2 DEF Alike, IsRun
<1>4. IsRun(q) /\ q.state = run.state /\ q.pc = 1 /\ q.at = "segment" /\ q.ends = run.ends
  <2> HIDE DEF there
  <2> QED BY <1>3, DispatchStarts
<1>5. run.state \in 1 .. Len(segs)
  <2>1. segs \in Seq(Seq(Instr)) /\ run.state \in DOMAIN segs
    BY <1>1 DEF Kept, InCode, Unstarted, Sealed
  <2> QED BY <2>1
<1>6. Kept(q)
  <2> HIDE DEF q
  <2> QED BY <1>1, <1>4, <1>5, Lands
<1> QED BY <1>1, <1>6 DEF RunsOn

LEMMA GotoKeeps ==
    ASSUME Sealed(segs), Kept(run), Goto PROVE RunsOn
<1> DEFINE back  == WriteBack(run, Touched(run.pc))
           there == Dispatch(back, Current.to)
<1>1. run.at = "segment" /\ Current.op \in Transfers
  BY DEF Goto, Step, Transfers
<1>2. Alike(back, run)
  BY WriteBackAlike DEF Kept
<1>3. IsRun(there) /\ there.state = Current.to /\ there.pc = 1
        /\ there.at = "segment" /\ there.ends = run.ends
  <2> HIDE DEF back
  <2> QED BY <1>2, DispatchStarts DEF Alike
<1>4. Kept(there)
  <2> HIDE DEF there
  <2> QED BY <1>1, <1>3, TransferFits, Lands
<1>5. Kept(Follow(there, TRUE))
  <2> HIDE DEF there
  <2>1. Alike(Follow(there, TRUE), there)
    BY <1>3, FollowAlike
  <2> QED BY <2>1, <1>3, <1>4, AlikeKept
<1>6. Becomes(there) \/ Becomes(Follow(there, TRUE))
  BY DEF Goto
<1> QED BY <1>4, <1>5, <1>6 DEF RunsOn

LEMMA BranchKeeps ==
    ASSUME Sealed(segs), Kept(run), Branch PROVE RunsOn
<1>1. PICK taken \in BOOLEAN :
        /\ Step({"branch"})
        /\ Becomes(Follow([Dispatch(WriteBack(run, Touched(run.pc)),
                                    IF taken THEN Current.to ELSE Current.other)
                             EXCEPT !.rounds = IF Entering(taken) THEN @ - 1 ELSE @], taken))
  BY DEF Branch
<1> DEFINE back  == WriteBack(run, Touched(run.pc))
           to    == IF taken THEN Current.to ELSE Current.other
           there == Dispatch(back, to)
           spent == [there EXCEPT !.rounds = IF Entering(taken) THEN @ - 1 ELSE @]
           q     == Follow(spent, taken)
<1>2. run.at = "segment" /\ Current.op = "branch"
  BY <1>1 DEF Step
<1>3. to \in 1 .. Len(segs)
  BY <1>2, AtInstruction DEF Kept, Fits, Transfers
<1>4. Alike(back, run)
  BY WriteBackAlike DEF Kept
<1>5. IsRun(there) /\ there.state = to /\ there.pc = 1
        /\ there.at = "segment" /\ there.ends = run.ends
  <2> HIDE DEF back, to
  <2> QED BY <1>4, DispatchStarts DEF Alike
<1>6. Alike(spent, there)
  <2> HIDE DEF there
  <2> QED BY <1>5 DEF Alike, IsRun
<1>7. Alike(q, spent)
  <2> HIDE DEF spent
  <2> QED BY <1>6, FollowAlike DEF Alike
<1>8. Kept(q)
  <2> HIDE DEF q, spent, there, to
  <2> QED BY <1>2, <1>3, <1>5, <1>6, <1>7, Lands DEF Alike
<1> QED BY <1>1, <1>8 DEF RunsOn

(* A run that goes on in its segment behind the close of a body.             *)
LEMMA BehindClose ==
    ASSUME Sealed(segs), Kept(run), run.at = "segment",
           NEW j \in DOMAIN Segment, Segment[j].op \in AllKinds
    PROVE  CloseIn(Segment, j) + 1 \in DOMAIN Segment
<1>1. Segment \in Seq(Instr) /\ Whole(Segment)
  BY AtInstruction DEF Kept
<1>2. CloseIn(Segment, j) \in DOMAIN Segment /\ Segment[CloseIn(Segment, j)].op = "close"
  BY <1>1, CloseFound
<1> QED BY <1>1, <1>2, GoesOn DEF Whole, Terminal, Transfers, Calls

LEMMA PlainOpenKeeps ==
    ASSUME Sealed(segs), Kept(run), PlainOpen PROVE RunsOn
<1> DEFINE went(taken) == [Flushed(run) EXCEPT
                !.pc = IF taken THEN @ + 1 ELSE CloseIn(Segment, @) + 1]
           spent(taken) == [went(taken) EXCEPT
                !.rounds = IF Entering(taken) THEN @ - 1 ELSE @]
<1>1. PICK taken \in BOOLEAN :
        /\ Step(AllKinds)
        /\ \/ Becomes(went(taken))
           \/ Becomes(Follow(spent(taken), taken))
  BY DEF PlainOpen
<1>2. run.at = "segment" /\ Current.op \in AllKinds /\ Current.op \notin Terminal
  BY <1>1 DEF Step, AllKinds, Loops, Terminal, Transfers, Calls
<1>3. run.pc \in DOMAIN Segment /\ Segment \in Seq(Instr) /\ Whole(Segment)
  BY <1>2, AtInstruction DEF Kept
<1> DEFINE there == went(taken)
<1>4. IsRun(there) /\ there.state = run.state /\ there.at = "segment"
        /\ there.ends = run.ends /\ there.pc \in DOMAIN Segment
  <2> DEFINE f == Flushed(run)
             on == IF taken THEN f.pc + 1 ELSE CloseIn(Segment, f.pc) + 1
             g == [f EXCEPT !.pc = on]
  <2>1. Alike(f, run)
    BY FlushedAlike DEF Kept
  <2>2. run.pc + 1 \in DOMAIN Segment
    BY <1>2, <1>3, GoesOn DEF Whole, Current
  <2>3. CloseIn(Segment, run.pc) + 1 \in DOMAIN Segment
    BY <1>2, <1>3, BehindClose DEF Current
  <2>4. on \in DOMAIN Segment
    BY <2>1, <2>2, <2>3 DEF Alike
  <2>5. there = g
    OBVIOUS
  <2> HIDE DEF f, on, there, went
  <2>6. IsRun(g) /\ g.state = f.state /\ g.at = f.at /\ g.ends = f.ends /\ g.pc = on
    BY <2>1 DEF Alike, IsRun
  <2> QED BY <1>2, <2>1, <2>4, <2>5, <2>6 DEF Alike
<1>5. Kept(there)
  <2> HIDE DEF there, went
  <2> QED BY <1>2, <1>4, Stayed DEF Kept, EndsOnce
<1> DEFINE less == spent(taken)
<1>6. Alike(less, there)
  <2> HIDE DEF went
  <2> QED BY <1>4 DEF Alike, IsRun
<1>7. Kept(Follow(less, taken))
  <2> HIDE DEF less, there, went, spent
  <2>1. Alike(Follow(less, taken), less)
    BY <1>6, FollowAlike DEF Alike
  <2> QED BY <2>1, <1>4, <1>5, <1>6, AlikeKept DEF Alike
<1> QED BY <1>1, <1>5, <1>7 DEF RunsOn

LEMMA PlainCloseKeeps ==
    ASSUME Sealed(segs), Kept(run), PlainClose PROVE RunsOn
<1> DEFINE on == IF Segment[Current.to].op \in Loops THEN Current.to ELSE run.pc + 1
           q  == [run EXCEPT !.pc = on]
<1>1. run.at = "segment" /\ Current.op = "close"
  BY DEF PlainClose, Step
<1>2. run.pc \in DOMAIN Segment /\ Segment \in Seq(Instr) /\ Whole(Segment)
        /\ Current.to \in DOMAIN Segment
  BY <1>1, AtInstruction DEF Kept, Fits
<1>3. on \in DOMAIN Segment
  BY <1>1, <1>2, GoesOn DEF Whole, Current, Terminal, Transfers, Calls
<1>4. IsRun(q) /\ q.state = run.state /\ q.at = "segment" /\ q.ends = run.ends /\ q.pc = on
  <2> HIDE DEF on
  <2> QED BY <1>1 DEF Kept, IsRun
<1>5. Kept(q)
  <2> HIDE DEF q, on
  <2> QED BY <1>1, <1>3, <1>4, Stayed DEF Kept, EndsOnce
<1> QED BY <1>5 DEF PlainClose, RunsOn

LEMMA PlainJumpKeeps ==
    ASSUME Sealed(segs), Kept(run), PlainJump PROVE RunsOn
<1> DEFINE on == IF Current.op = "continue" THEN Current.to
                 ELSE CloseIn(Segment, Current.to) + 1
           there == [run EXCEPT !.pc = on]
           q     == Follow(there, TRUE)
<1>1. run.at = "segment" /\ Current.op \in Jumps
  BY DEF PlainJump, Step
<1>2. Current.to \in DOMAIN Segment /\ Segment[Current.to].op \in AllKinds
  BY <1>1, AtInstruction DEF Kept, Fits
<1>3. on \in DOMAIN Segment
  BY <1>1, <1>2, BehindClose
<1>4. IsRun(there) /\ there.state = run.state /\ there.at = "segment"
        /\ there.ends = run.ends /\ there.pc = on
  <2> HIDE DEF on
  <2> QED BY <1>1 DEF Kept, IsRun
<1>5. Alike(q, there)
  <2> HIDE DEF there
  <2> QED BY <1>4, FollowAlike
<1>6. Kept(q)
  <2> HIDE DEF q, there, on
  <2> QED BY <1>1, <1>3, <1>4, <1>5, Stayed DEF Kept, EndsOnce, Alike
<1> QED BY <1>6 DEF PlainJump, RunsOn

LEMMA RunReturnKeeps ==
    ASSUME Sealed(segs), Kept(run), code \in Seq(Stmt), RunReturn PROVE RunsOn
<1> DEFINE ended == [run EXCEPT !.ends = IF Current.op = "finish" THEN @ + 1 ELSE @,
                                !.src = Len(code) + 1]
           stop  == [ended EXCEPT !.at = "stopped"]
           again == Dispatch(ended, run.state)
<1>1. PICK verdict \in Bit :
        /\ Step({"finish", "return"})
        /\ Current.op = "finish" => verdict = 1
        /\ Becomes(IF verdict = 1 THEN stop ELSE again)
  BY DEF RunReturn
<1>2. run.at = "segment" /\ Current.op \in {"finish", "return"}
  BY <1>1 DEF Step
<1>3. Current.op = "return" => "plain-return" \in Shapes
  BY <1>2, AtInstruction DEF Kept, Fits
<1>4. /\ IsRun(ended)
      /\ ended.src = Len(code) + 1
      /\ ended.ends = IF Current.op = "finish" THEN run.ends + 1 ELSE run.ends
  BY DEF Kept, IsRun
<1>5. Kept(stop)
  <2>1. IsRun(stop) /\ stop.at = "stopped" /\ stop.src = Len(code) + 1
          /\ stop.ends = ended.ends
    <3> HIDE DEF ended
    <3> QED BY <1>4 DEF IsRun
  <2>2. Len(code) + 1 # 0
    OBVIOUS
  <2> HIDE DEF stop, ended
  <2> QED BY <2>1, <2>2, <1>2, <1>3, <1>4 DEF Kept, InCode, EndsOnce
<1>6. ASSUME Current.op = "return" PROVE Kept(again)
  <2>1. IsRun(again) /\ again.state = run.state /\ again.pc = 1 /\ again.at = "segment"
    <3> HIDE DEF ended
    <3> QED BY <1>4, DispatchStarts
  <2>2. run.state \in 1 .. Len(segs)
    BY <1>2 DEF Kept, InCode, Sealed
  <2> HIDE DEF again, ended
  <2> QED BY <2>1, <2>2, <1>3, <1>6, Landed DEF Kept
<1>7. verdict # 1 => Current.op = "return"
  BY <1>1, <1>2
<1> HIDE DEF stop, again, ended
<1> QED BY <1>1, <1>5, <1>6, <1>7 DEF RunsOn

(* A step of a run keeps it in the code, or the program is refused.          *)
LEMMA ExecuteKeeps ==
    ASSUME Sealed(segs), Kept(run), code \in Seq(Stmt), Execute
    PROVE  RunsOn \/ (phase' = "refused" /\ UNCHANGED <<source, run>>)
<1>1. ASSUME Reads PROVE RunsOn \/ (phase' = "refused" /\ UNCHANGED <<source, run>>)
  <2>1. (phase' = "refused" /\ UNCHANGED <<source, run>>) \/ phase' = "run"
    BY <1>1 DEF Reads, Step, Becomes
  <2> QED BY <2>1, <1>1, ReadsKeeps
<1> QED BY <1>1, StartKeeps, RunNewKeeps, RunSpawnKeeps, RunTakeKeeps, CompletesKeeps,
           BlocksKeeps, WakeKeeps, GotoKeeps, BranchKeeps, PlainOpenKeeps,
           PlainCloseKeeps, PlainJumpKeeps, RunReturnKeeps DEF Execute

-----------------------------------------------------------------------------
(* Lemmas about growing segments. *)

(* The segments with t at the end of segment c.                              *)
Grown(sg, c, t) == [sg EXCEPT ![c] = @ \o t]

LEMMA Glue ==
    ASSUME NEW Of, NEW s \in Seq(Of), NEW t \in Seq(Of)
    PROVE  /\ s \o t \in Seq(Of)
           /\ Len(s \o t) = Len(s) + Len(t)
           /\ DOMAIN s \subseteq DOMAIN (s \o t)
           /\ \A j \in DOMAIN s : (s \o t)[j] = s[j]
           /\ \A k \in DOMAIN t : k + Len(s) \in DOMAIN (s \o t) /\ (s \o t)[k + Len(s)] = t[k]
           /\ \A j \in DOMAIN (s \o t) :
                 j \in DOMAIN s \/ \E k \in DOMAIN t : j = k + Len(s)
<1>1. \A j \in DOMAIN (s \o t) \ DOMAIN s : j - Len(s) \in DOMAIN t /\ j = (j - Len(s)) + Len(s)
  OBVIOUS
<1> QED BY <1>1

LEMMA GoodGlue ==
    ASSUME NEW s \in Seq(Instr), NEW t \in Seq(Instr), NEW n \in Nat, NEW m \in Nat,
           n <= m, Good(s, n), \A k \in DOMAIN t : Fits(t[k], s, m)
    PROVE  Good(s \o t, m)
<1> DEFINE u == s \o t
<1>1. /\ DOMAIN s \subseteq DOMAIN u /\ \A j \in DOMAIN s : u[j] = s[j]
      /\ \A j \in DOMAIN u : j \in DOMAIN s \/ \E k \in DOMAIN t : j = k + Len(s) /\ u[j] = t[k]
  BY Glue
<1> HIDE DEF u
<1>2. ASSUME NEW e, Fits(e, s, m) PROVE Fits(e, u, m)
  BY <1>1, <1>2 DEF Fits
<1>3. \A j \in DOMAIN s : Fits(s[j], s, m)
  BY DEF Good, Fits
<1>4. \A j \in DOMAIN u : Fits(u[j], u, m)
  BY <1>1, <1>2, <1>3
<1> QED BY <1>4 DEF Good, u

(* What an opening has closed stays closed.                                  *)
LEMMA ClosedGlue ==
    ASSUME NEW s \in Seq(Instr), NEW t \in Seq(Instr), NEW j, Closed(s, j)
    PROVE  Closed(s \o t, j)
  BY Glue DEF Closed

LEMMA GrownIs ==
    ASSUME NEW sg \in Seq(Seq(Instr)), NEW c \in DOMAIN sg, NEW t \in Seq(Instr)
    PROVE  LET g == Grown(sg, c, t) IN
           /\ g \in Seq(Seq(Instr)) /\ Len(g) = Len(sg) /\ DOMAIN g = DOMAIN sg
           /\ sg[c] \in Seq(Instr) /\ g[c] = sg[c] \o t /\ g[c] \in Seq(Instr)
           /\ \A s \in DOMAIN sg : s # c => g[s] = sg[s]
<1>1. sg[c] \o t \in Seq(Instr)
  OBVIOUS
<1> QED BY <1>1 DEF Grown

(* Every segment is good for m segments.                                     *)
GoodFor(sg, m) == \A s \in DOMAIN sg : Good(sg[s], m)

LEMMA GoodMore ==
    ASSUME NEW s, NEW n \in Nat, NEW m \in Nat, n <= m, Good(s, n)
    PROVE  Good(s, m)
  BY DEF Good, Fits

LEMMA GrownGood ==
    ASSUME NEW sg \in Seq(Seq(Instr)), NEW c \in DOMAIN sg, NEW t \in Seq(Instr),
           AllGood(sg), NEW m \in Nat, Len(sg) <= m,
           \A k \in DOMAIN t : Fits(t[k], sg[c], m)
    PROVE  GoodFor(Grown(sg, c, t), m)
<1> DEFINE g == Grown(sg, c, t)
<1>1. /\ DOMAIN g = DOMAIN sg /\ g[c] = sg[c] \o t /\ sg[c] \in Seq(Instr)
      /\ \A s \in DOMAIN sg : s # c => g[s] = sg[s]
  BY GrownIs
<1>2. Len(sg) \in Nat /\ \A s \in DOMAIN sg : Good(sg[s], Len(sg))
  BY DEF AllGood
<1>3. Good(sg[c] \o t, m)
  BY <1>1, <1>2, GoodGlue
<1>4. \A s \in DOMAIN sg : Good(sg[s], m)
  BY <1>2, GoodMore
<1> HIDE DEF g
<1>5. \A s \in DOMAIN g : Good(g[s], m)
  BY <1>1, <1>3, <1>4
<1> QED BY <1>5 DEF GoodFor, g

(* What is open in the grown segment was open before or is opened by t.      *)
LEMMA GrownOpen ==
    ASSUME NEW bs, NEW sg, NEW c, Lists(bs, sg, c), CurrentOpen(bs, sg, c),
           NEW t \in Seq(Instr), \A k \in DOMAIN t : t[k].op \notin AllKinds
    PROVE  CurrentOpen(bs, Grown(sg, c, t), c)
<1> DEFINE s == sg[c]
           u == s \o t
<1>1. s \in Seq(Instr) /\ Grown(sg, c, t)[c] = u
  BY GrownIs DEF Lists
<1>2. /\ \A j \in DOMAIN s : u[j] = s[j]
      /\ \A j \in DOMAIN u : j \in DOMAIN s \/ \E k \in DOMAIN t : u[j] = t[k]
  <2> HIDE DEF s
  <2> QED BY <1>1, Glue
<1>3. \A j \in DOMAIN s : Closed(s, j) => Closed(u, j)
  <2> HIDE DEF s
  <2> QED BY <1>1, ClosedGlue
<1>4. \A j \in DOMAIN s : s[j].op \in AllKinds =>
          Closed(s, j) \/ \E i \in DOMAIN bs : ~bs[i].split /\ bs[i].open = j
  BY DEF CurrentOpen
<1> HIDE DEF s, u
<1>5. \A j \in DOMAIN u : u[j].op \in AllKinds =>
          Closed(u, j) \/ \E i \in DOMAIN bs : ~bs[i].split /\ bs[i].open = j
  BY <1>2, <1>3, <1>4
<1> QED BY <1>1, <1>5 DEF CurrentOpen

LEMMA GrownPlaces ==
    ASSUME NEW bs, NEW sg, NEW c, Lists(bs, sg, c), Places(bs, sg, c),
           NEW t \in Seq(Instr)
    PROVE  Places(bs, Grown(sg, c, t), c)
<1> DEFINE g == Grown(sg, c, t)
<1>1. /\ DOMAIN g = DOMAIN sg /\ g[c] = sg[c] \o t /\ sg[c] \in Seq(Instr)
      /\ \A s \in DOMAIN sg : s # c => g[s] = sg[s]
  BY GrownIs DEF Lists
<1>2. DOMAIN sg[c] \subseteq DOMAIN g[c] /\ \A j \in DOMAIN sg[c] : g[c][j] = sg[c][j]
  BY <1>1, Glue
<1> HIDE DEF g
<1>3. ASSUME NEW i \in DOMAIN bs
      PROVE  /\ i > 1 /\ bs[i].split => SplitPlaces(bs[i], g, c)
             /\ ~bs[i].split => PlainPlaces(bs[i], g, c)
  BY <1>1, <1>2 DEF Places, SplitPlaces, PlainPlaces
<1> QED BY <1>3 DEF Places, g

LEMMA GrownOthers ==
    ASSUME NEW bs, NEW sg, NEW c, Lists(bs, sg, c), OthersWhole(bs, sg, c),
           NEW t \in Seq(Instr)
    PROVE  OthersWhole(bs, Grown(sg, c, t), c)
  BY GrownIs DEF Lists, OthersWhole

LEMMA GrownEnded ==
    ASSUME NEW sg \in Seq(Seq(Instr)), NEW c \in DOMAIN sg, NEW t \in Seq(Instr), Ended(t)
    PROVE  Ended(Grown(sg, c, t)[c])
<1>1. sg[c] \in Seq(Instr) /\ Grown(sg, c, t)[c] = sg[c] \o t
  BY GrownIs
<1>2. Len(t) \in DOMAIN t
  BY DEF Ended
<1> QED BY <1>1, <1>2, Glue DEF Ended

-----------------------------------------------------------------------------
(* Writing in the current segment. *)

(* bs2 differs from bs in what was bound, and in whether the innermost body  *)
(* has jumped.                                                               *)
SameBodies(bs2, bs) ==
    /\ bs2 \in Seq(Body) /\ Len(bs2) = Len(bs)
    /\ \A i \in DOMAIN bs :
          /\ bs2[i].kind = bs[i].kind /\ bs2[i].split = bs[i].split
          /\ bs2[i].open = bs[i].open /\ bs2[i].head = bs[i].head
          /\ bs2[i].alt = bs[i].alt /\ bs2[i].next = bs[i].next
          /\ i < Len(bs) => bs2[i].exited = bs[i].exited

LEMMA FrontIs ==
    ASSUME NEW bs \in Seq(Body), bs # <<>>
    PROVE  /\ Front(bs) \in Seq(Body) /\ Len(Front(bs)) = Len(bs) - 1
           /\ \A i \in 1 .. Len(bs) - 1 : Front(bs)[i] = bs[i]
<1>1. PICK k \in Nat : Len(bs) = k + 1 /\ Len(bs) - 1 = k
  OBVIOUS
<1>2. k \in Int /\ 1 \in Int /\ \A i \in 1 .. k : bs[i] \in Body
  BY <1>1
<1>3. /\ SubSeq(bs, 1, k) \in Seq(Body)
      /\ Len(SubSeq(bs, 1, k)) = IF 1 <= k THEN k - 1 + 1 ELSE 0
      /\ \A i \in 1 .. k - 1 + 1 : SubSeq(bs, 1, k)[i] = bs[1 + i - 1]
  BY <1>2, SubSeqProperties
<1>4. (IF 1 <= k THEN k - 1 + 1 ELSE 0) = k /\ k - 1 + 1 = k
        /\ \A i \in 1 .. k : 1 + i - 1 = i
  OBVIOUS
<1>5. Len(SubSeq(bs, 1, k)) = k /\ \A i \in 1 .. k : SubSeq(bs, 1, k)[i] = bs[i]
  BY <1>3, <1>4
<1>6. Front(bs) = SubSeq(bs, 1, k)
  BY <1>1 DEF Front
<1> QED BY <1>1, <1>3, <1>5, <1>6

LEMMA Retopped ==
    ASSUME NEW bs \in Seq(Body), bs # <<>>, NEW b \in Body
    PROVE  LET n == Append(Front(bs), b) IN
           /\ n \in Seq(Body) /\ Len(n) = Len(bs) /\ DOMAIN n = DOMAIN bs /\ n # <<>>
           /\ n[Len(bs)] = b /\ \A i \in DOMAIN bs : i < Len(bs) => n[i] = bs[i]
<1> DEFINE f == Front(bs)
           n == Append(f, b)
<1>1. f \in Seq(Body) /\ Len(f) = Len(bs) - 1 /\ \A i \in 1 .. Len(bs) - 1 : f[i] = bs[i]
  BY FrontIs
<1> HIDE DEF f
<1>2. Len(bs) \in Nat /\ Len(bs) > 0 /\ DOMAIN bs = 1 .. Len(bs)
  OBVIOUS
<1>3. /\ n \in Seq(Body) /\ Len(n) = Len(bs) /\ n[Len(bs)] = b
      /\ \A i \in 1 .. Len(bs) - 1 : n[i] = bs[i]
  BY <1>1
<1> HIDE DEF n
<1>4. /\ n \in Seq(Body) /\ Len(n) = Len(bs) /\ DOMAIN n = DOMAIN bs /\ n # <<>>
      /\ n[Len(bs)] = b /\ \A i \in DOMAIN bs : i < Len(bs) => n[i] = bs[i]
  BY <1>2, <1>3
<1> QED BY <1>4 DEF n, f

LEMMA SameShape ==
    ASSUME NEW bs, NEW bs2, NEW sg, NEW c, Shape(bs, sg, c), SameBodies(bs2, bs),
           bs2[Len(bs2)].exited /\ bs2[Len(bs2)].split => Ended(sg[c])
    PROVE  Shape(bs2, sg, c)
<1>1. /\ bs \in Seq(Body) /\ bs # <<>> /\ bs2 \in Seq(Body) /\ bs2 # <<>>
      /\ DOMAIN bs2 = DOMAIN bs /\ Len(bs2) = Len(bs) /\ 1 \in DOMAIN bs
  BY DEF Shape, Lists, SameBodies
<1>2. \A i \in DOMAIN bs : Pending(bs2[i]) = Pending(bs[i])
  BY DEF SameBodies, Pending
<1>3. Lists(bs2, sg, c)
  BY <1>1 DEF Shape, Lists
<1>4. Nested(bs2)
  BY <1>1, <1>2 DEF Shape, Nested, SameBodies
<1>5. Places(bs2, sg, c)
  <2>1. ASSUME NEW i \in DOMAIN bs
        PROVE  /\ i > 1 /\ bs2[i].split => SplitPlaces(bs2[i], sg, c)
               /\ ~bs2[i].split => PlainPlaces(bs2[i], sg, c)
    BY <1>2 DEF Shape, Places, SplitPlaces, PlainPlaces, SameBodies
  <2> QED BY <2>1, <1>1 DEF Places
<1>6. Apart(bs2)
  BY <1>1, <1>2 DEF Shape, Apart, SameBodies
<1>7. OthersWhole(bs2, sg, c)
  BY <1>1, <1>2 DEF Shape, OthersWhole, SameBodies
<1>8. CurrentOpen(bs2, sg, c)
  BY <1>1 DEF Shape, CurrentOpen, SameBodies
<1>9. HasInnermost(bs2)
  <2>1. ASSUME NEW n \in DOMAIN bs
        PROVE  \/ \A i \in 1 .. n : bs2[i].kind \notin Loops
               \/ \E m \in 1 .. n : /\ bs2[m].kind \in Loops
                                    /\ \A i \in 1 .. n : bs2[i].kind \in Loops => i <= m
    <3>1. 1 .. n \subseteq DOMAIN bs
      BY <1>1
    <3>2. \A i \in 1 .. n : bs2[i].kind = bs[i].kind
      BY <3>1 DEF SameBodies
    <3> QED BY <3>2 DEF Shape, HasInnermost
  <2> QED BY <2>1, <1>1 DEF HasInnermost
<1> QED BY <1>3, <1>4, <1>5, <1>6, <1>7, <1>8, <1>9 DEF Shape, ExitEnds

(* More instructions in the current segment.                                 *)
LEMMA GrownShape ==
    ASSUME NEW bs, NEW sg, NEW c, Shape(bs, sg, c), ~Last(bs).exited,
           NEW t \in Seq(Instr),
           \A k \in DOMAIN t : Fits(t[k], sg[c], Len(sg)) /\ t[k].op \notin AllKinds
    PROVE  Shape(bs, Grown(sg, c, t), c)
<1> DEFINE g == Grown(sg, c, t)
<1>1. Lists(bs, sg, c) /\ AllGood(sg) /\ Len(sg) \in Nat
  BY DEF Shape, Lists
<1>2. g \in Seq(Seq(Instr)) /\ Len(g) = Len(sg) /\ DOMAIN g = DOMAIN sg
  BY <1>1, GrownIs DEF Lists
<1>3. GoodFor(g, Len(sg))
  <2>1. sg \in Seq(Seq(Instr)) /\ c \in DOMAIN sg /\ Len(sg) <= Len(sg)
    BY <1>1 DEF Lists
  <2>2. \A k \in DOMAIN t : Fits(t[k], sg[c], Len(sg))
    OBVIOUS
  <2> HIDE DEF g
  <2> QED BY <1>1, <2>1, <2>2, GrownGood DEF g
<1>4. Places(bs, g, c) /\ OthersWhole(bs, g, c) /\ CurrentOpen(bs, g, c)
  BY <1>1, GrownPlaces, GrownOthers, GrownOpen DEF Shape
<1> HIDE DEF g
<1>5. Lists(bs, g, c) /\ AllGood(g)
  BY <1>1, <1>2, <1>3 DEF Lists, AllGood, GoodFor
<1>6. ExitEnds(bs, g, c)
  BY DEF ExitEnds, Last
<1> QED BY <1>4, <1>5, <1>6 DEF Shape, g

LEMMA OneInstruction ==
    ASSUME NEW e \in Instr
    PROVE  /\ <<e>> \in Seq(Instr) /\ <<e>> # <<>> /\ Len(<<e>>) = 1 /\ <<e>>[1] = e
           /\ DOMAIN <<e>> = {1} /\ \A k \in DOMAIN <<e>> : <<e>>[k] = e
  OBVIOUS

(* One statement that stays in its segment, for the innermost body b.        *)
LEMMA Straight ==
    ASSUME NEW bs, NEW sg, NEW c, Shape(bs, sg, c), ~Last(bs).exited,
           NEW e \in Instr, Fits(e, sg[c], Len(sg)), e.op \notin AllKinds,
           NEW b \in Body, b.kind = Last(bs).kind, b.split = Last(bs).split,
           b.open = Last(bs).open, b.head = Last(bs).head,
           b.alt = Last(bs).alt, b.next = Last(bs).next,
           b.exited /\ b.split => e.op \in Terminal
    PROVE  Shape(Append(Front(bs), b), Grown(sg, c, <<e>>), c)
<1> DEFINE n == Append(Front(bs), b)
           g == Grown(sg, c, <<e>>)
<1>1. /\ bs \in Seq(Body) /\ bs # <<>> /\ sg \in Seq(Seq(Instr)) /\ c \in DOMAIN sg
  BY DEF Shape, Lists
<1>2. Shape(bs, g, c)
  BY OneInstruction, GrownShape, ZenonT(60)
<1>3. n \in Seq(Body) /\ Len(n) = Len(bs) /\ n[Len(bs)] = b
        /\ \A i \in DOMAIN bs : i < Len(bs) => n[i] = bs[i]
  BY <1>1, Retopped
<1>4. SameBodies(n, bs)
  <2> HIDE DEF n
  <2>1. Last(bs) = bs[Len(bs)]
    BY DEF Last
  <2>2. \A i \in DOMAIN bs : i < Len(bs) \/ i = Len(bs)
    BY <1>1
  <2> QED BY <1>3, <2>1, <2>2 DEF SameBodies
<1>5. b.exited /\ b.split => Ended(g[c])
  <2>1. e.op \in Terminal => Ended(<<e>>)
    BY OneInstruction DEF Ended
  <2> QED BY <1>1, <2>1, OneInstruction, GrownEnded
<1> HIDE DEF n, g
<1> QED BY <1>2, <1>3, <1>4, <1>5, SameShape DEF n, g

(* ... when nothing about the bodies changes.                                *)
LEMMA StraightOn ==
    ASSUME NEW bs, NEW sg, NEW c, Shape(bs, sg, c), ~Last(bs).exited,
           NEW e \in Instr, Fits(e, sg[c], Len(sg)), e.op \notin AllKinds
    PROVE  Shape(bs, Grown(sg, c, <<e>>), c)
  BY OneInstruction, GrownShape

(* One more instruction.                                                     *)
LEMMA GrownOne ==
    ASSUME NEW sg \in Seq(Seq(Instr)), NEW c \in DOMAIN sg, NEW e \in Instr
    PROVE  LET g == Grown(sg, c, <<e>>) IN
           /\ g \in Seq(Seq(Instr)) /\ Len(g) = Len(sg) /\ DOMAIN g = DOMAIN sg
           /\ sg[c] \in Seq(Instr) /\ g[c] = sg[c] \o <<e>> /\ g[c] \in Seq(Instr)
           /\ \A s \in DOMAIN sg : s # c => g[s] = sg[s]
           /\ AllGood(sg) /\ Fits(e, sg[c], Len(sg)) => AllGood(g)
<1> DEFINE t == <<e>>
           g == Grown(sg, c, t)
<1>1. t \in Seq(Instr) /\ \A k \in DOMAIN t : t[k] = e
  BY OneInstruction
<1> HIDE DEF t
<1>2. /\ g \in Seq(Seq(Instr)) /\ Len(g) = Len(sg) /\ DOMAIN g = DOMAIN sg
      /\ sg[c] \in Seq(Instr) /\ g[c] = sg[c] \o t /\ g[c] \in Seq(Instr)
      /\ \A s \in DOMAIN sg : s # c => g[s] = sg[s]
  BY <1>1, GrownIs
<1>3. Len(sg) \in Nat /\ Len(sg) <= Len(sg)
  OBVIOUS
<1>4. AllGood(sg) /\ Fits(e, sg[c], Len(sg)) => GoodFor(g, Len(sg))
  BY <1>1, <1>3, GrownGood
<1> HIDE DEF g
<1>5. AllGood(sg) /\ Fits(e, sg[c], Len(sg)) => AllGood(g)
  BY <1>2, <1>4 DEF AllGood, GoodFor
<1> QED BY <1>2, <1>5 DEF g, t

-----------------------------------------------------------------------------
(* Opening and closing bodies. *)

LEMMA PushedBodies ==
    ASSUME NEW bs \in Seq(Body), bs # <<>>, Nested(bs), Apart(bs), HasInnermost(bs),
           ~bs[Len(bs)].exited, NEW b \in Body, b.kind \in AllKinds,
           b.split => bs[Len(bs)].split,
           b.split => \A i \in DOMAIN bs :
                         bs[i].split => Pending(b) \cap Pending(bs[i]) = {}
    PROVE  LET n == Append(bs, b) IN
           n \in Seq(Body) /\ n # <<>> /\ Nested(n) /\ Apart(n) /\ HasInnermost(n)
<1> DEFINE n == Append(bs, b)
           last == Len(bs) + 1
<1>1. /\ n \in Seq(Body) /\ n # <<>> /\ Len(n) = last /\ n[last] = b /\ last \in DOMAIN n
      /\ \A i \in DOMAIN bs : n[i] = bs[i] /\ i < last /\ i \in DOMAIN n
      /\ \A i \in DOMAIN n : i \in DOMAIN bs \/ i = last
      /\ 1 \in DOMAIN bs /\ Len(bs) \in DOMAIN bs
  OBVIOUS
<1>2. \A i \in DOMAIN bs : i > 1 <=> i # 1
  OBVIOUS
<1> HIDE DEF n, last
<1>3. Nested(n)
  <2>1. \A i \in DOMAIN bs : i = Len(bs) \/ i < Len(bs)
    OBVIOUS
  <2>2. \A i \in DOMAIN n : i < Len(n) => ~n[i].exited
    BY <1>1, <2>1 DEF Nested
  <2>3. ASSUME NEW i \in DOMAIN n, NEW j \in DOMAIN n, i < j, n[j].split PROVE n[i].split
    <3>1. CASE j = last
      <4>1. bs[Len(bs)].split /\ i \in DOMAIN bs
        BY <1>1, <2>3, <3>1
      <4> QED BY <4>1, <2>1, <1>1 DEF Nested
    <3>2. CASE j # last
      <4>1. j \in DOMAIN bs /\ i \in DOMAIN bs
        BY <1>1, <2>3, <3>2
      <4> QED BY <4>1, <1>1, <2>3 DEF Nested
    <3> QED BY <3>1, <3>2
  <2>4. n[1].split /\ n[1].kind = "fn" /\ Pending(n[1]) = {}
    BY <1>1 DEF Nested
  <2>5. \A i \in DOMAIN n : i > 1 => n[i].kind \in AllKinds
    BY <1>1 DEF Nested
  <2> QED BY <2>2, <2>3, <2>4, <2>5 DEF Nested
<1>4. Apart(n)
  BY <1>1 DEF Apart
<1>5. HasInnermost(n)
  <2>1. ASSUME NEW k \in DOMAIN bs
        PROVE  \/ \A i \in 1 .. k : n[i].kind \notin Loops
               \/ \E m \in 1 .. k : /\ n[m].kind \in Loops
                                    /\ \A i \in 1 .. k : n[i].kind \in Loops => i <= m
    <3>1. \A i \in 1 .. k : n[i] = bs[i]
      BY <1>1
    <3> QED BY <3>1 DEF HasInnermost
  <2>2. last = Len(bs) + 1 /\ Len(bs) \in Nat /\ \A i \in 1 .. last : i \in 1 .. Len(bs) \/ i = last
    BY DEF last
  <2>3. CASE b.kind \in Loops
    <3>1. last \in 1 .. last /\ n[last].kind \in Loops /\ \A i \in 1 .. last : i <= last
      BY <1>1, <2>2, <2>3
    <3> QED BY <2>1, <3>1, <1>1 DEF HasInnermost
  <2>4. CASE b.kind \notin Loops
    <3>1. \/ \A i \in 1 .. Len(bs) : n[i].kind \notin Loops
          \/ \E m \in 1 .. Len(bs) :
                /\ n[m].kind \in Loops
                /\ \A i \in 1 .. Len(bs) : n[i].kind \in Loops => i <= m
      BY <2>1, <1>1
    <3>2. \/ \A i \in 1 .. last : n[i].kind \notin Loops
          \/ \E m \in 1 .. last :
                /\ n[m].kind \in Loops
                /\ \A i \in 1 .. last : n[i].kind \in Loops => i <= m
      BY <3>1, <2>2, <2>4, <1>1
    <3> QED BY <2>1, <3>2, <1>1 DEF HasInnermost
  <2> QED BY <2>3, <2>4
<1> QED BY <1>1, <1>3, <1>4, <1>5 DEF n

LEMMA PoppedBodies ==
    ASSUME NEW bs \in Seq(Body), Len(bs) > 1, Nested(bs), Apart(bs), HasInnermost(bs)
    PROVE  LET n == Front(bs) IN
           /\ n \in Seq(Body) /\ n # <<>> /\ Len(n) = Len(bs) - 1
           /\ DOMAIN n = DOMAIN bs \ {Len(bs)}
           /\ \A i \in DOMAIN n : n[i] = bs[i]
           /\ Nested(n) /\ Apart(n) /\ HasInnermost(n) /\ ~n[Len(n)].exited
<1> DEFINE n == Front(bs)
<1>0. bs # <<>> /\ Len(bs) \in Nat
  OBVIOUS
<1>1. n \in Seq(Body) /\ Len(n) = Len(bs) - 1 /\ \A i \in 1 .. Len(bs) - 1 : n[i] = bs[i]
  BY <1>0, FrontIs
<1> HIDE DEF n
<1>2. /\ n # <<>> /\ DOMAIN n = 1 .. Len(n) /\ DOMAIN n = DOMAIN bs \ {Len(bs)}
      /\ \A i \in DOMAIN n : n[i] = bs[i] /\ i \in DOMAIN bs /\ i < Len(bs)
      /\ 1 \in DOMAIN n /\ Len(n) \in DOMAIN n
  <2>1. DOMAIN n = 1 .. Len(bs) - 1 /\ Len(bs) \in Nat /\ DOMAIN bs = 1 .. Len(bs)
    BY <1>1
  <2>2. Len(n) \in DOMAIN n /\ 1 \in DOMAIN n
    BY <1>1, <2>1
  <2>3. \A i \in DOMAIN n : i \in DOMAIN bs /\ i < Len(bs)
    BY <2>1
  <2>4. \A i \in DOMAIN bs : i = Len(bs) \/ i \in DOMAIN n
    BY <2>1
  <2>5. Len(bs) \notin DOMAIN n
    BY <2>1
  <2> QED BY <1>1, <2>1, <2>2, <2>3, <2>4, <2>5
<1>3. Nested(n)
  BY <1>2 DEF Nested
<1>4. Apart(n)
  BY <1>2 DEF Apart
<1>5. HasInnermost(n)
  <2>1. ASSUME NEW k \in DOMAIN n
        PROVE  \/ \A i \in 1 .. k : n[i].kind \notin Loops
               \/ \E m \in 1 .. k : /\ n[m].kind \in Loops
                                    /\ \A i \in 1 .. k : n[i].kind \in Loops => i <= m
    <3>1. \A i \in 1 .. k : n[i] = bs[i]
      BY <1>1, <1>2
    <3>2. k \in DOMAIN bs
      BY <1>2
    <3> QED BY <3>1, <3>2 DEF HasInnermost
  <2> QED BY <2>1 DEF HasInnermost
<1>6. ~n[Len(n)].exited
  BY <1>2 DEF Nested
<1> QED BY <1>1, <1>2, <1>3, <1>4, <1>5, <1>6 DEF n

LEMMA AllSplit ==
    ASSUME NEW bs \in Seq(Body), bs # <<>>, Nested(bs), bs[Len(bs)].split
    PROVE  \A i \in DOMAIN bs : bs[i].split
<1>1. Len(bs) \in DOMAIN bs /\ \A i \in DOMAIN bs : i = Len(bs) \/ i < Len(bs)
  OBVIOUS
<1> QED BY <1>1 DEF Nested

(* A body that is not split goes on in the current segment.                  *)
LEMMA PlainOpened ==
    ASSUME NEW bs, NEW sg, NEW c, Shape(bs, sg, c), ~Last(bs).exited,
           NEW e \in Instr, e.op \in AllKinds,
           NEW b \in Body, ~b.split, b.kind = e.op, b.open = Len(sg[c]) + 1, b.alt = 0, ~b.exited
    PROVE  Shape(Append(bs, b), Grown(sg, c, <<e>>), c)
<1> DEFINE n == Append(bs, b)
           g == Grown(sg, c, <<e>>)
<1>1. /\ bs \in Seq(Body) /\ bs # <<>> /\ sg \in Seq(Seq(Instr)) /\ c \in DOMAIN sg
      /\ Lists(bs, sg, c) /\ AllGood(sg) /\ Len(sg) \in Nat
  BY DEF Shape, Lists
<1>2. n \in Seq(Body) /\ n # <<>> /\ Nested(n) /\ Apart(n) /\ HasInnermost(n)
  BY <1>1, PushedBodies DEF Shape, Last
<1>3. /\ Len(n) = Len(bs) + 1 /\ n[Len(n)] = b
      /\ \A i \in DOMAIN bs : n[i] = bs[i] /\ i \in DOMAIN n
      /\ \A i \in DOMAIN n : i \in DOMAIN bs \/ n[i] = b
      /\ Len(n) \in DOMAIN n
  BY <1>1
<1>4. /\ DOMAIN g = DOMAIN sg /\ g[c] = sg[c] \o <<e>> /\ sg[c] \in Seq(Instr)
      /\ g \in Seq(Seq(Instr)) /\ Len(g) = Len(sg)
  BY <1>1, GrownOne
<1>5. /\ \A j \in DOMAIN sg[c] : j \in DOMAIN g[c] /\ g[c][j] = sg[c][j]
      /\ \A j \in DOMAIN g[c] : j \in DOMAIN sg[c] \/ j = Len(sg[c]) + 1
      /\ Len(sg[c]) + 1 \in DOMAIN g[c] /\ g[c][Len(sg[c]) + 1] = e
  <2> HIDE DEF g
  <2> QED BY <1>4, SMTT(60)
<1>6. AllGood(g)
  <2>1. Fits(e, sg[c], Len(sg))
    BY DEF Fits, AllKinds, Loops, Transfers, Calls, Jumps
  <2> QED BY <1>1, <2>1, GrownOne
<1>7. Places(bs, g, c) /\ OthersWhole(bs, g, c)
  BY <1>1, OneInstruction, GrownPlaces, GrownOthers DEF Shape
<1> HIDE DEF n, g
<1>8. Places(n, g, c)
  <2>1. PlainPlaces(b, g, c)
    BY <1>5 DEF PlainPlaces
  <2>2. ASSUME NEW i \in DOMAIN n
        PROVE  /\ i > 1 /\ n[i].split => SplitPlaces(n[i], g, c)
               /\ ~n[i].split => PlainPlaces(n[i], g, c)
    BY <1>3, <1>7, <2>1 DEF Places
  <2> QED BY <2>2 DEF Places
<1>9. OthersWhole(n, g, c)
  BY <1>3, <1>7 DEF OthersWhole
<1>10. CurrentOpen(n, g, c)
  <2>1. \A j \in DOMAIN sg[c] : Closed(sg[c], j) => Closed(g[c], j)
    BY <1>5 DEF Closed
  <2>2. \A j \in DOMAIN sg[c] : sg[c][j].op \in AllKinds =>
            Closed(sg[c], j) \/ \E i \in DOMAIN bs : ~bs[i].split /\ bs[i].open = j
    BY DEF Shape, CurrentOpen
  <2>3. \A j \in DOMAIN g[c] : g[c][j].op \in AllKinds =>
            Closed(g[c], j) \/ \E i \in DOMAIN n : ~n[i].split /\ n[i].open = j
    BY <1>3, <1>5, <2>1, <2>2
  <2> QED BY <2>3 DEF CurrentOpen
<1>11. ExitEnds(n, g, c)
  BY <1>3 DEF ExitEnds
<1>12. Lists(n, g, c)
  BY <1>1, <1>2, <1>4 DEF Lists
<1> QED BY <1>2, <1>6, <1>8, <1>9, <1>10, <1>11, <1>12 DEF Shape, n, g

LEMMA PlainClosed ==
    ASSUME NEW bs, NEW sg, NEW c, Shape(bs, sg, c), Len(bs) > 1, ~Last(bs).split,
           NEW e \in Instr, e.op = "close", e.to = Last(bs).open
    PROVE  Shape(Front(bs), Grown(sg, c, <<e>>), c)
<1> DEFINE n == Front(bs)
           g == Grown(sg, c, <<e>>)
           b == bs[Len(bs)]
<1>1. /\ bs \in Seq(Body) /\ sg \in Seq(Seq(Instr)) /\ c \in DOMAIN sg
      /\ Lists(bs, sg, c) /\ AllGood(sg) /\ Len(sg) \in Nat /\ Len(sg) <= Len(sg)
      /\ Len(bs) \in DOMAIN bs /\ Last(bs) = b
  BY DEF Shape, Lists, Last
<1>2. /\ n \in Seq(Body) /\ n # <<>> /\ DOMAIN n = DOMAIN bs \ {Len(bs)}
      /\ \A i \in DOMAIN n : n[i] = bs[i]
      /\ Nested(n) /\ Apart(n) /\ HasInnermost(n) /\ ~n[Len(n)].exited
  BY <1>1, PoppedBodies DEF Shape
<1>3. /\ DOMAIN g = DOMAIN sg /\ g[c] = sg[c] \o <<e>> /\ sg[c] \in Seq(Instr)
      /\ g \in Seq(Seq(Instr)) /\ Len(g) = Len(sg)
  BY <1>1, GrownOne
<1>4. b.open \in DOMAIN sg[c] /\ sg[c][b.open].op = b.kind /\ b.kind \in AllKinds
  BY <1>1 DEF Shape, Places, PlainPlaces, Nested
<1>5. AllGood(g)
  <2>1. Fits(e, sg[c], Len(sg))
    BY <1>1, <1>4 DEF Fits, Transfers, Calls
  <2> QED BY <1>1, <2>1, GrownOne
<1>6. Places(bs, g, c) /\ OthersWhole(bs, g, c)
  BY <1>1, OneInstruction, GrownPlaces, GrownOthers DEF Shape
<1>7. CurrentOpen(bs, g, c)
  BY <1>1, OneInstruction, GrownOpen, ZenonT(60) DEF Shape, AllKinds, Loops
<1> HIDE DEF n, g
<1>8. Closed(g[c], b.open)
  <2>1. Len(sg[c]) + 1 \in DOMAIN g[c] /\ g[c][Len(sg[c]) + 1] = e
    BY <1>3
  <2> QED BY <2>1, <1>1 DEF Closed
<1>9. CurrentOpen(n, g, c)
  <2>1. ASSUME NEW j \in DOMAIN g[c], g[c][j].op \in AllKinds, ~Closed(g[c], j)
        PROVE  \E i \in DOMAIN n : ~n[i].split /\ n[i].open = j
    <3>1. PICK i \in DOMAIN bs : ~bs[i].split /\ bs[i].open = j
      BY <1>7, <2>1 DEF CurrentOpen
    <3>2. i # Len(bs)
      BY <1>8, <2>1, <3>1
    <3> QED BY <1>2, <3>1, <3>2
  <2> QED BY <2>1 DEF CurrentOpen
<1>10. OthersWhole(n, g, c)
  <2>1. ASSUME NEW s \in DOMAIN g, NEW i \in DOMAIN bs, bs[i].split, s \in Pending(bs[i])
        PROVE  \E k \in DOMAIN n : n[k].split /\ s \in Pending(n[k])
    <3>1. i # Len(bs)
      BY <1>1, <2>1
    <3> QED BY <1>2, <2>1, <3>1
  <2> QED BY <1>6, <2>1 DEF OthersWhole
<1>11. Places(n, g, c)
  BY <1>2, <1>6 DEF Places
<1>12. Lists(n, g, c) /\ ExitEnds(n, g, c)
  BY <1>1, <1>2, <1>3 DEF Lists, ExitEnds
<1> QED BY <1>2, <1>5, <1>9, <1>10, <1>11, <1>12 DEF Shape, n, g

-----------------------------------------------------------------------------
(* Cutting at a boundary. *)

(* No segment is being filled: each is whole, or waits for an open body.     *)
Rest(bs, sg, m) ==
    /\ bs \in Seq(Body) /\ bs # <<>> /\ sg \in Seq(Seq(Instr)) /\ m \in Nat
    /\ GoodFor(sg, m)
    /\ Nested(bs) /\ Apart(bs) /\ HasInnermost(bs)
    /\ \A i \in DOMAIN bs : bs[i].split
    /\ Places(bs, sg, 0) /\ OthersWhole(bs, sg, 0)

(* The current segment is left with the transfers t, or had ended before.    *)
LEMMA CutRests ==
    ASSUME NEW bs, NEW sg, NEW c, Shape(bs, sg, c), Last(bs).split,
           NEW t \in Seq(Instr), NEW m \in Nat, Len(sg) <= m,
           \A k \in DOMAIN t : Fits(t[k], sg[c], m) /\ t[k].op \notin AllKinds,
           Ended(t) \/ (t = <<>> /\ Last(bs).exited)
    PROVE  Rest(bs, Grown(sg, c, t), m)
<1> DEFINE g == Grown(sg, c, t)
<1>1. /\ bs \in Seq(Body) /\ bs # <<>> /\ sg \in Seq(Seq(Instr)) /\ c \in DOMAIN sg
      /\ Lists(bs, sg, c) /\ AllGood(sg) /\ 0 \notin DOMAIN sg
  BY DEF Shape, Lists
<1>2. \A i \in DOMAIN bs : bs[i].split
  BY <1>1, AllSplit DEF Shape, Last
<1>3. /\ g \in Seq(Seq(Instr)) /\ DOMAIN g = DOMAIN sg
      /\ sg[c] \in Seq(Instr) /\ g[c] = sg[c] \o t
  BY <1>1, GrownIs
<1>4. GoodFor(g, m)
  BY <1>1, GrownGood
<1>5. Places(bs, g, c) /\ OthersWhole(bs, g, c) /\ CurrentOpen(bs, g, c)
  BY <1>1, GrownPlaces, GrownOthers, GrownOpen DEF Shape
<1>6. Ended(g[c])
  <2>1. CASE Ended(t)
    BY <1>1, <2>1, GrownEnded
  <2>2. CASE t = <<>> /\ Last(bs).exited
    <3>1. Ended(sg[c])
      BY <2>2 DEF Shape, ExitEnds, Last
    <3>2. g[c] = sg[c]
      <4> HIDE DEF g
      <4> QED BY <1>3, <2>2
    <3> QED BY <3>1, <3>2
  <2> QED BY <2>1, <2>2
<1> HIDE DEF g
<1>7. Whole(g[c])
  BY <1>2, <1>5, <1>6 DEF CurrentOpen, Whole
<1>8. OthersWhole(bs, g, 0)
  BY <1>5, <1>7 DEF OthersWhole
<1>9. Places(bs, g, 0)
  <2>1. ASSUME NEW i \in DOMAIN bs, i > 1 PROVE SplitPlaces(bs[i], g, 0)
    BY <1>1, <1>2, <1>3, <1>5, <2>1 DEF Places, SplitPlaces
  <2> QED BY <1>2, <2>1 DEF Places
<1> QED BY <1>1, <1>2, <1>3, <1>4, <1>8, <1>9 DEF Rest, Shape, g

(* After a suspension the same bodies go on in a new segment.                *)
LEMMA Resumed ==
    ASSUME NEW bs, NEW sg, Rest(bs, sg, Len(sg) + 1), ~Last(bs).exited,
           NEW s \in Seq(Instr), Good(s, Len(sg) + 1),
           \A j \in DOMAIN s : s[j].op \notin AllKinds
    PROVE  Shape(bs, Append(sg, s), Len(sg) + 1)
<1> DEFINE g == Append(sg, s)
           c == Len(sg) + 1
<1>1. bs \in Seq(Body) /\ bs # <<>> /\ sg \in Seq(Seq(Instr)) /\ \A i \in DOMAIN bs : bs[i].split
  BY DEF Rest
<1>2. /\ g \in Seq(Seq(Instr)) /\ Len(g) = c /\ g[c] = s /\ c \in DOMAIN g
      /\ \A n \in DOMAIN sg : n \in DOMAIN g /\ g[n] = sg[n] /\ n # c
      /\ \A n \in DOMAIN g : n \in DOMAIN sg \/ n = c
  BY <1>1
<1> HIDE DEF g, c
<1>3. AllGood(g)
  BY <1>2 DEF Rest, AllGood, GoodFor, c
<1>4. Places(bs, g, c)
  <2>1. ASSUME NEW i \in DOMAIN bs, i > 1 PROVE SplitPlaces(bs[i], g, c)
    BY <1>1, <1>2, <2>1 DEF Rest, Places, SplitPlaces
  <2> QED BY <1>1, <2>1 DEF Places
<1>5. OthersWhole(bs, g, c)
  <2>1. \A n \in DOMAIN sg : n # 0
    BY <1>1
  <2>2. \A n \in DOMAIN sg :
            Whole(sg[n]) \/ \E i \in DOMAIN bs : bs[i].split /\ n \in Pending(bs[i])
    BY <2>1 DEF Rest, OthersWhole
  <2> QED BY <1>2, <2>2 DEF OthersWhole
<1>6. CurrentOpen(bs, g, c)
  BY <1>2 DEF CurrentOpen
<1>7. Lists(bs, g, c) /\ ExitEnds(bs, g, c)
  BY <1>1, <1>2 DEF Lists, ExitEnds, Last
<1> QED BY <1>3, <1>4, <1>5, <1>6, <1>7 DEF Shape, Rest, g, c

(* The innermost body's own places, and those of the bodies around it, when  *)
(* it is the one to be filled at c.                                          *)
LEMMA OthersStay ==
    ASSUME NEW bs, NEW sg, NEW m, Rest(bs, sg, m), NEW c \in Pending(bs[Len(bs)]),
           NEW i \in DOMAIN bs, 1 < i, i < Len(bs)
    PROVE  SplitPlaces(bs[i], sg, c)
<1>1. bs \in Seq(Body) /\ Len(bs) \in DOMAIN bs /\ i # Len(bs)
  BY DEF Rest
<1>2. Pending(bs[i]) \cap Pending(bs[Len(bs)]) = {}
  BY <1>1 DEF Rest, Apart
<1> QED BY <1>2 DEF Rest, Places, SplitPlaces

(* The else of a branch: the innermost body goes on in its segment alt.      *)
LEMMA ElseOpened ==
    ASSUME NEW bs, NEW sg, Rest(bs, sg, Len(sg)), Len(bs) > 1, Last(bs).alt # 0,
           NEW b \in Body, b.kind = Last(bs).kind, b.split,
           b.head = Last(bs).head, b.alt = 0, b.next = Last(bs).next, ~b.exited
    PROVE  Shape(Append(Front(bs), b), sg, Last(bs).alt)
<1> DEFINE n == Append(Front(bs), b)
           o == bs[Len(bs)]
           c == o.alt
<1>1. /\ bs \in Seq(Body) /\ bs # <<>> /\ sg \in Seq(Seq(Instr)) /\ Len(bs) \in DOMAIN bs
      /\ \A i \in DOMAIN bs : bs[i].split
      /\ Last(bs) = o
  BY DEF Rest, Last
<1>2. /\ n \in Seq(Body) /\ Len(n) = Len(bs) /\ DOMAIN n = DOMAIN bs /\ n # <<>>
      /\ n[Len(bs)] = b /\ \A i \in DOMAIN bs : i < Len(bs) => n[i] = bs[i]
  BY <1>1, Retopped
<1>3. \A i \in DOMAIN bs : i = Len(bs) \/ (i < Len(bs) /\ i # Len(bs))
  BY <1>1
<1>4. SplitPlaces(o, sg, 0) /\ c \in Pending(o)
  BY <1>1 DEF Rest, Places, Pending
<1>5. Pending(b) \subseteq Pending(o) /\ Pending(o) = Pending(b) \cup {c} /\ c \notin Pending(b)
  BY <1>1, <1>4 DEF Pending, SplitPlaces
<1>6. c \in DOMAIN sg /\ sg[c] = <<>>
  BY <1>4 DEF SplitPlaces
<1> HIDE DEF n
<1>7. Nested(n)
  <2>1. 1 \in DOMAIN bs /\ 1 < Len(bs)
    BY <1>1
  <2>2. n[1] = bs[1]
    BY <2>1, <1>2
  <2>3. \A i \in DOMAIN n : n[i].split
    BY <1>1, <1>2, <1>3
  <2> QED BY <1>1, <1>2, <1>3, <2>2, <2>3 DEF Rest, Nested
<1>8. Apart(n)
  <2>1. \A i \in DOMAIN n : Pending(n[i]) \subseteq Pending(bs[i])
    BY <1>1, <1>2, <1>3, <1>5
  <2>2. \A i, j \in DOMAIN bs : i # j => Pending(bs[i]) \cap Pending(bs[j]) = {}
    BY <1>1 DEF Rest, Apart
  <2> QED BY <1>2, <2>1, <2>2 DEF Apart
<1>9. HasInnermost(n)
  <2>1. ASSUME NEW k \in DOMAIN n
        PROVE  \/ \A i \in 1 .. k : n[i].kind \notin Loops
               \/ \E m \in 1 .. k : /\ n[m].kind \in Loops
                                    /\ \A i \in 1 .. k : n[i].kind \in Loops => i <= m
    <3>1. \A i \in 1 .. k : i \in DOMAIN bs
      BY <1>1, <1>2
    <3>2. \A i \in 1 .. k : n[i].kind = bs[i].kind
      BY <3>1, <1>1, <1>2, <1>3
    <3> QED BY <3>2, <1>2 DEF Rest, HasInnermost
  <2> QED BY <2>1 DEF HasInnermost
<1>10. Places(n, sg, c)
  <2>1. SplitPlaces(b, sg, c)
    BY <1>1, <1>4, <1>5 DEF SplitPlaces, Pending
  <2>2. ASSUME NEW i \in DOMAIN n, i > 1 PROVE SplitPlaces(n[i], sg, c)
    <3>1. CASE i = Len(bs)
      BY <2>1, <1>2, <3>1
    <3>2. CASE i < Len(bs)
      <4>1. SplitPlaces(bs[i], sg, c)
        BY <1>2, <1>4, <2>2, <3>2, OthersStay
      <4> QED BY <4>1, <1>2, <3>2
    <3> QED BY <1>2, <1>3, <3>1, <3>2
  <2>3. \A i \in DOMAIN n : n[i].split
    BY <1>1, <1>2, <1>3
  <2> QED BY <2>2, <2>3 DEF Places
<1>11. OthersWhole(n, sg, c)
  <2>1. ASSUME NEW s \in DOMAIN sg, NEW i \in DOMAIN bs, s \in Pending(bs[i]), s # c
        PROVE  \E k \in DOMAIN n : n[k].split /\ s \in Pending(n[k])
    <3>1. CASE i = Len(bs)
      BY <2>1, <1>2, <1>5, <3>1
    <3>2. CASE i < Len(bs)
      BY <2>1, <1>1, <1>2, <3>2
    <3> QED BY <1>3, <3>1, <3>2
  <2>2. \A s \in DOMAIN sg : s # 0
    BY <1>1
  <2> QED BY <2>1, <2>2 DEF Rest, OthersWhole
<1>12. CurrentOpen(n, sg, c) /\ ExitEnds(n, sg, c) /\ Lists(n, sg, c)
  BY <1>1, <1>2, <1>6 DEF CurrentOpen, ExitEnds, Lists
<1>13. AllGood(sg)
  BY DEF Rest, AllGood, GoodFor
<1> QED BY <1>1, <1>7, <1>8, <1>9, <1>10, <1>11, <1>12, <1>13 DEF Shape, n

(* A split body is left for its segment next; the segment of an else that    *)
(* never came is filled.                                                     *)
LEMMA SplitClosed ==
    ASSUME NEW bs, NEW sg, Rest(bs, sg, Len(sg)), Len(bs) > 1,
           NEW sg2 \in Seq(Seq(Instr)), Len(sg2) = Len(sg),
           \A s \in DOMAIN sg : IF s = Last(bs).alt
                                THEN Whole(sg2[s]) /\ Good(sg2[s], Len(sg))
                                ELSE sg2[s] = sg[s]
    PROVE  Shape(Front(bs), sg2, Last(bs).next)
<1> DEFINE n == Front(bs)
           o == bs[Len(bs)]
           c == o.next
<1>1. /\ bs \in Seq(Body) /\ bs # <<>> /\ sg \in Seq(Seq(Instr)) /\ Len(bs) \in DOMAIN bs
      /\ \A i \in DOMAIN bs : bs[i].split
      /\ Last(bs) = o /\ DOMAIN sg2 = DOMAIN sg
      /\ \A s \in DOMAIN sg : s # 0
  BY DEF Rest, Last
<1>2. /\ n \in Seq(Body) /\ n # <<>> /\ Len(n) = Len(bs) - 1
      /\ DOMAIN n = DOMAIN bs \ {Len(bs)}
      /\ \A i \in DOMAIN n : n[i] = bs[i]
      /\ Nested(n) /\ Apart(n) /\ HasInnermost(n) /\ ~n[Len(n)].exited
  BY <1>1, PoppedBodies DEF Rest
<1>3. SplitPlaces(o, sg, 0)
  BY <1>1 DEF Rest, Places
<1>4. /\ c \in Pending(o) /\ c # o.alt /\ Pending(o) \subseteq {c, o.alt}
      /\ c \in DOMAIN sg /\ sg2[c] = <<>>
  BY <1>1, <1>3 DEF SplitPlaces, Pending
<1> HIDE DEF n
<1>5. Places(n, sg2, c)
  <2>1. ASSUME NEW i \in DOMAIN n, i > 1 PROVE SplitPlaces(n[i], sg2, c)
    <3>1. i \in DOMAIN bs /\ i < Len(bs) /\ n[i] = bs[i] /\ i # Len(bs)
      BY <1>1, <1>2
    <3>2. SplitPlaces(bs[i], sg, c)
      BY <1>4, <2>1, <3>1, OthersStay
    <3>3. Pending(bs[i]) \cap Pending(o) = {}
      BY <1>1, <3>1 DEF Rest, Apart
    <3>4. \A s \in Pending(bs[i]) : s # o.alt /\ s \in DOMAIN sg /\ sg2[s] = sg[s]
      BY <1>1, <3>2, <3>3 DEF SplitPlaces, Pending
    <3> QED BY <1>1, <3>1, <3>2, <3>4 DEF SplitPlaces
  <2> QED BY <1>1, <1>2, <2>1 DEF Places
<1>6. OthersWhole(n, sg2, c)
  <2>1. ASSUME NEW s \in DOMAIN sg, NEW i \in DOMAIN bs, s \in Pending(bs[i]),
               s # c, s # o.alt
        PROVE  \E k \in DOMAIN n : n[k].split /\ s \in Pending(n[k])
    <3>1. i # Len(bs)
      BY <1>4, <2>1
    <3> QED BY <1>1, <1>2, <2>1, <3>1
  <2>2. \A s \in DOMAIN sg :
            Whole(sg[s]) \/ \E i \in DOMAIN bs : s \in Pending(bs[i])
    BY <1>1 DEF Rest, OthersWhole
  <2> QED BY <1>1, <2>1, <2>2, ZenonT(60) DEF OthersWhole
<1>7. CurrentOpen(n, sg2, c) /\ ExitEnds(n, sg2, c) /\ Lists(n, sg2, c)
  <2>1. DOMAIN sg2[c] = {}
    BY <1>4
  <2>2. c \in DOMAIN sg2
    BY <1>1, <1>4
  <2> HIDE DEF c, o
  <2>3. CurrentOpen(n, sg2, c)
    BY <2>1 DEF CurrentOpen
  <2> QED BY <1>2, <2>2, <2>3 DEF ExitEnds, Lists
<1>8. AllGood(sg2)
  BY <1>1 DEF Rest, AllGood, GoodFor
<1> QED BY <1>1, <1>2, <1>5, <1>6, <1>7, <1>8 DEF Shape, n

(* A branch or a loop is opened: its body b goes on in segment c, the other  *)
(* new segments are whole or wait for b.                                     *)
LEMMA SplitOpened ==
    ASSUME NEW bs, NEW sg, NEW more \in Seq(Seq(Instr)),
           Rest(bs, sg, Len(sg) + Len(more)), ~Last(bs).exited,
           NEW c \in Len(sg) + 1 .. Len(sg) + Len(more),
           NEW b \in Body, b.kind \in AllKinds, b.split, ~b.exited,
           SplitPlaces(b, sg \o more, c),
           \A s \in Pending(b) : s > Len(sg),
           \A k \in DOMAIN more :
              /\ Good(more[k], Len(sg) + Len(more))
              /\ IF Len(sg) + k = c THEN more[k] = <<>>
                 ELSE Len(sg) + k \in Pending(b) \/ Whole(more[k])
    PROVE  Shape(Append(bs, b), sg \o more, c)
<1> DEFINE n == Append(bs, b)
           g == sg \o more
<1>1. /\ bs \in Seq(Body) /\ bs # <<>> /\ sg \in Seq(Seq(Instr)) /\ Len(bs) \in DOMAIN bs
      /\ \A i \in DOMAIN bs : bs[i].split
      /\ \A s \in DOMAIN sg : s # 0 /\ s <= Len(sg)
      /\ Len(sg) \in Nat /\ Len(more) \in Nat
  BY DEF Rest
<1>2. /\ g \in Seq(Seq(Instr)) /\ Len(g) = Len(sg) + Len(more)
      /\ \A s \in DOMAIN sg : s \in DOMAIN g /\ g[s] = sg[s]
      /\ \A k \in DOMAIN more : k + Len(sg) \in DOMAIN g /\ g[k + Len(sg)] = more[k]
      /\ \A s \in DOMAIN g : s \in DOMAIN sg \/ \E k \in DOMAIN more : s = k + Len(sg)
  BY <1>1, Glue, SMTT(60)
<1>3. \A k \in DOMAIN more : k + Len(sg) = Len(sg) + k
  BY <1>1
<1>4. c \in DOMAIN g /\ c \notin DOMAIN sg
  <2> HIDE DEF g
  <2> QED BY <1>1, <1>2
<1> HIDE DEF g
<1>5. ASSUME NEW i \in DOMAIN bs, i > 1 PROVE SplitPlaces(bs[i], g, c)
  BY <1>1, <1>2, <1>4, <1>5, ZenonT(60) DEF Rest, Places, SplitPlaces
<1>6. ASSUME NEW i \in DOMAIN bs PROVE Pending(b) \cap Pending(bs[i]) = {}
  <2>1. CASE i > 1
    <3>1. \A s \in Pending(bs[i]) : s \in DOMAIN sg
      BY <1>1, <1>6, <2>1 DEF Rest, Places, SplitPlaces
    <3>2. \A s \in DOMAIN sg : ~(s > Len(sg))
      BY <1>1
    <3> QED BY <3>1, <3>2
  <2>2. CASE i = 1
    BY <2>2 DEF Rest, Nested
  <2> QED BY <1>1, <2>1, <2>2
<1>7. n \in Seq(Body) /\ n # <<>> /\ Nested(n) /\ Apart(n) /\ HasInnermost(n)
  BY <1>1, <1>6, PushedBodies DEF Rest, Last
<1>8. /\ n[Len(n)] = b /\ Len(n) \in DOMAIN n
      /\ \A i \in DOMAIN bs : n[i] = bs[i] /\ i \in DOMAIN n
      /\ \A i \in DOMAIN n : i \in DOMAIN bs \/ n[i] = b
  BY <1>1
<1> HIDE DEF n
<1>9. Places(n, g, c)
  <2>1. ASSUME NEW i \in DOMAIN n, i > 1 PROVE SplitPlaces(n[i], g, c)
    BY <1>5, <1>8, <2>1 DEF g
  <2>2. \A i \in DOMAIN n : n[i].split
    BY <1>1, <1>8
  <2> QED BY <2>1, <2>2 DEF Places
<1>10. OthersWhole(n, g, c)
  <2>1. \A s \in DOMAIN sg :
            Whole(sg[s]) \/ \E i \in DOMAIN bs : bs[i].split /\ s \in Pending(bs[i])
    BY <1>1 DEF Rest, OthersWhole
  <2>2. \A s \in DOMAIN sg :
            Whole(g[s]) \/ \E i \in DOMAIN n : n[i].split /\ s \in Pending(n[i])
    BY <2>1, <1>2, <1>8
  <2>3. ASSUME NEW k \in DOMAIN more
        PROVE  \/ k + Len(sg) = c \/ Whole(g[k + Len(sg)])
               \/ \E i \in DOMAIN n : n[i].split /\ k + Len(sg) \in Pending(n[i])
    BY <1>2, <1>3, <1>8
  <2> QED BY <1>2, <2>2, <2>3, ZenonT(60) DEF OthersWhole
<1>11. g[c] = <<>>
  <2>1. PICK k \in DOMAIN more : c = k + Len(sg)
    BY <1>2, <1>4
  <2> QED BY <2>1, <1>2, <1>3
<1>12. CurrentOpen(n, g, c)
  BY <1>11 DEF CurrentOpen
<1>13. ExitEnds(n, g, c) /\ Lists(n, g, c)
  BY <1>2, <1>4, <1>7, <1>8 DEF ExitEnds, Lists
<1>14. AllGood(g)
  <2>1. \A s \in DOMAIN sg : Good(g[s], Len(g))
    BY <1>2 DEF Rest, GoodFor
  <2>2. \A k \in DOMAIN more : Good(g[k + Len(sg)], Len(g))
    BY <1>2
  <2> QED BY <1>2, <2>1, <2>2 DEF AllGood
<1> QED BY <1>7, <1>9, <1>10, <1>12, <1>13, <1>14 DEF Shape, n, g

(* A block opens no segment of its own: it goes on in the current one, and a *)
(* new one waits for its end.                                                *)
LEMMA BlockOpened ==
    ASSUME NEW bs, NEW sg, NEW c, Shape(bs, sg, c), Last(bs).split, ~Last(bs).exited,
           NEW b \in Body, b.kind = "block", b.split, ~b.exited,
           b.next = Len(sg) + 1, b.alt = 0,
           NEW more, more = <<<<>>>>
    PROVE  Shape(Append(bs, b), sg \o more, c)
<1> DEFINE n == Append(bs, b)
           g == sg \o more
<1>1. /\ bs \in Seq(Body) /\ bs # <<>> /\ sg \in Seq(Seq(Instr)) /\ c \in DOMAIN sg
      /\ Len(bs) \in DOMAIN bs /\ Len(sg) \in Nat
      /\ \A s \in DOMAIN sg : s <= Len(sg)
  BY DEF Shape, Lists
<1>2. \A i \in DOMAIN bs : bs[i].split
  BY <1>1, AllSplit DEF Shape, Last
<1>3. /\ more \in Seq(Seq(Instr)) /\ DOMAIN more = {1} /\ more[1] = <<>> /\ Len(more) = 1
  OBVIOUS
<1>4. /\ g \in Seq(Seq(Instr)) /\ Len(g) = Len(sg) + 1
      /\ \A s \in DOMAIN sg : s \in DOMAIN g /\ g[s] = sg[s]
      /\ \A s \in DOMAIN g : s \in DOMAIN sg \/ s = 1 + Len(sg)
      /\ 1 + Len(sg) \in DOMAIN g /\ g[1 + Len(sg)] = <<>>
  <2>1. /\ g \in Seq(Seq(Instr)) /\ Len(g) = Len(sg) + Len(more)
        /\ DOMAIN sg \subseteq DOMAIN g /\ \A s \in DOMAIN sg : g[s] = sg[s]
        /\ \A k \in DOMAIN more : k + Len(sg) \in DOMAIN g /\ g[k + Len(sg)] = more[k]
        /\ \A s \in DOMAIN g : s \in DOMAIN sg \/ \E k \in DOMAIN more : s = k + Len(sg)
    BY <1>1, <1>3, Glue
  <2> HIDE DEF g
  <2> QED BY <2>1, <1>3
<1>5. b.next = 1 + Len(sg) /\ b.next \notin DOMAIN sg /\ Pending(b) = {b.next}
        /\ b.next # b.alt /\ b.next # c
  <2>1. b.next = 1 + Len(sg) /\ b.next # 0
    BY <1>1
  <2>2. b.next \notin DOMAIN sg
    BY <1>1, <2>1
  <2> QED BY <1>1, <2>1, <2>2 DEF Pending
<1> HIDE DEF g
<1>6. ASSUME NEW i \in DOMAIN bs, i > 1 PROVE SplitPlaces(bs[i], g, c)
  BY <1>1, <1>2, <1>4, <1>6 DEF Shape, Places, SplitPlaces
<1>7. ASSUME NEW i \in DOMAIN bs PROVE Pending(b) \cap Pending(bs[i]) = {}
  <2>1. CASE i > 1
    <3>1. SplitPlaces(bs[i], sg, c)
      BY <1>2, <2>1 DEF Shape, Places
    <3> QED BY <1>5, <3>1 DEF SplitPlaces
  <2>2. CASE i = 1
    BY <2>2 DEF Shape, Nested
  <2> QED BY <1>1, <2>1, <2>2
<1>8. n \in Seq(Body) /\ n # <<>> /\ Nested(n) /\ Apart(n) /\ HasInnermost(n)
  BY <1>1, <1>2, <1>7, PushedBodies DEF Shape, Last, AllKinds
<1>9. /\ n[Len(n)] = b /\ Len(n) \in DOMAIN n
      /\ \A i \in DOMAIN bs : n[i] = bs[i] /\ i \in DOMAIN n
      /\ \A i \in DOMAIN n : i \in DOMAIN bs \/ n[i] = b
  BY <1>1
<1> HIDE DEF n
<1>10. Places(n, g, c)
  <2>1. SplitPlaces(b, g, c)
    BY <1>4, <1>5 DEF SplitPlaces
  <2>2. ASSUME NEW i \in DOMAIN n, i > 1 PROVE SplitPlaces(n[i], g, c)
    BY <1>6, <1>9, <2>1, <2>2
  <2>3. \A i \in DOMAIN n : n[i].split
    BY <1>2, <1>9
  <2> QED BY <2>2, <2>3 DEF Places
<1>11. OthersWhole(n, g, c)
  <2>1. \A s \in DOMAIN sg :
            s = c \/ Whole(g[s]) \/ \E i \in DOMAIN n : n[i].split /\ s \in Pending(n[i])
    BY <1>4, <1>9 DEF Shape, OthersWhole
  <2>2. n[Len(n)].split /\ 1 + Len(sg) \in Pending(n[Len(n)])
    BY <1>5, <1>9
  <2> QED BY <1>4, <1>9, <2>1, <2>2 DEF OthersWhole
<1>12. CurrentOpen(n, g, c)
  <2>1. \A j \in DOMAIN sg[c] : sg[c][j].op \in AllKinds => Closed(sg[c], j)
    BY <1>2 DEF Shape, CurrentOpen
  <2> QED BY <1>1, <1>4, <2>1 DEF CurrentOpen
<1>13. ExitEnds(n, g, c) /\ Lists(n, g, c)
  BY <1>1, <1>4, <1>8, <1>9 DEF ExitEnds, Lists
<1>14. AllGood(g)
  <2>1. \A s \in DOMAIN sg : Good(sg[s], Len(g))
    BY <1>1, <1>4, GoodMore DEF Shape, AllGood
  <2>2. Good(g[1 + Len(sg)], Len(g))
    BY <1>4 DEF Good
  <2> QED BY <1>4, <2>1, <2>2 DEF AllGood
<1> QED BY <1>8, <1>10, <1>11, <1>12, <1>13, <1>14 DEF Shape, n, g

(* The function's own body is left: the code is sealed.                      *)
LEMMA RestSeals ==
    ASSUME NEW bs, NEW sg, Rest(bs, sg, Len(sg) + 1), Len(bs) = 1,
           NEW s \in Seq(Instr), Whole(s), Good(s, Len(sg) + 1)
    PROVE  Sealed(Append(sg, s))
<1> DEFINE g == Append(sg, s)
<1>1. bs \in Seq(Body) /\ DOMAIN bs = {1} /\ sg \in Seq(Seq(Instr))
  BY DEF Rest
<1>2. /\ g \in Seq(Seq(Instr)) /\ g # <<>> /\ Len(g) = Len(sg) + 1
      /\ \A n \in DOMAIN sg : n # 0
      /\ \A n \in DOMAIN g : (n \in DOMAIN sg /\ g[n] = sg[n]) \/ g[n] = s
  <2>1. g \in Seq(Seq(Instr)) /\ Len(g) = Len(sg) + 1 /\ Len(sg) \in Nat
    BY <1>1
  <2>2. \A n \in DOMAIN g : (n \in DOMAIN sg /\ g[n] = sg[n]) \/ g[n] = s
    BY <1>1, AppendProperties
  <2>3. g # <<>> /\ \A n \in DOMAIN sg : n # 0
    <3> HIDE DEF g
    <3> QED BY <1>1, <2>1
  <2> QED BY <2>1, <2>2, <2>3
<1>3. \A n \in DOMAIN sg : Whole(sg[n])
  BY <1>1, <1>2 DEF Rest, OthersWhole, Nested
<1> HIDE DEF g
<1>4. AllGood(g)
  BY <1>2 DEF AllGood, Rest, GoodFor
<1> QED BY <1>2, <1>3, <1>4 DEF Sealed, g

-----------------------------------------------------------------------------
(* The actions of the splitter. *)

Ready == Shape(bodies, segs, cur) /\ code \in Seq(Stmt)

Ops == {"new", "use", "move", "take", "spawn", "goto", "branch", "finish", "return", "close"}
          \cup Calls \cup Jumps \cup AllKinds

LEMMA HereIs ==
    ASSUME code \in Seq(Stmt) PROVE Here \in Nat /\ Here + 1 \in Nat
  BY DEF Here

LEMMA Nameless ==
    ASSUME code \in Seq(Stmt), NEW op \in Ops, NEW to \in Nat
    PROVE  LET i == I(op, "", to) IN
           i \in Instr /\ i.op = op /\ i.name = "" /\ i.to = to
  BY HereIs DEF I, Instr, Ops

LEMMA VisibleIs ==
    ASSUME code \in Seq(Stmt), NEW i \in Instr
    PROVE  LET v == Visible(i) IN
           /\ v \in Instr /\ v.op = i.op /\ v.name = i.name
           /\ v.to = i.to /\ v.other = i.other
  BY DEF Visible, Instr

(* Instructions that lead nowhere always fit.                                *)
LEMMA FitsAnywhere ==
    ASSUME NEW i, NEW s, NEW n, i.op \notin {"goto", "branch", "close", "return"},
           i.op \notin Calls, i.op \notin Jumps
    PROVE  Fits(i, s, n)
  BY DEF Fits, Transfers

LEMMA Statements ==
    ASSUME NEW s \in Stmt, code \in Seq(Stmt)
    PROVE  code \o <<s>> \in Seq(Stmt) /\ Append(code, s) \in Seq(Stmt)
  OBVIOUS

LEMMA TopIs ==
    ASSUME Shape(bodies, segs, cur)
    PROVE  /\ Top = bodies[Len(bodies)] /\ Top = Last(bodies) /\ Top \in Body
           /\ Len(bodies) \in DOMAIN bodies
           /\ bodies \in Seq(Body) /\ segs \in Seq(Seq(Instr)) /\ cur \in DOMAIN segs
           /\ segs[cur] \in Seq(Instr)
  BY DEF Shape, Lists, Top, Last

LEMMA ExtendedGrows ==
    ASSUME NEW t PROVE Extended(t) = Grown(segs, cur, t)
  BY DEF Extended, Grown

(* A statement of which the bodies take no notice.                           *)
LEMMA StatementShapes ==
    ASSUME Ready, ~Top.exited, NEW i \in Instr,
           i.op \notin {"goto", "branch", "close", "return"},
           i.op \notin Calls, i.op \notin Jumps, i.op \notin AllKinds
    PROVE  Shape(bodies, Extended(<<Visible(i)>>), cur)
<1>1. Visible(i) \in Instr /\ Visible(i).op = i.op
  BY VisibleIs DEF Ready
<1>2. Fits(Visible(i), segs[cur], Len(segs))
  BY <1>1, FitsAnywhere
<1> QED BY <1>1, <1>2, StraightOn, TopIs, ExtendedGrows DEF Ready

LEMMA NewShapes ==
    ASSUME Ready, New PROVE Ready'
<1>1. PICK name \in Locals :
        /\ ~Top.exited
        /\ Write(bodies, <<S("new", name, 0)>>,
                 Extended(<<Visible(I("new", name, 0))>>), cur)
  BY DEF New, Writing
<1> DEFINE i == I("new", name, 0)
<1>2. i \in Instr /\ i.op = "new"
  <2>1. "new" \in Ops /\ name \in Names \cup {""} /\ 0 \in Nat
    BY <1>1 DEF Ops, Names
  <2> QED BY <2>1, HereIs DEF I, Instr, Ops, Ready
<1>3. Shape(bodies, Extended(<<Visible(i)>>), cur)
  <2> HIDE DEF i
  <2> QED BY <1>1, <1>2, StatementShapes DEF Calls, Jumps, AllKinds, Loops
<1>4. S("new", name, 0) \in Stmt
  BY <1>1 DEF S, Stmt, Names
<1> QED BY <1>1, <1>3, <1>4, Statements DEF Write, Ready

LEMMA UseShapes ==
    ASSUME Ready, Use PROVE Ready'
<1>1. PICK name \in Names :
        /\ ~Top.exited
        /\ Write(bodies, <<S("use", name, 0)>>,
                 Extended(<<Visible(I("use", name, 0))>>), cur)
  BY DEF Use, Writing, Names
<1> DEFINE i == I("use", name, 0)
<1>2. i \in Instr /\ i.op = "use"
  <2>1. "use" \in Ops /\ name \in Names \cup {""} /\ 0 \in Nat
    BY <1>1 DEF Ops, Names
  <2> QED BY <2>1, HereIs DEF I, Instr, Ops, Ready
<1>3. Shape(bodies, Extended(<<Visible(i)>>), cur)
  <2> HIDE DEF i
  <2> QED BY <1>1, <1>2, StatementShapes DEF Calls, Jumps, AllKinds, Loops
<1>4. S("use", name, 0) \in Stmt
  BY <1>1 DEF S, Stmt
<1> QED BY <1>1, <1>3, <1>4, Statements DEF Write, Ready

LEMMA MoveShapes ==
    ASSUME Ready, Move PROVE Ready'
<1> DEFINE i == I("move", "chan", 0)
<1>1. ~Top.exited /\ Write(bodies, <<S("move", "chan", 0)>>, Extended(<<Visible(i)>>), cur)
  BY DEF Move, Writing
<1>2. i \in Instr /\ i.op = "move"
  BY HereIs DEF I, Instr, Names, Locals, Ready
<1>3. Shape(bodies, Extended(<<Visible(i)>>), cur)
  <2> HIDE DEF i
  <2> QED BY <1>1, <1>2, StatementShapes DEF Calls, Jumps, AllKinds, Loops
<1>4. S("move", "chan", 0) \in Stmt
  BY DEF S, Stmt, Names, Locals
<1> QED BY <1>1, <1>3, <1>4, Statements DEF Write, Ready

LEMMA SpawnShapes ==
    ASSUME Ready, Spawn PROVE Ready'
<1> DEFINE i == I("spawn", "", 0)
<1>1. ~Top.exited /\ Write(bodies, <<S("spawn", "", 0)>>, Extended(<<Visible(i)>>), cur)
  BY DEF Spawn, Writing
<1>2. i \in Instr /\ i.op = "spawn"
  BY HereIs DEF I, Instr, Ready
<1>3. Shape(bodies, Extended(<<Visible(i)>>), cur)
  <2> HIDE DEF i
  <2> QED BY <1>1, <1>2, StatementShapes DEF Calls, Jumps, AllKinds, Loops
<1>4. S("spawn", "", 0) \in Stmt
  BY DEF S, Stmt
<1> QED BY <1>1, <1>3, <1>4, Statements DEF Write, Ready

(* A statement that jumps, in the innermost body.                            *)
LEMMA ExitShapes ==
    ASSUME Ready, ~Top.exited, NEW e \in Instr, Fits(e, segs[cur], Len(segs)),
           e.op \notin AllKinds, Top.split => e.op \in Terminal
    PROVE  Shape(WithTop([Top EXCEPT !.exited = TRUE]), Extended(<<e>>), cur)
<1> DEFINE b == [Top EXCEPT !.exited = TRUE]
<1>1. /\ b \in Body /\ b.kind = Top.kind /\ b.split = Top.split /\ b.open = Top.open
      /\ b.head = Top.head /\ b.alt = Top.alt /\ b.next = Top.next
  BY TopIs DEF Ready, Body
<1> HIDE DEF b
<1>2. Shape(Append(Front(bodies), b), Grown(segs, cur, <<e>>), cur)
  BY <1>1, TopIs, Straight DEF Ready
<1> QED BY <1>2, ExtendedGrows DEF WithTop, b

LEMMA ReturnShapes ==
    ASSUME Ready, Return PROVE Ready'
<1> DEFINE i == I(IF Top.split THEN "finish" ELSE "return", "", 0)
<1>1. /\ ~Top.exited /\ (~Top.split => "plain-return" \in Shapes)
      /\ Write(WithTop([Top EXCEPT !.exited = TRUE]), <<S("return", "", 0)>>,
               Extended(<<Visible(i)>>), cur)
  BY DEF Return, Writing
<1>2. i \in Instr /\ i.op = IF Top.split THEN "finish" ELSE "return"
  <2>1. "finish" \in Ops /\ "return" \in Ops /\ 0 \in Nat
    BY DEF Ops
  <2>c. code \in Seq(Stmt)
    BY DEF Ready
  <2>2. CASE Top.split
    <3>1. i = I("finish", "", 0)
      BY <2>2
    <3>2. I("finish", "", 0) \in Instr /\ I("finish", "", 0).op = "finish"
      BY <2>1, <2>c, Nameless
    <3> QED BY <2>2, <3>1, <3>2
  <2>3. CASE ~Top.split
    <3>1. i = I("return", "", 0)
      BY <2>3
    <3>2. I("return", "", 0) \in Instr /\ I("return", "", 0).op = "return"
      BY <2>1, <2>c, Nameless
    <3> QED BY <2>3, <3>1, <3>2
  <2> QED BY <2>2, <2>3
<1> HIDE DEF i
<1>3. Visible(i) \in Instr /\ Visible(i).op = i.op
  BY <1>2, VisibleIs DEF Ready
<1>4. Fits(Visible(i), segs[cur], Len(segs))
  BY <1>1, <1>2, <1>3 DEF Fits, Transfers, Calls, Jumps
<1>5. Shape(WithTop([Top EXCEPT !.exited = TRUE]), Extended(<<Visible(i)>>), cur)
  BY <1>1, <1>2, <1>3, <1>4, ExitShapes DEF Terminal, AllKinds, Loops
<1>6. S("return", "", 0) \in Stmt
  BY DEF S, Stmt
<1> QED BY <1>1, <1>5, <1>6, Statements DEF Write, Ready

(* The loop a jump goes to.                                                  *)
LEMMA InnermostIs ==
    ASSUME Shape(bodies, segs, cur), LoopBodies # {}
    PROVE  \E k \in DOMAIN bodies :
              Innermost = bodies[k] /\ k > 1 /\ bodies[k].kind \in Loops
<1>1. /\ bodies \in Seq(Body) /\ Len(bodies) \in DOMAIN bodies
      /\ DOMAIN bodies = 1 .. Len(bodies)
  BY TopIs
<1>2. \E m \in LoopBodies : \A i \in LoopBodies : i <= m
  BY <1>1 DEF Shape, HasInnermost, LoopBodies
<1> DEFINE k == CHOOSE i \in LoopBodies : \A j \in LoopBodies : j <= i
<1>3. k \in LoopBodies
  BY <1>2
<1>4. k \in DOMAIN bodies /\ bodies[k].kind \in Loops /\ Innermost = bodies[k]
  BY <1>3 DEF LoopBodies, Innermost
<1> HIDE DEF k
<1>5. k # 1
  BY <1>4 DEF Shape, Nested, Loops
<1> QED BY <1>1, <1>4, <1>5

LEMMA BreakOrContinueShapes ==
    ASSUME Ready, BreakOrContinue
    PROVE  Ready' \/ (phase' = "refused" /\ UNCHANGED <<source, run>>)
<1>1. PICK op \in Jumps :
        /\ ~Top.exited /\ LoopBodies # {}
        /\ IF Innermost.split /\ ~Top.split
           THEN phase' = "refused" /\ UNCHANGED <<source, run>>
           ELSE Write(WithTop([Top EXCEPT !.exited = TRUE]),
                      <<S(op, "", Innermost.at)>>,
                      Extended(<<Visible(IF Top.split THEN I("goto", "", Target(op))
                                         ELSE I(op, "", Innermost.open))>>), cur)
  BY DEF BreakOrContinue, Writing
<1>2. CASE Innermost.split /\ ~Top.split
  BY <1>1, <1>2
<1>3. CASE ~(Innermost.split /\ ~Top.split)
  <2> DEFINE i == IF Top.split THEN I("goto", "", Target(op)) ELSE I(op, "", Innermost.open)
  <2>1. Write(WithTop([Top EXCEPT !.exited = TRUE]), <<S(op, "", Innermost.at)>>,
              Extended(<<Visible(i)>>), cur)
    BY <1>1, <1>3
  <2>2. PICK k \in DOMAIN bodies :
            Innermost = bodies[k] /\ k > 1 /\ bodies[k].kind \in Loops
    BY <1>1, InnermostIs DEF Ready
  <2>3. /\ bodies \in Seq(Body) /\ segs \in Seq(Seq(Instr)) /\ cur \in DOMAIN segs
        /\ segs[cur] \in Seq(Instr) /\ bodies # <<>>
    BY TopIs DEF Ready, Shape, Lists
  <2>4. ASSUME Top.split PROVE Shape(WithTop([Top EXCEPT !.exited = TRUE]), Extended(<<Visible(i)>>), cur)
    <3>1. bodies[k].split
      BY <2>3, <2>4, AllSplit, TopIs DEF Ready, Shape
    <3>2. SplitPlaces(bodies[k], segs, cur)
      BY <2>2, <3>1 DEF Ready, Shape, Places
    <3>3. Target(op) \in DOMAIN segs
      BY <2>2, <3>2 DEF SplitPlaces, Target, Loops
    <3>4. Target(op) \in Nat /\ Target(op) \in 1 .. Len(segs)
      BY <2>3, <3>3
    <3>5. i \in Instr /\ i.op = "goto" /\ i.to = Target(op)
      <4>1. "goto" \in Ops
        BY DEF Ops
      <4>2. i = I("goto", "", Target(op))
        BY <2>4
      <4> HIDE DEF i
      <4> QED BY <3>4, <4>1, <4>2, Nameless DEF Ready
    <3> HIDE DEF i
    <3>6. Visible(i) \in Instr /\ Visible(i).op = "goto" /\ Visible(i).to = Target(op)
      BY <3>5, VisibleIs DEF Ready
    <3>7. Fits(Visible(i), segs[cur], Len(segs))
      BY <3>4, <3>6 DEF Fits, Jumps
    <3> QED BY <1>1, <3>6, <3>7, ExitShapes DEF Terminal, Transfers, AllKinds, Loops
  <2>5. ASSUME ~Top.split PROVE Shape(WithTop([Top EXCEPT !.exited = TRUE]), Extended(<<Visible(i)>>), cur)
    <3>1. PlainPlaces(bodies[k], segs, cur)
      BY <1>3, <2>2, <2>5 DEF Ready, Shape, Places
    <3>2. Innermost.open \in DOMAIN segs[cur] /\ segs[cur][Innermost.open].op \in AllKinds
      BY <2>2, <3>1 DEF PlainPlaces, AllKinds
    <3>3. Innermost.open \in Nat
      BY <2>3, <3>2
    <3>4. i \in Instr /\ i.op = op /\ i.to = Innermost.open
      <4>1. op \in Ops
        BY <1>1 DEF Ops
      <4>2. i = I(op, "", Innermost.open)
        BY <2>5
      <4> HIDE DEF i
      <4> QED BY <3>3, <4>1, <4>2, Nameless DEF Ready
    <3> HIDE DEF i
    <3>5. Visible(i) \in Instr /\ Visible(i).op = op /\ Visible(i).to = Innermost.open
      BY <3>4, VisibleIs DEF Ready
    <3>6. Fits(Visible(i), segs[cur], Len(segs))
      BY <1>1, <3>2, <3>5 DEF Fits, Jumps, Transfers, Calls
    <3>7. op \notin AllKinds
      BY <1>1 DEF Jumps, AllKinds, Loops
    <3> QED BY <1>1, <2>5, <3>5, <3>6, <3>7, ExitShapes
  <2>6. Shape(WithTop([Top EXCEPT !.exited = TRUE]), Extended(<<Visible(i)>>), cur)
    BY <2>4, <2>5
  <2>7. S(op, "", Innermost.at) \in Stmt
    <3>1. Innermost \in Body
      BY <2>2, <2>3
    <3>2. Innermost.at \in Nat
      BY <3>1 DEF Body
    <3> QED BY <1>1, <3>2 DEF S, Stmt
  <2> QED BY <2>1, <2>6, <2>7, Statements DEF Write, Ready
<1> QED BY <1>2, <1>3

(* Something was noted about the innermost body.                             *)
LEMMA RetopShape ==
    ASSUME NEW bs, NEW sg, NEW c, Shape(bs, sg, c),
           NEW b \in Body, b.kind = Last(bs).kind, b.split = Last(bs).split,
           b.open = Last(bs).open, b.head = Last(bs).head,
           b.alt = Last(bs).alt, b.next = Last(bs).next, ~b.exited
    PROVE  Shape(Append(Front(bs), b), sg, c)
<1> DEFINE n == Append(Front(bs), b)
<1>1. bs \in Seq(Body) /\ bs # <<>> /\ Last(bs) = bs[Len(bs)]
  BY DEF Shape, Lists, Last
<1>2. n \in Seq(Body) /\ Len(n) = Len(bs) /\ n[Len(bs)] = b
        /\ \A i \in DOMAIN bs : i < Len(bs) => n[i] = bs[i]
  BY <1>1, Retopped
<1>3. \A i \in DOMAIN bs : i < Len(bs) \/ i = Len(bs)
  BY <1>1
<1> HIDE DEF n
<1>4. SameBodies(n, bs)
  BY <1>1, <1>2, <1>3 DEF SameBodies
<1> QED BY <1>2, <1>4, SameShape DEF n

LEMMA OneOrTwo ==
    ASSUME NEW a \in Instr, NEW e \in Instr, NEW f, f = <<>> \/ f = <<a>>
    PROVE  /\ f \o <<e>> \in Seq(Instr) /\ f \o <<e>> # <<>>
           /\ (f \o <<e>>)[Len(f \o <<e>>)] = e
           /\ \A k \in DOMAIN (f \o <<e>>) : (f \o <<e>>)[k] = e \/ (f \o <<e>>)[k] = a
<1>1. f \in Seq(Instr) /\ \A k \in DOMAIN f : f[k] = a
  <2>1. CASE f = <<>>
    BY <2>1
  <2>2. CASE f = <<a>>
    BY <2>2, OneInstruction
  <2> QED BY <2>1, <2>2
<1> DEFINE t == <<e>>
           u == f \o t
<1>2. t \in Seq(Instr) /\ Len(t) = 1 /\ DOMAIN t = {1} /\ t[1] = e
  BY OneInstruction
<1> HIDE DEF t
<1>3. /\ u \in Seq(Instr) /\ Len(u) = Len(f) + Len(t)
      /\ \A j \in DOMAIN f : u[j] = f[j]
      /\ \A k \in DOMAIN t : k + Len(f) \in DOMAIN u /\ u[k + Len(f)] = t[k]
      /\ \A j \in DOMAIN u : j \in DOMAIN f \/ \E k \in DOMAIN t : j = k + Len(f)
  BY <1>1, <1>2, Glue
<1> HIDE DEF u
<1>4. u \in Seq(Instr) /\ u # <<>> /\ u[Len(u)] = e
        /\ \A k \in DOMAIN u : u[k] = e \/ u[k] = a
  <2>1. Len(u) = 1 + Len(f) /\ Len(f) \in Nat
    BY <1>1, <1>2, <1>3
  <2>2. u[1 + Len(f)] = e /\ 1 + Len(f) \in DOMAIN u
    BY <1>2, <1>3
  <2>3. u # <<>>
    BY <2>2
  <2>4. \A k \in DOMAIN u : u[k] = e \/ u[k] = a
    BY <1>1, <1>2, <1>3, <2>2
  <2> QED BY <1>3, <2>1, <2>2, <2>3, <2>4
<1> QED BY <1>4 DEF u, t

LEMMA SuspendShapes ==
    ASSUME Ready, Suspend PROVE Ready'
<1> DEFINE next == Len(segs) + 1
           take == Later(I("take", "rc", 0))
           test == Later(Visible(I("use", "rc", 0)))
           s    == <<take, test>>
           b(call) == [Top EXCEPT !.binds = @ \/ call = "recv"]
           v(call) == Visible(I(call, "rc", next))
           bind(call) == IF call = "recv" THEN <<I("new", "closed", 0)>> ELSE <<>>
<1>1. PICK call \in Calls :
        /\ ~Top.exited /\ Top.split
        /\ Write(WithTop(b(call)),
                 <<S(call, "rc", 0), S("use", "rc", 0)>>,
                 Append(Extended(bind(call) \o <<v(call)>>), s), next)
  BY DEF Suspend, Writing
<1>2. /\ Top = Last(bodies) /\ Top \in Body
      /\ bodies \in Seq(Body) /\ segs \in Seq(Seq(Instr)) /\ cur \in DOMAIN segs
      /\ next \in Nat /\ Len(segs) <= next /\ Here + 1 \in Nat
  BY TopIs DEF Ready, Here
<1> DEFINE n == Append(Front(bodies), b(call))
           t == bind(call) \o <<v(call)>>
           g == Grown(segs, cur, t)
<1>3. /\ b(call) \in Body /\ b(call).kind = Top.kind /\ b(call).split = Top.split
      /\ b(call).open = Top.open /\ b(call).head = Top.head /\ b(call).alt = Top.alt
      /\ b(call).next = Top.next /\ b(call).exited = Top.exited
  BY <1>2 DEF Body
<1>4. Shape(n, segs, cur)
  <2> HIDE DEF b
  <2> QED BY <1>1, <1>2, <1>3, RetopShape DEF Ready
<1>5. Last(n).split /\ ~Last(n).exited
  <2>1. Last(n) = b(call)
    <3> HIDE DEF b
    <3>1. Len(n) = Len(bodies) /\ n[Len(bodies)] = b(call)
      BY <1>2, <1>3, Retopped DEF Ready, Shape, Lists
    <3> QED BY <3>1 DEF Last
  <2> HIDE DEF n, b
  <2> QED BY <2>1, <1>1, <1>3
<1>6. v(call) \in Instr /\ v(call).op = call /\ v(call).to = next
  <2> DEFINE i == I(call, "rc", next)
  <2>1. i \in Instr /\ i.op = call /\ i.to = next
    BY <1>1, <1>2, HereIs DEF I, Instr, Names, Ready
  <2> HIDE DEF i
  <2>2. Visible(i) \in Instr /\ Visible(i).op = call /\ Visible(i).to = next
    BY <2>1, VisibleIs DEF Ready
  <2> QED BY <2>2 DEF i
<1>7. I("new", "closed", 0) \in Instr /\ I("new", "closed", 0).op = "new"
  BY HereIs DEF I, Instr, Names, Ready
<1>8. /\ t \in Seq(Instr) /\ t # <<>> /\ t[Len(t)] = v(call)
      /\ \A k \in DOMAIN t : t[k] = v(call) \/ t[k] = I("new", "closed", 0)
  <2>1. bind(call) = <<>> \/ bind(call) = <<I("new", "closed", 0)>>
    OBVIOUS
  <2> HIDE DEF v, bind
  <2> QED BY <1>6, <1>7, <2>1, OneOrTwo
<1> HIDE DEF v, t, b, n, next
<1>9. Ended(t)
  BY <1>1, <1>6, <1>8 DEF Ended, Terminal, Transfers
<1>10. ASSUME NEW k \in DOMAIN t
       PROVE  Fits(t[k], segs[cur], next) /\ t[k].op \notin AllKinds
  <2>1. next \in 1 .. next
    BY <1>2 DEF next
  <2>2. CASE t[k] = v(call)
    BY <1>1, <1>6, <2>1, <2>2 DEF Fits, Calls, Jumps, AllKinds, Loops
  <2>3. CASE t[k] = I("new", "closed", 0)
    BY <1>7, <2>3 DEF Fits, Transfers, Calls, Jumps, AllKinds, Loops
  <2> QED BY <1>8, <1>10, <2>2, <2>3
<1>11. Rest(n, g, next)
  <2> HIDE DEF g
  <2> QED BY <1>2, <1>4, <1>5, <1>8, <1>9, <1>10, CutRests DEF g
<1>12. Len(g) + 1 = next
  BY <1>2, <1>8, GrownIs DEF next
<1>13. take \in Instr /\ take.op = "take" /\ test \in Instr /\ test.op = "use"
  BY HereIs DEF I, Instr, Names, Later, Visible, Ready
<1>14. /\ s \in Seq(Instr) /\ Good(s, next)
       /\ \A j \in DOMAIN s : s[j].op \notin AllKinds
  <2> HIDE DEF take, test
  <2>1. s \in Seq(Instr) /\ \A j \in DOMAIN s : s[j] = take \/ s[j] = test
    BY <1>13
  <2> HIDE DEF s
  <2>2. \A j \in DOMAIN s : s[j].op \in {"take", "use"}
    BY <1>13, <2>1
  <2> QED BY <2>1, <2>2 DEF Good, Fits, Transfers, Calls, Jumps, AllKinds, Loops
<1> HIDE DEF s, g
<1>15. Shape(n, Append(g, s), next)
  <2>1. Rest(n, g, Len(g) + 1)
    BY <1>11, <1>12
  <2>2. Good(s, Len(g) + 1)
    BY <1>12, <1>14
  <2>3. Shape(n, Append(g, s), Len(g) + 1)
    BY <1>5, <1>14, <2>1, <2>2, Resumed
  <2> QED BY <1>12, <2>3
<1>16. code' \in Seq(Stmt)
  <2>1. S(call, "rc", 0) \in Stmt /\ S("use", "rc", 0) \in Stmt
    BY <1>1 DEF S, Stmt, Names
  <2>2. code' = code \o <<S(call, "rc", 0), S("use", "rc", 0)>>
    BY <1>1 DEF Write
  <2> QED BY <2>1, <2>2 DEF Ready
<1>17. bodies' = n /\ segs' = Append(g, s) /\ cur' = next
  BY <1>1, ExtendedGrows DEF Write, WithTop, n, g, t
<1> QED BY <1>15, <1>16, <1>17 DEF Ready

LEMMA OpenPlainShapes ==
    ASSUME Ready, OpenPlain PROVE Ready'
<1> DEFINE i(kind) == IF kind = "block" THEN I(kind, "", 0) ELSE Visible(I(kind, "", 0))
           b(kind) == [NewBody(kind) EXCEPT !.open = Len(segs[cur]) + 1]
<1>1. PICK kind \in Kinds :
        /\ ~Top.exited
        /\ Open(b(kind), Extended(<<i(kind)>>), cur)
  BY DEF OpenPlain, Writing
<1>2. kind \in AllKinds
  BY <1>1, CoopAssumption
<1>3. I(kind, "", 0) \in Instr /\ I(kind, "", 0).op = kind
  BY <1>2, HereIs DEF I, Instr, Ready
<1>4. i(kind) \in Instr /\ i(kind).op = kind
  <2>1. Visible(I(kind, "", 0)) \in Instr /\ Visible(I(kind, "", 0)).op = kind
    BY <1>3, VisibleIs DEF Ready
  <2> QED BY <1>3, <2>1
<1>5. /\ Top = Last(bodies) /\ segs[cur] \in Seq(Instr) /\ Here \in Nat
      /\ Len(segs[cur]) + 1 \in Nat
  BY TopIs DEF Ready, Here
<1>6. /\ b(kind) \in Body /\ ~b(kind).split /\ b(kind).kind = kind
      /\ b(kind).open = Len(segs[cur]) + 1 /\ b(kind).alt = 0 /\ ~b(kind).exited
  <2>1. ASSUME NEW o \in Nat
        PROVE  LET body == [NewBody(kind) EXCEPT !.open = o] IN
               /\ body \in Body /\ ~body.split /\ body.kind = kind
               /\ body.open = o /\ body.alt = 0 /\ ~body.exited
    BY <1>2, <1>5 DEF NewBody, Body
  <2> QED BY <1>5, <2>1
<1> HIDE DEF i, b
<1>7. Shape(Append(bodies, b(kind)), Extended(<<i(kind)>>), cur)
  BY <1>1, <1>2, <1>4, <1>5, <1>6, PlainOpened, ExtendedGrows DEF Ready
<1>8. S(b(kind).kind, "", 0) \in Stmt
  BY <1>2, <1>6 DEF S, Stmt
<1> QED BY <1>1, <1>7, <1>8, Statements DEF Open, Write, Ready

LEMMA ClosePlainShapes ==
    ASSUME Ready, ClosePlain PROVE Ready'
<1> DEFINE e == I("close", "", Top.open)
<1>1. /\ Len(bodies) > 1 /\ ~Top.split
      /\ bodies' = Front(bodies) /\ code' = Append(code, S("close", "", Top.at))
      /\ segs' = Extended(<<e>>) /\ cur' = cur
  BY DEF ClosePlain
<1>2. Top = Last(bodies) /\ Top \in Body
  BY TopIs DEF Ready
<1>3. Top.open \in Nat /\ Top.at \in Nat
  BY <1>2 DEF Body
<1>4. e \in Instr /\ e.op = "close" /\ e.to = Top.open
  BY <1>3, HereIs DEF I, Instr, Ready
<1> HIDE DEF e
<1>5. Shape(Front(bodies), Extended(<<e>>), cur)
  BY <1>1, <1>2, <1>4, PlainClosed, ExtendedGrows DEF Ready
<1>6. S("close", "", Top.at) \in Stmt
  BY <1>3 DEF S, Stmt
<1> QED BY <1>1, <1>5, <1>6, Statements DEF Ready

(* What ends a split body that did not jump.                                 *)
LEMMA FallthroughFits ==
    ASSUME Ready, Top.split, Len(bodies) > 1
    PROVE  /\ Fallthrough \in Seq(Instr)
           /\ \A k \in DOMAIN Fallthrough :
                 /\ Fits(Fallthrough[k], segs[cur], Len(segs))
                 /\ Fallthrough[k].op \notin AllKinds
           /\ Ended(Fallthrough) \/ (Fallthrough = <<>> /\ Top.exited)
<1> DEFINE to == IF Top.kind = "while" THEN Top.head ELSE Top.next
           e  == I("goto", "", to)
<1>1. SplitPlaces(Top, segs, cur) /\ segs \in Seq(Seq(Instr))
  BY TopIs DEF Ready, Shape, Places
<1>2. to \in DOMAIN segs
  BY <1>1 DEF SplitPlaces
<1>3. to \in Nat /\ to \in 1 .. Len(segs)
  BY <1>1, <1>2
<1> HIDE DEF to
<1>4. e \in Instr /\ e.op = "goto" /\ e.to = to
  BY <1>3, HereIs DEF I, Instr, Ready
<1> HIDE DEF e
<1>5. Fits(e, segs[cur], Len(segs)) /\ e.op \notin AllKinds /\ e.op \in Terminal
  BY <1>3, <1>4 DEF Fits, Transfers, Terminal, Calls, Jumps, AllKinds, Loops
<1>6. CASE Top.exited
  <2>1. Fallthrough = <<>>
    BY <1>6 DEF Fallthrough
  <2> QED BY <2>1, <1>6
<1>7. CASE ~Top.exited
  <2>1. Fallthrough = <<e>>
    BY <1>7 DEF Fallthrough, e, to
  <2>2. /\ <<e>> \in Seq(Instr) /\ Ended(<<e>>)
        /\ \A k \in DOMAIN <<e>> :
              Fits(<<e>>[k], segs[cur], Len(segs)) /\ <<e>>[k].op \notin AllKinds
    BY <1>4, <1>5, OneInstruction DEF Ended
  <2> QED BY <2>1, <2>2
<1> QED BY <1>6, <1>7

(* A split body that ends leaves all segments whole or waiting.              *)
LEMMA EndRests ==
    ASSUME Ready, Top.split, Len(bodies) > 1
    PROVE  LET g == Extended(Fallthrough) IN
           Rest(bodies, g, Len(g)) /\ g \in Seq(Seq(Instr)) /\ Len(g) = Len(segs)
<1> DEFINE t == Fallthrough
           g == Grown(segs, cur, t)
<1>1. /\ t \in Seq(Instr)
      /\ \A k \in DOMAIN t : Fits(t[k], segs[cur], Len(segs)) /\ t[k].op \notin AllKinds
      /\ Ended(t) \/ (t = <<>> /\ Top.exited)
  BY FallthroughFits
<1> HIDE DEF t
<1>2. Top = Last(bodies) /\ segs \in Seq(Seq(Instr)) /\ cur \in DOMAIN segs
        /\ Len(segs) \in Nat /\ Len(segs) <= Len(segs)
  BY TopIs DEF Ready
<1>3. Rest(bodies, g, Len(segs))
  BY <1>1, <1>2, CutRests DEF Ready
<1>4. g \in Seq(Seq(Instr)) /\ Len(g) = Len(segs)
  BY <1>1, <1>2, GrownIs
<1>5. Extended(t) = g
  BY ExtendedGrows
<1> HIDE DEF g
<1> QED BY <1>3, <1>4, <1>5 DEF t

LEMMA ElseShapes ==
    ASSUME Ready, Else PROVE Ready'
<1> DEFINE g == Extended(Fallthrough)
           b == [Top EXCEPT !.alt = 0, !.exited = FALSE, !.binds = FALSE]
<1>1. /\ Len(bodies) > 1 /\ Top.alt # 0
      /\ bodies' = WithTop(b) /\ code' = Append(code, S("else", "", Top.at))
      /\ segs' = g /\ cur' = Top.alt
  BY DEF Else
<1>2. Top = Last(bodies) /\ Top = bodies[Len(bodies)] /\ Top \in Body
        /\ Len(bodies) \in DOMAIN bodies
  BY TopIs DEF Ready
<1>3. Top.split
  BY <1>1, <1>2 DEF Ready, Shape, Places, PlainPlaces
<1>4. Rest(bodies, g, Len(g))
  BY <1>1, <1>3, EndRests DEF Ready
<1>5. /\ b \in Body /\ b.kind = Top.kind /\ b.split /\ b.head = Top.head /\ b.alt = 0
      /\ b.next = Top.next /\ ~b.exited
  BY <1>2, <1>3 DEF Body
<1> HIDE DEF g, b
<1>6. Shape(Append(Front(bodies), b), g, Top.alt)
  BY <1>1, <1>2, <1>4, <1>5, ElseOpened
<1>7. S("else", "", Top.at) \in Stmt
  BY <1>2 DEF S, Stmt, Body
<1> QED BY <1>1, <1>6, <1>7, Statements DEF WithTop, Ready

LEMMA CloseSplitShapes ==
    ASSUME Ready, CloseSplit PROVE Ready'
<1> DEFINE g == Extended(Fallthrough)
           f == NoElse
           g2 == IF Top.alt = 0 THEN g ELSE [g EXCEPT ![Top.alt] = f]
<1>1. /\ Len(bodies) > 1 /\ Top.split
      /\ bodies' = Front(bodies) /\ code' = Append(code, S("close", "", Top.at))
      /\ segs' = g2 /\ cur' = Top.next
  BY DEF CloseSplit
<1>2. /\ Top = Last(bodies) /\ Top = bodies[Len(bodies)] /\ Top \in Body
      /\ Len(bodies) \in DOMAIN bodies /\ segs \in Seq(Seq(Instr))
  BY TopIs DEF Ready
<1>3. Rest(bodies, g, Len(g)) /\ g \in Seq(Seq(Instr)) /\ Len(g) = Len(segs)
  BY <1>1, EndRests DEF Ready
<1>4. SplitPlaces(Top, segs, cur)
  BY <1>1, <1>2 DEF Ready, Shape, Places
<1>5. Top.next \in Nat /\ Top.next \in 1 .. Len(g)
  BY <1>2, <1>3, <1>4 DEF SplitPlaces
<1>6. f \in Seq(Instr) /\ Whole(f) /\ Good(f, Len(g))
  <2> DEFINE e == I("goto", "", Top.next)
  <2>1. e \in Instr /\ e.op = "goto" /\ e.to = Top.next
    BY <1>5, HereIs DEF I, Instr, Ready
  <2> HIDE DEF e
  <2>2. f = <<e>>
    BY DEF NoElse, e
  <2>3. \A k \in DOMAIN f : f[k] = e
    BY <2>1, <2>2, OneInstruction
  <2>4. f \in Seq(Instr) /\ Ended(f)
    BY <2>1, <2>2, OneInstruction DEF Ended, Terminal, Transfers
  <2> HIDE DEF f
  <2>5. Whole(f)
    BY <2>1, <2>3, <2>4 DEF Whole, AllKinds, Loops
  <2>6. Good(f, Len(g))
    BY <1>5, <2>1, <2>3 DEF Good, Fits, Jumps
  <2> QED BY <2>4, <2>5, <2>6
<1> HIDE DEF g, f
<1>7. /\ g2 \in Seq(Seq(Instr)) /\ Len(g2) = Len(g)
      /\ \A s \in DOMAIN g : IF s = Top.alt
                             THEN Whole(g2[s]) /\ Good(g2[s], Len(g))
                             ELSE g2[s] = g[s]
  <2>1. CASE Top.alt = 0
    <3>1. \A s \in DOMAIN g : s # 0
      BY <1>3
    <3> QED BY <1>3, <2>1, <3>1
  <2>2. CASE Top.alt # 0
    <3>1. g2 = [g EXCEPT ![Top.alt] = f]
      BY <2>2
    <3>2. Top.alt \in 1 .. Len(g)
      BY <1>2, <1>3, <1>4, <2>2 DEF SplitPlaces, Pending
    <3>3. g2 \in Seq(Seq(Instr)) /\ Len(g2) = Len(g) /\ DOMAIN g2 = DOMAIN g
      <4>1. ASSUME NEW h \in Seq(Seq(Instr)), NEW k \in 1 .. Len(h), NEW x \in Seq(Instr)
            PROVE  LET r == [h EXCEPT ![k] = x] IN
                   r \in Seq(Seq(Instr)) /\ Len(r) = Len(h) /\ DOMAIN r = DOMAIN h
        OBVIOUS
      <4> QED BY <1>3, <1>6, <3>1, <3>2, <4>1
    <3> QED BY <1>3, <1>6, <3>1, <3>3
  <2> QED BY <2>1, <2>2
<1> HIDE DEF g2
<1>8. Shape(Front(bodies), g2, Top.next)
  BY <1>1, <1>2, <1>3, <1>7, SplitClosed
<1>9. S("close", "", Top.at) \in Stmt
  BY <1>2 DEF S, Stmt, Body
<1> QED BY <1>1, <1>8, <1>9, Statements DEF Ready

(* The splitter is done: the code is sealed.                                 *)
LEMMA FinishSeals ==
    ASSUME Ready, Finish PROVE Sealed(segs') /\ code' \in Seq(Stmt)
<1> DEFINE n == Len(segs) + 1
           e == I("goto", "", n)
           t == IF Top.exited THEN <<>> ELSE <<e>>
           g == Grown(segs, cur, t)
           v == Visible(I("finish", "", 0))
           s == <<v>>
<1>1. /\ Len(bodies) = 1 /\ code' = code
      /\ segs' = Append(IF Top.exited THEN segs ELSE Extended(<<e>>), s)
  BY DEF Finish
<1>2. /\ Top = Last(bodies) /\ Top = bodies[Len(bodies)] /\ Top.split
      /\ segs \in Seq(Seq(Instr)) /\ cur \in DOMAIN segs /\ segs[cur] \in Seq(Instr)
      /\ n \in Nat /\ Len(segs) <= n /\ n \in 1 .. n
  <2>1. /\ Top = Last(bodies) /\ Top = bodies[Len(bodies)]
        /\ segs \in Seq(Seq(Instr)) /\ cur \in DOMAIN segs /\ segs[cur] \in Seq(Instr)
    BY TopIs DEF Ready
  <2>2. Top.split
    BY <1>1, <2>1 DEF Ready, Shape, Nested
  <2>3. n \in Nat /\ Len(segs) <= n /\ n \in 1 .. n
    BY <2>1
  <2> QED BY <2>1, <2>2, <2>3
<1>3. segs' = Append(g, s)
  <2>1. CASE Top.exited
    <3>1. g = segs
      BY <1>2, <2>1 DEF Grown
    <3> QED BY <1>1, <2>1, <3>1
  <2>2. CASE ~Top.exited
    BY <1>1, <2>2, ExtendedGrows
  <2> QED BY <2>1, <2>2
<1>4. e \in Instr /\ e.op = "goto" /\ e.to = n
  BY <1>2, HereIs DEF I, Instr, Ready
<1>5. v \in Instr /\ v.op = "finish"
  <2>1. I("finish", "", 0) \in Instr /\ I("finish", "", 0).op = "finish"
    BY HereIs DEF I, Instr, Ready
  <2> QED BY <2>1, VisibleIs DEF Ready
<1> HIDE DEF e, v, n
<1>6. /\ t \in Seq(Instr)
      /\ \A k \in DOMAIN t : t[k] = e
      /\ Ended(t) \/ (t = <<>> /\ Top.exited)
  <2>1. CASE Top.exited
    BY <2>1
  <2>2. CASE ~Top.exited
    <3>1. t = <<e>>
      BY <2>2
    <3>2. /\ <<e>> \in Seq(Instr) /\ \A k \in DOMAIN <<e>> : <<e>>[k] = e
          /\ Ended(<<e>>)
      BY <1>4, OneInstruction DEF Ended, Terminal, Transfers
    <3> QED BY <3>1, <3>2
  <2> QED BY <2>1, <2>2
<1> HIDE DEF t
<1>7. \A k \in DOMAIN t : Fits(t[k], segs[cur], n) /\ t[k].op \notin AllKinds
  BY <1>2, <1>4, <1>6 DEF Fits, Jumps, AllKinds, Loops
<1>8. Rest(bodies, g, n)
  BY <1>2, <1>6, <1>7, CutRests DEF Ready
<1>9. Len(g) + 1 = n
  BY <1>2, <1>6, GrownIs DEF n
<1>10. s \in Seq(Instr) /\ Whole(s) /\ Good(s, n)
  <2>1. \A k \in DOMAIN s : s[k] = v
    BY <1>5, OneInstruction
  <2>2. s \in Seq(Instr) /\ Ended(s)
    BY <1>5, OneInstruction DEF Ended, Terminal
  <2> HIDE DEF s
  <2> QED BY <1>5, <2>1, <2>2
         DEF Whole, Good, Fits, Transfers, Calls, Jumps, AllKinds, Loops
<1> HIDE DEF g, s
<1>11. Sealed(Append(g, s))
  <2>1. Rest(bodies, g, Len(g) + 1) /\ Good(s, Len(g) + 1)
    BY <1>8, <1>9, <1>10
  <2> QED BY <1>1, <1>10, <2>1, RestSeals
<1> QED BY <1>1, <1>3, <1>11 DEF Ready

(* The segments a branch or a loop adds.                                     *)
LEMMA ThreeMore ==
    ASSUME NEW x \in Seq(Instr)
    PROVE  LET more == <<x, <<>>, <<>>>> IN
           /\ more \in Seq(Seq(Instr)) /\ Len(more) = 3 /\ DOMAIN more = {1, 2, 3}
           /\ more[1] = x /\ more[2] = <<>> /\ more[3] = <<>>
  OBVIOUS

(* ... behind those there are.                                               *)
LEMMA AddedThree ==
    ASSUME NEW sg \in Seq(Seq(Instr)), NEW more \in Seq(Seq(Instr)), Len(more) = 3,
           DOMAIN more = {1, 2, 3}
    PROVE  LET g == sg \o more
               n == Len(sg)
           IN  \A k \in {1, 2, 3} : n + k \in DOMAIN g /\ g[n + k] = more[k]
<1>1. \A k \in DOMAIN more : k + Len(sg) \in DOMAIN (sg \o more)
                             /\ (sg \o more)[k + Len(sg)] = more[k]
  BY Glue
<1>2. \A k \in {1, 2, 3} : k + Len(sg) = Len(sg) + k
  OBVIOUS
<1> QED BY <1>1, <1>2

(* The current segment ends in e and the new segments follow.                *)
LEMMA BranchCut ==
    ASSUME Ready, ~Top.exited, Top.split,
           NEW e \in Instr, Fits(e, segs[cur], Len(segs) + 3),
           e.op \in {"goto", "branch"}
    PROVE  LET g == Extended(<<e>>) IN
           g \in Seq(Seq(Instr)) /\ Len(g) = Len(segs) /\ Rest(bodies, g, Len(segs) + 3)
<1> DEFINE t == <<e>>
           m == Len(segs) + 3
           g == Grown(segs, cur, t)
<1>1. t \in Seq(Instr) /\ Ended(t) /\ \A k \in DOMAIN t : t[k] = e
  BY OneInstruction DEF Ended, Terminal, Transfers
<1>2. e.op \notin AllKinds
  BY DEF AllKinds, Loops
<1> HIDE DEF t
<1>3. Top = Last(bodies) /\ segs \in Seq(Seq(Instr)) /\ cur \in DOMAIN segs
        /\ m \in Nat /\ Len(segs) <= m
  BY TopIs DEF Ready
<1>4. \A k \in DOMAIN t : Fits(t[k], segs[cur], m) /\ t[k].op \notin AllKinds
  BY <1>1, <1>2
<1> HIDE DEF m
<1>5. Rest(bodies, g, m)
  BY <1>1, <1>3, <1>4, CutRests DEF Ready
<1>6. g \in Seq(Seq(Instr)) /\ Len(g) = Len(segs)
  BY <1>1, <1>3, GrownIs
<1>7. Extended(t) = g
  BY ExtendedGrows
<1> HIDE DEF g
<1> QED BY <1>5, <1>6, <1>7 DEF t, m

(* emitIf opens its first arm, with the segments of the other and the merge. *)
LEMMA IfShapes ==
    ASSUME Ready, ~Top.exited, Top.split,
           NEW b \in Body, b.kind = "if", b.split, ~b.exited,
           b.alt = Len(segs) + 2, b.next = Len(segs) + 3,
           NEW e \in Instr, e.op = "branch", e.to = Len(segs) + 1, e.other = Len(segs) + 2
    PROVE  Shape(Append(bodies, b), Extended(<<e>>) \o <<<<>>, <<>>, <<>>>>, Len(segs) + 1)
<1> DEFINE n == Len(segs)
           g == Extended(<<e>>)
           more == <<<<>>, <<>>, <<>>>>
           all == g \o more
<1>1. /\ n \in Nat /\ Top = Last(bodies)
      /\ n + 1 \in 1 .. n + 3 /\ n + 2 \in 1 .. n + 3 /\ n + 3 \in 1 .. n + 3
      /\ n + 1 \in n + 1 .. n + 3
      /\ n + 2 # 0 /\ n + 3 # 0 /\ n + 2 > n /\ n + 3 > n
      /\ n + 2 # n + 1 /\ n + 3 # n + 1 /\ n + 3 # n + 2
  BY TopIs DEF Ready
<1>2. Fits(e, segs[cur], n + 3)
  BY <1>1 DEF Fits, Jumps
<1>3. g \in Seq(Seq(Instr)) /\ Len(g) = n /\ Rest(bodies, g, n + 3)
  BY <1>2, BranchCut
<1>4. /\ more \in Seq(Seq(Instr)) /\ Len(more) = 3 /\ DOMAIN more = {1, 2, 3}
      /\ more[1] = <<>> /\ more[2] = <<>> /\ more[3] = <<>>
  BY ThreeMore
<1> HIDE DEF g, more
<1>5. \A k \in {1, 2, 3} : n + k \in DOMAIN all /\ all[n + k] = more[k]
  BY <1>3, <1>4, AddedThree, SMTT(60)
<1>6. Pending(b) = {n + 2, n + 3}
  BY <1>1 DEF Pending
<1> HIDE DEF n, all
<1>7. SplitPlaces(b, all, n + 1)
  BY <1>1, <1>4, <1>5, <1>6 DEF SplitPlaces, n
<1>8. ASSUME NEW k \in DOMAIN more
      PROVE  /\ Good(more[k], n + 3)
             /\ IF n + k = n + 1 THEN more[k] = <<>>
                ELSE n + k \in Pending(b) \/ Whole(more[k])
  <2>1. more[k] = <<>>
    BY <1>4, <1>8
  <2>2. Good(more[k], n + 3)
    BY <2>1 DEF Good
  <2>3. k = 1 \/ k = 2 \/ k = 3
    BY <1>4, <1>8
  <2> QED BY <1>6, <2>1, <2>2, <2>3
<1>9. Shape(Append(bodies, b), all, n + 1)
  <2>1. Rest(bodies, g, Len(g) + Len(more)) /\ n + 1 \in Len(g) + 1 .. Len(g) + Len(more)
    BY <1>1, <1>3, <1>4
  <2>2. \A s \in Pending(b) : s > Len(g)
    BY <1>1, <1>3, <1>6
  <2>3. \A k \in DOMAIN more :
              /\ Good(more[k], Len(g) + Len(more))
              /\ IF Len(g) + k = n + 1 THEN more[k] = <<>>
                 ELSE Len(g) + k \in Pending(b) \/ Whole(more[k])
    BY <1>3, <1>4, <1>8
  <2>4. b.kind \in AllKinds /\ SplitPlaces(b, g \o more, n + 1)
    BY <1>7 DEF AllKinds, all
  <2> QED BY <1>1, <1>4, <2>1, <2>2, <2>3, <2>4, SplitOpened DEF all
<1> QED BY <1>9 DEF all, g, more, n

(* emitWhile opens its body, with the segments of the condition and of what  *)
(* follows.                                                                  *)
LEMMA WhileShapes ==
    ASSUME Ready, ~Top.exited, Top.split,
           NEW b \in Body, b.kind = "while", b.split, ~b.exited,
           b.head = Len(segs) + 1, b.alt = 0, b.next = Len(segs) + 3,
           NEW e \in Instr, e.op = "goto", e.to = Len(segs) + 1,
           NEW f \in Instr, f.op = "branch", f.to = Len(segs) + 2, f.other = Len(segs) + 3
    PROVE  Shape(Append(bodies, b), Extended(<<e>>) \o <<<<f>>, <<>>, <<>>>>, Len(segs) + 2)
<1> DEFINE n == Len(segs)
           g == Extended(<<e>>)
           more == <<<<f>>, <<>>, <<>>>>
           all == g \o more
<1>1. /\ n \in Nat /\ Top = Last(bodies)
      /\ n + 1 \in 1 .. n + 3 /\ n + 2 \in 1 .. n + 3 /\ n + 3 \in 1 .. n + 3
      /\ n + 2 \in n + 1 .. n + 3
      /\ n + 3 # 0 /\ n + 3 > n /\ n + 3 # n + 2 /\ n + 1 # n + 2
  BY TopIs DEF Ready
<1>2. Fits(e, segs[cur], n + 3)
  BY <1>1 DEF Fits, Jumps
<1>3. g \in Seq(Seq(Instr)) /\ Len(g) = n /\ Rest(bodies, g, n + 3)
  BY <1>2, BranchCut
<1>4. /\ more \in Seq(Seq(Instr)) /\ Len(more) = 3 /\ DOMAIN more = {1, 2, 3}
      /\ more[1] = <<f>> /\ more[2] = <<>> /\ more[3] = <<>>
  BY OneInstruction, ThreeMore
<1> HIDE DEF g, more
<1>5. \A k \in {1, 2, 3} : n + k \in DOMAIN all /\ all[n + k] = more[k]
  <2>1. more \in Seq(Seq(Instr)) /\ Len(more) = 3 /\ DOMAIN more = {1, 2, 3}
    BY <1>4
  <2> QED BY <1>3, <2>1, AddedThree, SMTT(60)
<1>6. Pending(b) = {n + 3}
  BY <1>1 DEF Pending
<1>7. Whole(<<f>>) /\ Good(<<f>>, n + 3)
  <2> DEFINE s == <<f>>
  <2>1. s # <<>> /\ Len(s) = 1 /\ s[1] = f /\ \A k \in DOMAIN s : s[k] = f
    BY OneInstruction
  <2> HIDE DEF s
  <2>2. Whole(s)
    BY <2>1 DEF Whole, Ended, Terminal, Transfers, AllKinds, Loops
  <2>3. Fits(f, s, n + 3)
    BY <1>1 DEF Fits, Jumps
  <2> QED BY <2>1, <2>2, <2>3 DEF Good, s
<1> HIDE DEF n, all
<1>8. SplitPlaces(b, all, n + 2)
  BY <1>1, <1>4, <1>5, <1>6 DEF SplitPlaces, n
<1>9. ASSUME NEW k \in DOMAIN more
      PROVE  /\ Good(more[k], n + 3)
             /\ IF n + k = n + 2 THEN more[k] = <<>>
                ELSE n + k \in Pending(b) \/ Whole(more[k])
  <2>1. k = 1 \/ k = 2 \/ k = 3
    BY <1>4, <1>9
  <2>2. Good(<<>>, n + 3)
    BY DEF Good
  <2> QED BY <1>1, <1>4, <1>6, <1>7, <2>1, <2>2
<1>10. Shape(Append(bodies, b), all, n + 2)
  <2>1. Rest(bodies, g, Len(g) + Len(more)) /\ n + 2 \in Len(g) + 1 .. Len(g) + Len(more)
    BY <1>1, <1>3, <1>4
  <2>2. \A s \in Pending(b) : s > Len(g)
    BY <1>1, <1>3, <1>6
  <2>3. \A k \in DOMAIN more :
              /\ Good(more[k], Len(g) + Len(more))
              /\ IF Len(g) + k = n + 2 THEN more[k] = <<>>
                 ELSE Len(g) + k \in Pending(b) \/ Whole(more[k])
    BY <1>3, <1>4, <1>9
  <2>4. b.kind \in AllKinds /\ SplitPlaces(b, g \o more, n + 2)
    BY <1>8 DEF AllKinds, Loops, all
  <2> QED BY <1>1, <1>4, <2>1, <2>2, <2>3, <2>4, SplitOpened DEF all
<1> QED BY <1>10 DEF all, g, more, n

LEMMA BranchIs ==
    ASSUME Here \in Nat, NEW then \in Nat, NEW else \in Nat
    PROVE  LET e == [Visible(I("branch", "", then)) EXCEPT !.other = else] IN
           e \in Instr /\ e.op = "branch" /\ e.to = then /\ e.other = else
  BY DEF I, Instr, Visible

LEMMA OpenSplitShapes ==
    ASSUME Ready, OpenSplit PROVE Ready'
<1> DEFINE n == Len(segs)
           split(kind) == [NewBody(kind) EXCEPT !.split = TRUE]
           branch(then, else) ==
               [Visible(I("branch", "", then)) EXCEPT !.other = else]
           ofIf(alt, next) == [split("if") EXCEPT !.alt = alt, !.next = next]
           ofWhile(head, next) == [split("while") EXCEPT !.head = head, !.next = next]
           Opens(b, sg, c) == Shape(Append(bodies, b), sg, c) /\ Open(b, sg, c)
                              /\ b.kind \in AllKinds
<1>1. /\ ~Top.exited /\ Top.split /\ Top = Last(bodies) /\ n \in Nat /\ Here \in Nat
  <2>1. ~Top.exited /\ Top.split
    BY DEF OpenSplit, Writing
  <2>2. Top = Last(bodies) /\ n \in Nat /\ Here \in Nat
    BY TopIs DEF Ready, Here
  <2> QED BY <2>1, <2>2
<1>2. ASSUME NEW then \in Nat, NEW else \in Nat
      PROVE  /\ branch(then, else) \in Instr /\ branch(then, else).op = "branch"
             /\ branch(then, else).to = then /\ branch(then, else).other = else
  BY <1>1, <1>2, BranchIs, ZenonT(60)
<1>3. ASSUME NEW next \in Nat
      PROVE  LET b == [split("block") EXCEPT !.next = next] IN
             /\ b \in Body /\ b.kind = "block" /\ b.split /\ ~b.exited
             /\ b.alt = 0 /\ b.next = next
  BY <1>1, <1>3 DEF NewBody, Body, AllKinds
<1>4. ASSUME NEW alt \in Nat, NEW next \in Nat
      PROVE  LET b == ofIf(alt, next) IN
             /\ b \in Body /\ b.kind = "if" /\ b.split /\ ~b.exited
             /\ b.alt = alt /\ b.next = next
  BY <1>1, <1>4 DEF NewBody, Body, AllKinds
<1>5. ASSUME NEW head \in Nat, NEW next \in Nat
      PROVE  LET b == ofWhile(head, next) IN
             /\ b \in Body /\ b.kind = "while" /\ b.split /\ ~b.exited
             /\ b.head = head /\ b.alt = 0 /\ b.next = next
  BY <1>1, <1>5 DEF NewBody, Body, AllKinds, Loops
<1>6. ASSUME Open([split("block") EXCEPT !.next = n + 1], segs \o <<<<>>>>, cur)
      PROVE  \E b, sg, c : Opens(b, sg, c)
  <2> DEFINE b == [split("block") EXCEPT !.next = n + 1]
             more == <<<<>>>>
  <2>1. n + 1 \in Nat /\ "block" \in AllKinds
    BY <1>1 DEF AllKinds
  <2>2. b \in Body /\ b.kind = "block" /\ b.split /\ ~b.exited /\ b.alt = 0 /\ b.next = n + 1
    <3> HIDE DEF n, split
    <3> QED BY <2>1, <1>3
  <2> HIDE DEF b
  <2>3. Shape(Append(bodies, b), segs \o more, cur)
    <3>1. more = <<<<>>>>
      OBVIOUS
    <3> HIDE DEF more
    <3> QED BY <1>1, <2>2, <3>1, BlockOpened DEF Ready
  <2>4. Open(b, segs \o more, cur)
    BY <1>6 DEF b
  <2> QED BY <2>1, <2>2, <2>3, <2>4
<1>7. ASSUME Open([split("if") EXCEPT !.alt = n + 2, !.next = n + 3],
                  Extended(<<branch(n + 1, n + 2)>>) \o <<<<>>, <<>>, <<>>>>, n + 1)
      PROVE  \E b, sg, c : Opens(b, sg, c)
  <2> DEFINE b == ofIf(n + 2, n + 3)
             e == branch(n + 1, n + 2)
             sg == Extended(<<e>>) \o <<<<>>, <<>>, <<>>>>
  <2>1. n + 1 \in Nat /\ n + 2 \in Nat /\ n + 3 \in Nat /\ "if" \in AllKinds
    BY <1>1 DEF AllKinds
  <2>2. b \in Body /\ b.kind = "if" /\ b.split /\ ~b.exited
        /\ b.alt = n + 2 /\ b.next = n + 3
    <3> HIDE DEF n, ofIf
    <3> QED BY <2>1, <1>4
  <2>3. e \in Instr /\ e.op = "branch" /\ e.to = n + 1 /\ e.other = n + 2
    <3> HIDE DEF n, branch
    <3> QED BY <2>1, <1>2
  <2> HIDE DEF b, e
  <2>4. Shape(Append(bodies, b), sg, n + 1)
    BY <1>1, <2>2, <2>3, IfShapes
  <2>5. Open(b, sg, n + 1)
    BY <1>7 DEF b, e
  <2> HIDE DEF sg
  <2> QED BY <2>1, <2>2, <2>4, <2>5
<1>8. ASSUME Open([split("while") EXCEPT !.head = n + 1, !.next = n + 3],
                  Extended(<<I("goto", "", n + 1)>>)
                     \o <<<<branch(n + 2, n + 3)>>, <<>>, <<>>>>, n + 2)
      PROVE  \E b, sg, c : Opens(b, sg, c)
  <2> DEFINE b == ofWhile(n + 1, n + 3)
             e == I("goto", "", n + 1)
             f == branch(n + 2, n + 3)
             sg == Extended(<<e>>) \o <<<<f>>, <<>>, <<>>>>
  <2>1. n + 1 \in Nat /\ n + 2 \in Nat /\ n + 3 \in Nat /\ "while" \in AllKinds
    BY <1>1 DEF AllKinds, Loops
  <2>2. b \in Body /\ b.kind = "while" /\ b.split /\ ~b.exited
        /\ b.head = n + 1 /\ b.alt = 0 /\ b.next = n + 3
    <3> HIDE DEF n, ofWhile
    <3> QED BY <2>1, <1>5
  <2>3. f \in Instr /\ f.op = "branch" /\ f.to = n + 2 /\ f.other = n + 3
    <3> HIDE DEF n, branch
    <3> QED BY <2>1, <1>2
  <2>4. e \in Instr /\ e.op = "goto" /\ e.to = n + 1
    BY <2>1, HereIs DEF I, Instr, Ready
  <2> HIDE DEF b, e, f
  <2>5. Shape(Append(bodies, b), sg, n + 2)
    BY <1>1, <2>2, <2>3, <2>4, WhileShapes
  <2>6. Open(b, sg, n + 2)
    BY <1>8 DEF b, e, f
  <2> HIDE DEF sg
  <2> QED BY <2>1, <2>2, <2>5, <2>6
<1>9. \E b, sg, c : Opens(b, sg, c)
  BY <1>6, <1>7, <1>8 DEF OpenSplit
<1> HIDE DEF Opens
<1>10. PICK b, sg, c : Opens(b, sg, c)
  BY <1>9
<1>11. Shape(Append(bodies, b), sg, c) /\ Open(b, sg, c) /\ S(b.kind, "", 0) \in Stmt
  BY <1>10 DEF S, Stmt, Opens
<1> QED BY <1>11, Statements DEF Open, Write, Ready

(* A step of the splitter.                                                   *)
LEMMA SplitKeeps ==
    ASSUME Ready, Unstarted(run), run.ends = 0, Split
    PROVE  \/ Ready' /\ UNCHANGED <<phase, run>>
           \/ Sealed(segs') /\ code' \in Seq(Stmt) /\ phase' = "run" /\ run' = run
           \/ phase' = "refused" /\ UNCHANGED <<source, run>>
<1>1. CASE New
  BY <1>1, NewShapes DEF New, Write
<1>2. CASE Use
  BY <1>2, UseShapes DEF Use, Write
<1>3. CASE Move
  BY <1>3, MoveShapes DEF Move, Write
<1>4. CASE Spawn
  BY <1>4, SpawnShapes DEF Spawn, Write
<1>5. CASE Suspend
  BY <1>5, SuspendShapes DEF Suspend, Write
<1>6. CASE Return
  BY <1>6, ReturnShapes DEF Return, Write
<1>7. CASE BreakOrContinue
  <2>1. UNCHANGED <<phase, run>> \/ (phase' = "refused" /\ UNCHANGED <<source, run>>)
    BY <1>7 DEF BreakOrContinue, Write
  <2> QED BY <2>1, <1>7, BreakOrContinueShapes
<1>8. CASE OpenPlain
  BY <1>8, OpenPlainShapes DEF OpenPlain, Open, Write
<1>9. CASE OpenSplit
  BY <1>9, OpenSplitShapes DEF OpenSplit, Open, Write
<1>10. CASE Else
  BY <1>10, ElseShapes DEF Else
<1>11. CASE ClosePlain
  BY <1>11, ClosePlainShapes DEF ClosePlain
<1>12. CASE CloseSplit
  BY <1>12, CloseSplitShapes DEF CloseSplit
<1>13. CASE Finish
  BY <1>13, FinishSeals DEF Finish
<1> QED BY <1>1, <1>2, <1>3, <1>4, <1>5, <1>6, <1>7, <1>8, <1>9, <1>10, <1>11, <1>12,
           <1>13 DEF Split

-----------------------------------------------------------------------------
(* The theorems. *)

LEMMA Starts == ASSUME Init PROVE IInv
<1> DEFINE b == [kind |-> "fn", split |-> TRUE, at |-> 0, open |-> 0, head |-> 0,
                 alt |-> 0, next |-> 0, exited |-> FALSE, binds |-> FALSE]
           bs == <<b>>
           sg == <<<<>>>>
<1>1. /\ b \in Body /\ b.split /\ b.kind = "fn" /\ b.next = 0 /\ b.alt = 0 /\ ~b.exited
  BY DEF Body
<1>2. bs \in Seq(Body) /\ bs # <<>> /\ DOMAIN bs = {1} /\ bs[1] = b /\ Len(bs) = 1
  <2>1. ASSUME NEW x \in Body
        PROVE  <<x>> \in Seq(Body) /\ <<x>> # <<>> /\ DOMAIN <<x>> = {1}
               /\ <<x>>[1] = x /\ Len(<<x>>) = 1
    OBVIOUS
  <2> QED BY <1>1, <2>1
<1>3. sg \in Seq(Seq(Instr)) /\ DOMAIN sg = {1} /\ sg[1] = <<>> /\ Len(sg) = 1
  OBVIOUS
<1>4. bodies = bs /\ segs = sg /\ cur = 1 /\ code = <<>> /\ phase = "body"
  BY DEF Init
<1>5. IsRun(run) /\ Unstarted(run) /\ run.ends = 0
  BY DEF Init, IsRun, Unstarted
<1> HIDE DEF b, bs, sg
<1>6. Pending(b) = {}
  BY <1>1 DEF Pending
<1>7. AllGood(sg) /\ OthersWhole(bs, sg, 1) /\ CurrentOpen(bs, sg, 1)
  BY <1>3 DEF AllGood, Good, OthersWhole, CurrentOpen
<1>8. Lists(bs, sg, 1) /\ Nested(bs) /\ Places(bs, sg, 1) /\ Apart(bs)
        /\ ExitEnds(bs, sg, 1)
  BY <1>1, <1>2, <1>3, <1>6 DEF Lists, Nested, Places, Apart, ExitEnds
<1>9. HasInnermost(bs)
  <2>1. \A i \in 1 .. 1 : i = 1
    OBVIOUS
  <2> QED BY <1>1, <1>2, <2>1 DEF HasInnermost, Loops
<1>10. Shape(bs, sg, 1)
  BY <1>7, <1>8, <1>9 DEF Shape
<1> QED BY <1>4, <1>5, <1>10 DEF IInv

LEMMA Steps == ASSUME IInv, [Next]_vars PROVE IInv'
<1>1. CASE Split
  <2>1. phase = "body"
    BY <1>1 DEF Split, New, Use, Move, Spawn, Suspend, Return, BreakOrContinue, OpenPlain,
                OpenSplit, Else, ClosePlain, CloseSplit, Finish, Writing
  <2>2. Ready /\ Unstarted(run) /\ run.ends = 0 /\ IsRun(run)
    BY <2>1 DEF IInv, Ready
  <2>3. CASE Ready' /\ UNCHANGED <<phase, run>>
    BY <2>1, <2>2, <2>3 DEF IInv, Ready, IsRun, Unstarted
  <2>4. CASE Sealed(segs') /\ code' \in Seq(Stmt) /\ phase' = "run" /\ run' = run
    BY <2>2, <2>4 DEF IInv, InCode, EndsOnce, Unstarted, IsRun, Sealed, AllGood, Good,
                      Fits, Whole, Ended, Closed
  <2>5. CASE phase' = "refused" /\ UNCHANGED <<source, run>>
    BY <2>2, <2>5 DEF IInv, IsRun, source
  <2> QED BY <1>1, <2>2, <2>3, <2>4, <2>5, SplitKeeps
<1>2. CASE Execute
  <2>1. phase = "run"
    BY <1>2 DEF Execute, Start, Reads, RunNew, RunSpawn, RunTake, Completes, Blocks, Wake,
                Goto, Branch, PlainOpen, PlainClose, PlainJump, RunReturn, Step
  <2>2. Sealed(segs) /\ Kept(run) /\ code \in Seq(Stmt)
    BY <2>1 DEF IInv, Kept
  <2>3. CASE RunsOn
    <3>1. PICK q : Becomes(q) /\ Kept(q)
      BY <2>3 DEF RunsOn
    <3>2. run' = q /\ phase' = "run" /\ segs' = segs /\ code' = code
      BY <2>1, <3>1 DEF Becomes, source
    <3>3. IsRun(run') /\ InCode(run', segs') /\ ("plain-return" \notin Shapes => EndsOnce(run'))
      BY <3>1, <3>2 DEF Kept
    <3> QED BY <2>2, <3>2, <3>3 DEF IInv
  <2>4. CASE phase' = "refused" /\ UNCHANGED <<source, run>>
    BY <2>2, <2>4 DEF IInv, source, Kept
  <2> QED BY <1>2, <2>2, <2>3, <2>4, ExecuteKeeps
<1>3. CASE UNCHANGED vars
  BY <1>3 DEF vars, source, IInv
<1> QED BY <1>1, <1>2, <1>3 DEF Next

(* The inductive invariant: while it is written, the code is shaped like     *)
(* what the splitter hands from one call to the next, and a run is in it.    *)
(* (emitSeq, emitIf, emitWhile, emitBlockingAssign and rewrite.)             *)
THEOREM Inductive == Spec => []IInv
<1> QED BY Starts, Steps, PTL DEF Spec

(* The dispatcher never meets a state without a segment, and no segment runs *)
(* off its end: whatever the body, its nesting and its jumps, the machine    *)
(* made of it is closed.  (emitSeq's fall-through, NewState and rewrite.)    *)
THEOREM StaysInCode ==
    Spec => [](InSegment => run.state \in DOMAIN segs /\ run.pc \in DOMAIN Segment)
<1>1. ASSUME IInv
      PROVE  InSegment => run.state \in DOMAIN segs /\ run.pc \in DOMAIN Segment
  BY <1>1 DEF IInv, InSegment, InCode, Segment
<1> QED BY <1>1, Inductive, PTL

(* A step function returns because the task waits in a call that will be     *)
(* answered, or has finished for good and once, for bodies of any length,    *)
(* when no return stands in a nested body that is not split.  (suspendHere,  *)
(* closeSuspend and closeReturn.)                                            *)
THEOREM StopsRightly ==
    ASSUME "plain-return" \notin Shapes PROVE Spec => []StopsForReason
<1>1. ASSUME IInv PROVE StopsForReason
  BY <1>1 DEF IInv, StopsForReason, InCode, EndsOnce, Unstarted
<1> QED BY <1>1, Inductive, PTL

-----------------------------------------------------------------------------
(* The source: bodies nest.  cd is the code, open the openers of bodies that *)
(* are not closed yet.                                                       *)

\* c closes, and e begins the else of, the body opened by statement a.
Shuts(cd, c, a) == c \in 1 .. Len(cd) /\ cd[c].op = "close" /\ cd[c].at = a
Turns(cd, e, a) == e \in 1 .. Len(cd) /\ cd[e].op = "else" /\ cd[e].at = a

HasElse(cd, a)  == \E e \in 1 .. Len(cd) : Turns(cd, e, a)
HasClose(cd, a) == \E c \in 1 .. Len(cd) : Shuts(cd, c, a)

Opened(bs) == {bs[i].at : i \in 2 .. Len(bs)}

OpenersClose(cd, open) ==
    \A a \in 1 .. Len(cd) : cd[a].op \in AllKinds => a \in open \/ HasClose(cd, a)

ClosesMatch(cd, open) ==
    \A c \in 1 .. Len(cd) :
        cd[c].op = "close" => /\ cd[c].at \in 1 .. c - 1 /\ cd[cd[c].at].op \in AllKinds
                              /\ cd[c].at \notin open

ElsesMatch(cd, open) ==
    \A e \in 1 .. Len(cd) :
        cd[e].op = "else" => /\ cd[e].at \in 1 .. e - 1 /\ cd[cd[e].at].op = "if"
                             /\ \A c \in 1 .. Len(cd) : Shuts(cd, c, cd[e].at) => e < c

JumpsMatch(cd) ==
    \A j \in 1 .. Len(cd) :
        cd[j].op \in Jumps => cd[j].at \in 1 .. j - 1 /\ cd[cd[j].at].op \in Loops

\* A body has at most one close and at most one else.
Once(cd) ==
    \A i, j \in 1 .. Len(cd) :
        cd[i].op \in {"else", "close"} /\ cd[j].op = cd[i].op /\ cd[j].at = cd[i].at => i = j

Nests(cd, open) ==
    /\ OpenersClose(cd, open) /\ ClosesMatch(cd, open) /\ ElsesMatch(cd, open)
    /\ JumpsMatch(cd) /\ Once(cd)

\* The bodies being written are those of their openers, the innermost last.
Stacked(bs, cd) ==
    /\ bs[1].at = 0
    /\ \A i \in 2 .. Len(bs) : bs[i].at \in 1 .. Len(cd) /\ cd[bs[i].at].op = bs[i].kind
    /\ \A i, j \in 1 .. Len(bs) : i < j => bs[i].at < bs[j].at

Stack(bs, cd) == Nests(cd, Opened(bs)) /\ Stacked(bs, cd)

-----------------------------------------------------------------------------
(* The labels of the segments, and what it is for a segment to be right.     *)

\* A segment begins at a statement, behind the body of one, or with the else
\* of one.
At(p)        == [kind |-> "at", pos |-> p]
Behind(a)    == [kind |-> "behind", pos |-> a]
Otherwise(a) == [kind |-> "else", pos |-> a]
Label        == [kind : {"at", "behind", "else"}, pos : Nat]

\* Only blocks open between p and q: whoever is at p is at q.
Skips(cd, p, q) == 1 <= p /\ p <= q /\ \A j \in p .. q - 1 : cd[j].op = "block"

\* A segment labelled l may begin with an instruction for statement q.  An if
\* without an else has an else segment too: it leads on from the close.
Begins(cd, l, q) ==
    \/ l.kind = "at" /\ Skips(cd, l.pos, q)
    \/ l.kind = "behind" /\ \E c \in 1 .. Len(cd) : Shuts(cd, c, l.pos) /\ Skips(cd, c + 1, q)
    \/ l.kind = "else" /\ \E e \in 1 .. Len(cd) : Turns(cd, e, l.pos) /\ Skips(cd, e + 1, q)
    \/ l.kind = "else" /\ Shuts(cd, q, l.pos) /\ ~HasElse(cd, l.pos)

\* What statement the next instruction is for: the following one, if this is
\* the last instruction of its statement.
Width(i) == IF i.shown \/ i.op \in {"block", "close"} THEN 1 ELSE 0

Copied == {"new", "use", "move", "spawn", "return", "close"} \cup Calls \cup Jumps \cup AllKinds

\* Instruction i is one that its statement may be made into.
Stands(cd, i) ==
    /\ i.src \in 1 .. Len(cd) + 1
    /\ i.src = Len(cd) + 1 => i.op \in {"goto", "finish"} /\ (i.op = "goto" => ~i.shown)
    /\ i.src \in 1 .. Len(cd) =>
        /\ i.shown /\ i.op \in Copied => cd[i.src].op = i.op
        /\ i.op \in {"block", "close"} => cd[i.src].op = i.op /\ ~i.shown
        /\ i.op \in {"spawn", "use", "move"} \cup Calls \cup Jumps \cup (AllKinds \ {"block"}) => i.shown
        /\ i.op = "take" => ~i.shown
        /\ i.op = "branch" => i.shown /\ cd[i.src].op \in {"if", "while"}
        /\ i.op = "finish" => cd[i.src].op = "return"
        /\ i.op = "goto" => IF i.shown THEN cd[i.src].op \in Jumps
                            ELSE cd[i.src].op \in {"while", "else", "close"}

\* Where a transfer made for statement p has to lead.
GoesTo(cd, p) ==
    IF p \notin 1 .. Len(cd) \/ cd[p].op = "while" THEN At(p)
    ELSE IF cd[p].op = "continue" \/ (cd[p].op = "close" /\ cd[cd[p].at].op \in Loops)
         THEN At(cd[p].at)
    ELSE Behind(cd[p].at)

Leads(cd, i, lab) ==
    /\ i.op = "goto" => lab[i.to] = GoesTo(cd, i.src)
    /\ i.op \in Calls \cup {"branch"} => lab[i.to] = At(i.src + 1)
    /\ i.op = "branch" => lab[i.other] = IF cd[i.src].op = "if" THEN Otherwise(i.src) ELSE Behind(i.src)

\* A close or a jump in a copied body belongs to the instruction that opens it.
Back(cd, s, i) == i.op \in {"close"} \cup Jumps => s[i.to].src = cd[i.src].at

\* Segment s, labelled l, tells the source in order.
Tells(cd, s, l, lab) ==
    /\ s # <<>> => Begins(cd, l, s[1].src)
    /\ \A j \in 1 .. Len(s) : Stands(cd, s[j]) /\ Leads(cd, s[j], lab) /\ Back(cd, s, s[j])
    /\ \A j \in 1 .. Len(s) - 1 :
           s[j].op \notin Terminal => Skips(cd, s[j].src + Width(s[j]), s[j + 1].src)

Traced(cd, sg, lab) == \A s \in 1 .. Len(sg) : Tells(cd, sg[s], lab[s], lab)

\* The instruction that comes next in segment s, if one can, is for statement h.
Ahead(cd, s, l, h) ==
    IF s = <<>> THEN Begins(cd, l, h)
    ELSE LET i == s[Len(s)] IN i.op \in Terminal \/ Skips(cd, i.src + Width(i), h)

\* A body that is copied has no else: a condition that does not hold leads
\* behind its close.
PlainAt(bs, cd, a) ==
    ~HasElse(cd, a) /\ (HasClose(cd, a) \/ \E i \in 1 .. Len(bs) : ~bs[i].split /\ bs[i].at = a)

Plains(bs, cd, sg) ==
    \A s \in 1 .. Len(sg) : \A j \in 1 .. Len(sg[s]) :
        sg[s][j].op \in AllKinds => PlainAt(bs, cd, sg[s][j].src)

NoElses(cd, sg) ==
    \A s \in 1 .. Len(sg) : \A j \in 1 .. Len(sg[s]) :
        sg[s][j].op \in AllKinds => ~HasElse(cd, sg[s][j].src)

\* The segments a body being split still has to fill have the labels that its
\* opening promised; the opening of one being copied is in the segment t.
SplitOwes(b, cd, lab) ==
    /\ lab[b.next] = Behind(b.at)
    /\ b.kind = "while" => lab[b.head] = At(b.at)
    /\ b.alt # 0 => b.kind = "if" /\ lab[b.alt] = Otherwise(b.at) /\ ~HasElse(cd, b.at)

OweAt(b, cd, t, lab) ==
    /\ b.split => SplitOwes(b, cd, lab)
    /\ ~b.split => t[b.open].src = b.at

Owes(bs, cd, t, lab) == \A i \in 2 .. Len(bs) : OweAt(bs[i], cd, t, lab)

\* No instruction is for a statement that is not written yet.
Past(cd, sg) == \A s \in 1 .. Len(sg) : \A j \in 1 .. Len(sg[s]) : sg[s][j].src <= Len(cd)

-----------------------------------------------------------------------------
(* Every set of natural numbers that is not empty has a least element.       *)
LEMMA LeastNumber ==
    ASSUME NEW T \in SUBSET Nat, T # {}
    PROVE  \E x \in T : \A y \in T : x <= y
<1> DEFINE R == OpToRel(<, Nat)
<1>1. IsWellFoundedOn(R, Nat)
  BY NatLessThanWellFounded DEF OpToRel
<1> HIDE DEF R
<1>2. PICK x \in T : \A y \in T : ~(<<y, x>> \in R)
  BY <1>1, WFMin
<1>3. ASSUME NEW y \in T, y < x PROVE FALSE
  BY <1>2, <1>3 DEF R, OpToRel
<1> QED  BY <1>2, <1>3

-----------------------------------------------------------------------------
(* Closes and elses, as CloseOf and ElseOf find them.                        *)

(* The close of a body is the one that CloseOf finds.                        *)
LEMMA CloseOfOnly ==
    ASSUME NEW open, Nests(code, open), NEW a, NEW c, Shuts(code, c, a)
    PROVE  CloseOf(a) = c
<1>1. c \in DOMAIN code /\ code[c].op = "close" /\ code[c].at = a
  BY DEF Shuts
<1>2. ASSUME NEW d \in DOMAIN code, code[d].op = "close" /\ code[d].at = a PROVE d = c
  BY <1>1, <1>2 DEF Nests, Once
<1> QED  BY <1>1, <1>2 DEF CloseOf, ClosesAt

(* In code without open bodies every body has a close, further on.           *)
LEMMA CloseOfIs ==
    ASSUME code \in Seq(Stmt), Nests(code, {}), NEW a \in 1 .. Len(code), code[a].op \in AllKinds
    PROVE  CloseOf(a) \in 1 .. Len(code) /\ a < CloseOf(a) /\ Shuts(code, CloseOf(a), a)
<1>1. PICK c \in 1 .. Len(code) : Shuts(code, c, a)
  BY DEF Nests, OpenersClose, HasClose
<1>2. CloseOf(a) = c
  BY <1>1, CloseOfOnly
<1>3. a \in 1 .. c - 1
  BY <1>1 DEF Shuts, Nests, ClosesMatch
<1> QED  BY <1>1, <1>2, <1>3

(* The else of a body, if it has one.                                        *)
LEMMA ElseOfNone ==
    ASSUME NEW a, ~\E e \in 1 .. Len(code) : Turns(code, e, a)
    PROVE  ElseOf(a) = {}
<1> SUFFICES ASSUME NEW e \in ElseOf(a) PROVE FALSE
  OBVIOUS
<1>1. e \in DOMAIN code /\ code[e].op = "else" /\ code[e].at = a
  BY DEF ElseOf
<1> QED  BY <1>1 DEF Turns

LEMMA ElseOfOnly ==
    ASSUME NEW open, Nests(code, open), NEW a, NEW e, Turns(code, e, a)
    PROVE  ElseOf(a) # {} /\ (CHOOSE j \in ElseOf(a) : TRUE) = e
<1>1. e \in ElseOf(a)
  BY DEF Turns, ElseOf
<1>2. ASSUME NEW d \in ElseOf(a) PROVE d = e
  BY <1>2 DEF ElseOf, Turns, Nests, Once
<1> QED  BY <1>1, <1>2
-----------------------------------------------------------------------------
(* What the source comes to next.                                            *)

(* What the recursive function in Settle maps a function to.                 *)
SettleStep(f, j) ==
    IF j > Len(code) \/ code[j].op \notin {"close", "else", "block"} THEN j
    ELSE IF code[j].op = "close" /\ code[code[j].at].op \in Loops THEN code[j].at
    ELSE f[1 + IF code[j].op = "else" THEN CloseOf(code[j].at) ELSE j]

(* The end of an arm is behind it.                                           *)
LEMMA ElseCloses ==
    ASSUME code \in Seq(Stmt), Nests(code, {}), NEW e \in 1 .. Len(code), code[e].op = "else"
    PROVE  LET c == CloseOf(code[e].at) IN c \in 1 .. Len(code) /\ e < c /\ Shuts(code, c, code[e].at)
<1>1. /\ code[e].at \in 1 .. e - 1 /\ code[code[e].at].op = "if"
      /\ \A c \in 1 .. Len(code) : Shuts(code, c, code[e].at) => e < c
  BY DEF Nests, ElsesMatch
<1>2. code[e].at \in 1 .. Len(code) /\ "if" \in AllKinds
  BY <1>1 DEF AllKinds
<1> QED  BY <1>1, <1>2, CloseOfIs

(* A step of Settle is the answer, or goes on further down.                  *)
LEMMA StepCases ==
    ASSUME code \in Seq(Stmt), Nests(code, {}), NEW f, NEW j \in 1 .. Len(code) + 1
    PROVE  \/ SettleStep(f, j) \in 1 .. Len(code) + 1 /\ \A g : SettleStep(g, j) = SettleStep(f, j)
           \/ \E k \in j + 1 .. Len(code) + 1 : \A g : SettleStep(g, j) = g[k]
<1> DEFINE N == Len(code)
<1>0. N \in Nat /\ j \in Nat
  OBVIOUS
<1>1. CASE j > N
  <2>1. \A g : SettleStep(g, j) = j
    BY <1>1 DEF SettleStep
  <2> QED  BY <2>1
<1>2. CASE j \in 1 .. N /\ code[j].op = "close" /\ code[code[j].at].op \in Loops
  <2>1. code[j].at \in 1 .. j - 1
    BY <1>2 DEF Nests, ClosesMatch
  <2>2. \A g : SettleStep(g, j) = code[j].at
    BY <1>0, <1>2 DEF SettleStep
  <2>3. code[j].at \in 1 .. N + 1
    BY <1>0, <1>2, <2>1
  <2> QED  BY <2>2, <2>3
<1>3. CASE j \in 1 .. N /\ code[j].op = "else"
  <2> DEFINE k == 1 + CloseOf(code[j].at)
  <2>1. k \in j + 1 .. N + 1
    BY <1>0, <1>3, ElseCloses
  <2>2. \A g : SettleStep(g, j) = g[k]
    BY <1>0, <1>3 DEF SettleStep
  <2> QED  BY <2>1, <2>2
<1>4. CASE /\ j \in 1 .. N /\ code[j].op \in {"close", "block"}
           /\ ~(code[j].op = "close" /\ code[code[j].at].op \in Loops)
  <2>1. 1 + j \in j + 1 .. N + 1
    BY <1>0, <1>4
  <2>2. \A g : SettleStep(g, j) = g[1 + j]
    BY <1>0, <1>4 DEF SettleStep
  <2> QED  BY <2>1, <2>2
<1>5. CASE j \in 1 .. N /\ code[j].op \notin {"close", "else", "block"}
  <2>1. \A g : SettleStep(g, j) = j
    BY <1>0, <1>5 DEF SettleStep
  <2> QED  BY <2>1
<1> QED  BY <1>0, <1>1, <1>2, <1>3, <1>4, <1>5

(* Settle is well defined: it looks only at what is further on.              *)
LEMMA SettlingExists ==
    ASSUME code \in Seq(Stmt), Nests(code, {})
    PROVE  \E f \in [1 .. Len(code) + 1 -> 1 .. Len(code) + 1] :
              f = [j \in 1 .. Len(code) + 1 |-> SettleStep(f, j)]
<1> DEFINE M == Len(code) + 1
           From(f, n) == \A j \in 1 .. M : M - n <= j => f[j] = SettleStep(f, j)
           T == {n \in Nat : ~ \E f \in [1 .. M -> 1 .. M] : From(f, n)}
<1>0. M \in Nat /\ 1 <= M
  OBVIOUS
<1>a. ASSUME NEW j \in 1 .. M, NEW f
      PROVE  \/ SettleStep(f, j) \in 1 .. M /\ \A g : SettleStep(g, j) = SettleStep(f, j)
             \/ \E k \in j + 1 .. M : \A g : SettleStep(g, j) = g[k]
  BY StepCases
<1> HIDE DEF M
<1>1. CASE T # {}
  <2>1. PICK n \in T : \A m \in T : n <= m
    BY <1>1, LeastNumber
  <2>2. PICK f \in [1 .. M -> 1 .. M] : \A j \in 1 .. M : M - (n - 1) <= j => f[j] = SettleStep(f, j)
    <3>1. CASE n = 0
      <4>1. \A j \in 1 .. M : ~(M + 1 <= j)
        BY <1>0
      <4>2. [j \in 1 .. M |-> j] \in [1 .. M -> 1 .. M]
        OBVIOUS
      <4>3. M - (n - 1) = M + 1
        BY <1>0, <3>1
      <4> QED  BY <4>1, <4>2, <4>3
    <3>2. CASE n # 0
      <4>1. n \in Nat /\ \A m \in T : m \in Nat /\ n <= m
        BY <2>1
      <4>2. n - 1 \in Nat /\ n - 1 \notin T
        <5> HIDE DEF T
        <5> QED  BY <3>2, <4>1
      <4> QED  BY <4>2
    <3> QED  BY <3>1, <3>2
  <2> DEFINE h == [j \in 1 .. M |-> IF j = M - n THEN SettleStep(f, j) ELSE f[j]]
  <2>0. n \in Nat
    BY <2>1
  <2>3. ASSUME NEW j \in 1 .. M PROVE SettleStep(f, j) \in 1 .. M
    <3>1. \A k \in j + 1 .. M : f[k] \in 1 .. M
      <4>1. \A k \in j + 1 .. M : k \in 1 .. M
        BY <1>0
      <4> QED  BY <2>2, <4>1
    <3> QED  BY <1>a, <3>1
  <2>4. h \in [1 .. M -> 1 .. M]
    BY <2>2, <2>3
  <2>5. ASSUME NEW j \in 1 .. M, M - n <= j PROVE h[j] = SettleStep(h, j)
    <3>1. \A k \in j + 1 .. M : h[k] = f[k]
      <4>1. \A k \in j + 1 .. M : k \in 1 .. M /\ k # M - n
        BY <1>0, <2>0, <2>5
      <4> QED  BY <4>1
    <3>2. SettleStep(h, j) = SettleStep(f, j)
      <4> HIDE DEF h
      <4> QED  BY <1>a, <3>1
    <3>3. h[j] = SettleStep(f, j)
      <4>1. CASE j = M - n
        BY <4>1
      <4>2. CASE j # M - n
        <5>1. M - (n - 1) <= j
          BY <1>0, <2>0, <2>5, <4>2
        <5> QED  BY <2>2, <4>2, <5>1
      <4> QED  BY <4>1, <4>2
    <3> QED  BY <3>2, <3>3
  <2>6. From(h, n)
    BY <2>5
  <2> HIDE DEF h, From
  <2> QED  BY <2>1, <2>4, <2>6
<1>2. CASE T = {}
  <2>1. PICK f \in [1 .. M -> 1 .. M] : From(f, M)
    BY <1>0, <1>2
  <2>2. \A j \in 1 .. M : M - M <= j
    BY <1>0
  <2>3. \A j \in 1 .. M : f[j] = SettleStep(f, j)
    BY <2>1, <2>2
  <2>4. f = [j \in 1 .. M |-> SettleStep(f, j)]
    BY <2>1, <2>3
  <2> QED  BY <2>1, <2>4 DEF M
<1> QED  BY <1>1, <1>2

(* So Settle is the function that the equation has.                          *)
LEMMA SettleIs ==
    ASSUME code \in Seq(Stmt), Nests(code, {})
    PROVE  \E g \in [1 .. Len(code) + 1 -> 1 .. Len(code) + 1] :
              /\ \A j \in 1 .. Len(code) + 1 : g[j] = SettleStep(g, j)
              /\ \A j : Settle(j) = g[j]
<1> DEFINE M == Len(code) + 1
           g == CHOOSE f : f = [j \in 1 .. M |-> SettleStep(f, j)]
<1>0. M \in Nat
  OBVIOUS
<1>1. g = [j \in 1 .. M |-> SettleStep(g, j)]
  BY SettlingExists
<1>2. \A j : Settle(j) = g[j]
  BY DEF Settle, SettleStep
<1>a. ASSUME NEW j \in 1 .. M
      PROVE  \/ SettleStep(g, j) \in 1 .. M
             \/ \E k \in j + 1 .. M : SettleStep(g, j) = g[k]
  <2> HIDE DEF g
  <2> QED  BY StepCases
<1> HIDE DEF g, M
<1>3. \A j \in 1 .. M : g[j] = SettleStep(g, j)
  BY <1>1
<1> DEFINE T == {n \in Nat : \E j \in 1 .. M : n = M - j /\ g[j] \notin 1 .. M}
<1>4. T = {}
  <2> SUFFICES ASSUME T # {} PROVE FALSE
    OBVIOUS
  <2>1. PICK n \in T : \A m \in T : n <= m
    BY LeastNumber
  <2>2. PICK j \in 1 .. M : n = M - j /\ g[j] \notin 1 .. M
    BY <2>1
  <2>3. PICK k \in j + 1 .. M : g[j] = g[k]
    BY <1>a, <1>3, <2>2
  <2>4. k \in 1 .. M /\ M - k \in Nat /\ ~(n <= M - k)
    BY <1>0, <2>2, <2>3
  <2>5. M - k \in T
    BY <2>2, <2>3, <2>4
  <2> HIDE DEF T
  <2> QED  BY <2>1, <2>4, <2>5
<1>5. \A j \in 1 .. M : g[j] \in 1 .. M
  <2> SUFFICES ASSUME NEW j \in 1 .. M, g[j] \notin 1 .. M PROVE FALSE
    OBVIOUS
  <2>1. M - j \in Nat
    BY <1>0
  <2> QED  BY <1>4, <2>1
<1>6. g \in [1 .. M -> 1 .. M]
  BY <1>1, <1>5
<1> QED  BY <1>2, <1>3, <1>6 DEF M

(* Its values are positions, and the one behind the last statement.          *)
LEMMA SettleTyped ==
    ASSUME code \in Seq(Stmt), Nests(code, {}), NEW j \in 1 .. Len(code) + 1
    PROVE  Settle(j) \in 1 .. Len(code) + 1
BY SettleIs

LEMMA SettleUnfolds ==
    ASSUME code \in Seq(Stmt), Nests(code, {}), NEW j \in 1 .. Len(code) + 1
    PROVE  \E g : Settle(j) = SettleStep(g, j) /\ \A k : g[k] = Settle(k)
BY SettleIs

(* A statement that does something is where it is,                           *)
LEMMA SettleHere ==
    ASSUME code \in Seq(Stmt), Nests(code, {}), NEW j \in 1 .. Len(code) + 1,
           j \in 1 .. Len(code) => code[j].op \notin {"close", "else", "block"}
    PROVE  Settle(j) = j
<1>1. PICK g : Settle(j) = SettleStep(g, j) /\ \A k : g[k] = Settle(k)
  BY SettleUnfolds
<1>2. j > Len(code) \/ code[j].op \notin {"close", "else", "block"}
  OBVIOUS
<1> QED  BY <1>1, <1>2 DEF SettleStep

(* the end of a loop body goes back to the condition,                        *)
LEMMA SettleLoop ==
    ASSUME code \in Seq(Stmt), Nests(code, {}), NEW j \in 1 .. Len(code),
           code[j].op = "close", code[code[j].at].op \in Loops
    PROVE  Settle(j) = code[j].at
<1>1. PICK g : Settle(j) = SettleStep(g, j) /\ \A k : g[k] = Settle(k)
  <2>1. j \in 1 .. Len(code) + 1
    OBVIOUS
  <2> QED  BY <2>1, SettleUnfolds
<1>2. ~(j > Len(code))
  OBVIOUS
<1> QED  BY <1>1, <1>2 DEF SettleStep

(* the end of an arm behind the other one,                                   *)
LEMMA SettleElse ==
    ASSUME code \in Seq(Stmt), Nests(code, {}), NEW j \in 1 .. Len(code), code[j].op = "else"
    PROVE  Settle(j) = Settle(CloseOf(code[j].at) + 1)
<1>1. PICK g : Settle(j) = SettleStep(g, j) /\ \A k : g[k] = Settle(k)
  <2>1. j \in 1 .. Len(code) + 1
    OBVIOUS
  <2> QED  BY <2>1, SettleUnfolds
<1>2. ~(j > Len(code))
  OBVIOUS
<1>3. SettleStep(g, j) = g[1 + CloseOf(code[j].at)]
  BY <1>2 DEF SettleStep
<1>4. 1 + CloseOf(code[j].at) = CloseOf(code[j].at) + 1
  BY ElseCloses
<1> QED  BY <1>1, <1>3, <1>4

(* and any other end, or the beginning of a block, to the next statement.    *)
LEMMA SettleOn ==
    ASSUME code \in Seq(Stmt), Nests(code, {}), NEW j \in 1 .. Len(code),
           code[j].op = "block" \/ (code[j].op = "close" /\ code[code[j].at].op \notin Loops)
    PROVE  Settle(j) = Settle(j + 1)
<1>1. PICK g : Settle(j) = SettleStep(g, j) /\ \A k : g[k] = Settle(k)
  <2>1. j \in 1 .. Len(code) + 1
    OBVIOUS
  <2> QED  BY <2>1, SettleUnfolds
<1>2. ~(j > Len(code)) /\ j + 1 = 1 + j
  OBVIOUS
<1>3. SettleStep(g, j) = g[1 + j]
  BY <1>2 DEF SettleStep
<1> QED  BY <1>1, <1>2, <1>3

(* Blocks make no difference.                                                *)
LEMMA SettleSkips ==
    ASSUME code \in Seq(Stmt), Nests(code, {}), NEW p \in Nat, NEW q \in 1 .. Len(code) + 1,
           Skips(code, p, q)
    PROVE  Settle(p) = Settle(q)
<1> DEFINE T == {n \in Nat : \E k \in p .. q : n = q - k /\ Settle(k) # Settle(q)}
<1>0. p \in Nat /\ q \in Nat /\ 1 <= p /\ p <= q /\ q <= Len(code) + 1 /\ Len(code) \in Nat
  BY DEF Skips
<1>1. T = {}
  <2> SUFFICES ASSUME T # {} PROVE FALSE
    OBVIOUS
  <2>1. PICK n \in T : \A m \in T : n <= m
    BY LeastNumber
  <2>2. PICK k \in p .. q : n = q - k /\ Settle(k) # Settle(q)
    BY <2>1
  <2>3. k # q
    BY <2>2
  <2>4. k \in p .. q - 1 /\ k \in 1 .. Len(code) /\ k + 1 \in p .. q /\ q - (k + 1) \in Nat
        /\ ~(n <= q - (k + 1))
    BY <1>0, <2>2, <2>3
  <2>5. code[k].op = "block"
    BY <2>4 DEF Skips
  <2>6. Settle(k) = Settle(k + 1)
    BY <2>4, <2>5, SettleOn
  <2>7. q - (k + 1) \in T
    BY <2>2, <2>4, <2>6
  <2> HIDE DEF T
  <2> QED  BY <2>1, <2>4, <2>7
<1>2. q - p \in Nat /\ p \in p .. q
  BY <1>0
<1> QED  BY <1>1, <1>2
-----------------------------------------------------------------------------
(* What a label means.                                                       *)

(* Where an if or a loop goes when its condition does not hold.              *)
BehindElse(a) == 1 + IF ElseOf(a) = {} THEN CloseOf(a) ELSE CHOOSE j \in ElseOf(a) : TRUE

(* The statement the source is at where a segment labelled l begins.         *)
Means(l) ==
    IF l.kind = "at" THEN Settle(l.pos)
    ELSE IF l.kind = "behind" THEN Settle(CloseOf(l.pos) + 1)
    ELSE Settle(BehindElse(l.pos))

(* A segment begins where its label says.                                    *)
LEMMA BeginsSettles ==
    ASSUME code \in Seq(Stmt), Nests(code, {}), NEW l \in Label, NEW q \in 1 .. Len(code) + 1,
           Begins(code, l, q), l.kind = "else" => code[l.pos].op = "if"
    PROVE  Settle(q) = Means(l)
<1>0. l.pos \in Nat /\ Len(code) \in Nat
  BY DEF Label
<1>1. CASE l.kind = "at"
  <2>1. Skips(code, l.pos, q)
    BY <1>1 DEF Begins, HasElse
  <2> QED  BY <1>0, <1>1, <2>1, SettleSkips DEF Means
<1>2. CASE l.kind = "behind"
  <2>1. PICK c \in 1 .. Len(code) : Shuts(code, c, l.pos) /\ Skips(code, c + 1, q)
    BY <1>2 DEF Begins, HasElse
  <2>2. CloseOf(l.pos) = c
    BY <2>1, CloseOfOnly
  <2>3. c + 1 \in Nat
    BY <2>1
  <2> QED  BY <1>2, <2>1, <2>2, <2>3, SettleSkips DEF Means
<1>3. CASE l.kind = "else" /\ \E e \in 1 .. Len(code) : Turns(code, e, l.pos) /\ Skips(code, e + 1, q)
  <2>1. PICK e \in 1 .. Len(code) : Turns(code, e, l.pos) /\ Skips(code, e + 1, q)
    BY <1>3
  <2>2. BehindElse(l.pos) = 1 + e
    BY <2>1, ElseOfOnly DEF BehindElse
  <2>3. e + 1 \in Nat /\ 1 + e = e + 1
    BY <2>1
  <2> QED  BY <1>3, <2>1, <2>2, <2>3, SettleSkips DEF Means
<1>4. CASE l.kind = "else" /\ Shuts(code, q, l.pos) /\ ~\E e \in 1 .. Len(code) : Turns(code, e, l.pos)
  <2>1. ElseOf(l.pos) = {} /\ CloseOf(l.pos) = q
    BY <1>4, ElseOfNone, CloseOfOnly
  <2>2. BehindElse(l.pos) = 1 + q
    BY <2>1 DEF BehindElse
  <2>3. q \in 1 .. Len(code) /\ code[q].op = "close" /\ code[q].at = l.pos /\ 1 + q = q + 1
    BY <1>4 DEF Shuts
  <2>4. Settle(q) = Settle(q + 1)
    BY <1>4, <2>3, SettleOn DEF Loops
  <2> QED  BY <1>4, <2>2, <2>3, <2>4 DEF Means
<1>5. l.kind \in {"at", "behind", "else"}
  BY DEF Label
<1> QED  BY <1>1, <1>2, <1>3, <1>4, <1>5 DEF Begins, HasElse

-----------------------------------------------------------------------------
(* Where the source goes from a statement.                                   *)

(* Where the source goes, by statement.                                      *)
LEMMA NextOfContinue ==
    ASSUME NEW i, NEW taken \in BOOLEAN, code[i].op = "continue" PROVE SourceNext(i, taken) = code[i].at
BY DEF SourceNext

LEMMA NextOfBreak ==
    ASSUME NEW i, NEW taken \in BOOLEAN, code[i].op = "break"
    PROVE  SourceNext(i, taken) = Settle(CloseOf(code[i].at) + 1)
BY DEF SourceNext

LEMMA NextOfNo ==
    ASSUME NEW i, code[i].op \in Loops \cup {"if"}
    PROVE  SourceNext(i, FALSE) = Settle(BehindElse(i))
BY DEF SourceNext, BehindElse, Loops

LEMMA NextOfYes ==
    ASSUME NEW i, code[i].op \notin {"return", "continue", "break"}
    PROVE  SourceNext(i, TRUE) = Settle(i + 1)
BY DEF SourceNext

LEMMA NextOfReturn ==
    ASSUME NEW i, NEW taken \in BOOLEAN, code[i].op = "return" PROVE SourceNext(i, taken) = Len(code) + 1
BY DEF SourceNext

LEMMA NextOfPlain ==
    ASSUME NEW i, NEW taken, code[i].op \notin {"return", "continue", "break", "if"} \cup Loops
    PROVE  SourceNext(i, taken) = Settle(i + 1)
BY DEF SourceNext

(* Behind the arm of an if, or behind a loop.                                *)
LEMMA BehindElseIs ==
    ASSUME code \in Seq(Stmt), Nests(code, {}), NEW a \in 1 .. Len(code), code[a].op \in Loops \cup {"if"}
    PROVE  BehindElse(a) \in 1 .. Len(code) + 1
<1>0. code[a].op \in AllKinds
  BY DEF AllKinds
<1>1. CloseOf(a) \in 1 .. Len(code)
  BY <1>0, CloseOfIs
<1>2. CASE \E e \in 1 .. Len(code) : Turns(code, e, a)
  <2>1. PICK e \in 1 .. Len(code) : Turns(code, e, a)
    BY <1>2
  <2>2. BehindElse(a) = 1 + e
    BY <2>1, ElseOfOnly DEF BehindElse
  <2> QED  BY <2>1, <2>2
<1>3. CASE ~\E e \in 1 .. Len(code) : Turns(code, e, a)
  <2>1. BehindElse(a) = 1 + CloseOf(a)
    BY <1>3, ElseOfNone DEF BehindElse
  <2> QED  BY <1>1, <2>1
<1> QED  BY <1>2, <1>3

(* A jump leads to its loop, or behind it.                                   *)
LEMMA JumpIs ==
    ASSUME code \in Seq(Stmt), Nests(code, {}), NEW p \in 1 .. Len(code), code[p].op \in Jumps
    PROVE  /\ code[p].at \in 1 .. Len(code) /\ code[code[p].at].op \in Loops
           /\ CloseOf(code[p].at) \in 1 .. Len(code)
           /\ Settle(code[p].at) = code[p].at
<1>1. code[p].at \in 1 .. Len(code) /\ code[code[p].at].op \in Loops
  BY DEF Nests, JumpsMatch
<1>2. CloseOf(code[p].at) \in 1 .. Len(code)
  BY <1>1, CloseOfIs DEF AllKinds
<1>3. code[p].at \in 1 .. Len(code) + 1 /\ code[code[p].at].op \notin {"close", "else", "block"}
  BY <1>1 DEF Loops
<1> QED  BY <1>1, <1>2, <1>3, SettleHere

(* The source goes to a statement or to its end.                             *)
LEMMA SourceNextTyped ==
    ASSUME code \in Seq(Stmt), Nests(code, {}), NEW p \in 1 .. Len(code), NEW taken \in BOOLEAN
    PROVE  SourceNext(p, taken) \in 1 .. Len(code) + 1
<1>0. Len(code) \in Nat /\ p + 1 \in 1 .. Len(code) + 1
  OBVIOUS
<1>1. CASE code[p].op = "return"
  BY <1>0, <1>1, NextOfReturn
<1>2. CASE code[p].op = "continue"
  BY <1>0, <1>2, NextOfContinue, JumpIs DEF Jumps
<1>3. CASE code[p].op = "break"
  <2>1. CloseOf(code[p].at) + 1 \in 1 .. Len(code) + 1
    BY <1>0, <1>3, JumpIs DEF Jumps
  <2> QED  BY <1>3, <2>1, NextOfBreak, SettleTyped
<1>4. CASE code[p].op \in Loops \cup {"if"} /\ taken = FALSE
  <2>1. BehindElse(p) \in 1 .. Len(code) + 1
    BY <1>4, BehindElseIs
  <2> QED  BY <1>4, <2>1, NextOfNo, SettleTyped
<1>5. CASE taken = TRUE /\ code[p].op \notin {"return", "continue", "break"}
  BY <1>0, <1>5, NextOfYes, SettleTyped
<1>6. CASE code[p].op \notin {"return", "continue", "break", "if"} \cup Loops
  BY <1>0, <1>6, NextOfPlain, SettleTyped
<1> QED  BY <1>1, <1>2, <1>3, <1>4, <1>5, <1>6
-----------------------------------------------------------------------------
(* Where a run goes, the source goes.                                        *)

(* The code that is ready to run.                                            *)
Final(cd, sg) ==
    /\ cd \in Seq(Stmt) /\ Nests(cd, {}) /\ NoElses(cd, sg)
    /\ \E lab \in [1 .. Len(sg) -> Label] : Traced(cd, sg, lab) /\ lab[1] = At(1)

(* The instruction of a place, and what there is to know of it.              *)
LEMMA PlaceIs ==
    ASSUME Final(code, segs), Sealed(segs), NEW s \in 1 .. Len(segs), NEW j \in 1 .. Len(segs[s])
    PROVE  /\ segs[s][j] \in Instr /\ Stands(code, segs[s][j]) /\ segs[s][j].src \in 1 .. Len(code) + 1
           /\ Back(code, segs[s], segs[s][j]) /\ Fits(segs[s][j], segs[s], Len(segs))
<1>1. PICK lab \in [1 .. Len(segs) -> Label] : Traced(code, segs, lab)
  BY DEF Final
<1>2. Stands(code, segs[s][j]) /\ Back(code, segs[s], segs[s][j])
  BY <1>1 DEF Traced, Tells
<1>3. segs[s] \in Seq(Instr) /\ segs[s][j] \in Instr
  BY DEF Sealed
<1>4. Fits(segs[s][j], segs[s], Len(segs))
  BY <1>3 DEF Sealed, AllGood, Good
<1> QED  BY <1>2, <1>3, <1>4 DEF Stands

(* Labels are labels.                                                        *)
LEMMA LabelIs ==
    ASSUME NEW p \in Nat
    PROVE  /\ At(p) \in Label /\ Behind(p) \in Label /\ Otherwise(p) \in Label
           /\ At(p).kind = "at" /\ At(p).pos = p
           /\ Behind(p).kind = "behind" /\ Behind(p).pos = p
           /\ Otherwise(p).kind = "else" /\ Otherwise(p).pos = p
BY DEF At, Behind, Otherwise, Label

(* At the start of a segment the source is where its label says.             *)
LEMMA Arrives ==
    ASSUME Final(code, segs), Sealed(segs),
           NEW lab \in [1 .. Len(segs) -> Label], Traced(code, segs, lab),
           NEW n \in 1 .. Len(segs), lab[n].kind = "else" => code[lab[n].pos].op = "if"
    PROVE  Settle(segs[n][1].src) = Means(lab[n])
<1>1. 1 \in 1 .. Len(segs[n]) /\ segs[n] # <<>>
  <2>1. 1 \in DOMAIN segs[n]
    BY TransferLands
  <2>2. segs[n] \in Seq(Instr)
    BY DEF Sealed
  <2> QED  BY <2>1, <2>2
<1>2. segs[n][1].src \in 1 .. Len(code) + 1
  BY <1>1, PlaceIs
<1>3. Begins(code, lab[n], segs[n][1].src)
  BY <1>1 DEF Traced, Tells
<1> QED  BY <1>2, <1>3, BeginsSettles DEF Final

-----------------------------------------------------------------------------
(* A run beside the source: what Follow, WriteBack and the others leave      *)
(* alone.                                                                    *)

(* Where the source of a run is, step by step.                               *)
LEMMA FollowSrc ==
    ASSUME NEW r, IsRun(r), NEW taken PROVE Follow(r, taken).src = SourceNext(Current.src, taken)
  BY DEF Follow, IsRun

(* Nothing but Follow moves the source.                                      *)
LEMMA WriteBackSrc ==
    ASSUME NEW r, IsRun(r), NEW names PROVE WriteBack(r, names).src = r.src
  BY DEF WriteBack, IsRun

LEMMA FlushedSrc ==
    ASSUME NEW r, IsRun(r) PROVE Flushed(r).src = r.src
  BY WriteBackSrc DEF Flushed

LEMMA DeliverSrc ==
    ASSUME NEW r, IsRun(r), NEW call, NEW bit PROVE Deliver(r, call, bit).src = r.src
<1> DEFINE q == [r EXCEPT !.env["rc"] = 0]
<1>1. Alike(q, r) /\ q.src = r.src
  BY DEF Alike, IsRun
<1> QED  BY <1>1 DEF Deliver, Alike, IsRun

LEMMA DispatchSrc ==
    ASSUME NEW r, IsRun(r), NEW id PROVE Dispatch(r, id).src = r.src
  BY DEF Dispatch, IsRun

(* A run is at an instruction for the statement the source is at, or waits   *)
(* for the segment that begins with one.                                     *)
OnTrack(r) ==
    /\ r.at = "segment" => r.src = Settle(segs[r.state][r.pc].src)
    /\ r.at = "waiting" => Unstarted(r) \/ r.src = Settle(segs[r.state][1].src)

(* What the steps of a run rest on.                                          *)
OnCourse ==
    /\ Final(code, segs) /\ Sealed(segs) /\ Kept(run) /\ OnTrack(run)
    /\ "plain-return" \notin Shapes

(* The instruction a run is at.                                              *)
LEMMA PlaceNow ==
    ASSUME OnCourse, run.at = "segment"
    PROVE  /\ run.state \in 1 .. Len(segs) /\ run.pc \in 1 .. Len(segs[run.state])
           /\ segs[run.state] \in Seq(Instr)
           /\ Segment = segs[run.state] /\ Current = segs[run.state][run.pc]
           /\ Current \in Instr /\ Stands(code, Current) /\ Current.src \in 1 .. Len(code) + 1
           /\ Back(code, segs[run.state], Current)
           /\ Fits(Current, segs[run.state], Len(segs))
           /\ run.src = Settle(Current.src)
           /\ Len(code) \in Nat
<1>1. run.state \in DOMAIN segs /\ run.pc \in DOMAIN segs[run.state]
  <2>1. InCode(run, segs)
    BY DEF OnCourse, Kept
  <2> QED  BY <2>1 DEF InCode
<1>2. segs \in Seq(Seq(Instr))
  BY DEF OnCourse, Sealed
<1>3. run.state \in 1 .. Len(segs) /\ segs[run.state] \in Seq(Instr)
  <2> DEFINE T == Seq(Instr)
  <2>1. segs \in Seq(T)
    BY <1>2
  <2> HIDE DEF T
  <2>2. DOMAIN segs = 1 .. Len(segs) /\ segs[run.state] \in T
    BY <1>1, <2>1
  <2> QED  BY <1>1, <2>2 DEF T
<1>4. run.pc \in 1 .. Len(segs[run.state])
  BY <1>1, <1>3
<1>5. Segment = segs[run.state] /\ Current = segs[run.state][run.pc]
  BY DEF Segment, Current
<1>6. /\ segs[run.state][run.pc] \in Instr /\ Stands(code, segs[run.state][run.pc])
      /\ segs[run.state][run.pc].src \in 1 .. Len(code) + 1
      /\ Back(code, segs[run.state], segs[run.state][run.pc])
      /\ Fits(segs[run.state][run.pc], segs[run.state], Len(segs))
  BY <1>3, <1>4, PlaceIs DEF OnCourse
<1>7. run.src = Settle(Current.src)
  BY <1>5 DEF OnCourse, OnTrack
<1>8. Len(code) \in Nat
  BY DEF OnCourse, Final
<1>9. /\ Current \in Instr /\ Stands(code, Current) /\ Current.src \in 1 .. Len(code) + 1
      /\ Back(code, segs[run.state], Current)
      /\ Fits(Current, segs[run.state], Len(segs))
  BY <1>5, <1>6
<1> QED  BY <1>3, <1>4, <1>5, <1>7, <1>8, <1>9

(* The next instruction of a segment is for what the source does next.       *)
LEMMA NextPlace ==
    ASSUME Final(code, segs), Sealed(segs), NEW s \in 1 .. Len(segs), NEW j \in 1 .. Len(segs[s]),
           segs[s][j].op \notin Terminal
    PROVE  /\ j + 1 \in 1 .. Len(segs[s])
           /\ Settle(segs[s][j].src + Width(segs[s][j])) = Settle(segs[s][j + 1].src)
<1>1. segs[s] \in Seq(Instr) /\ Ended(segs[s])
  BY DEF Sealed, Whole
<1>2. j + 1 \in 1 .. Len(segs[s]) /\ j \in 1 .. Len(segs[s]) - 1
  BY <1>1, GoesOn
<1>3. PICK lab \in [1 .. Len(segs) -> Label] : Traced(code, segs, lab)
  BY DEF Final
<1>4. Skips(code, segs[s][j].src + Width(segs[s][j]), segs[s][j + 1].src)
  BY <1>2, <1>3 DEF Traced, Tells
<1>5. segs[s][j].src \in 1 .. Len(code) + 1 /\ segs[s][j + 1].src \in 1 .. Len(code) + 1
  BY <1>2, PlaceIs
<1>6. Width(segs[s][j]) \in {0, 1}
  BY DEF Width
<1>7. segs[s][j].src + Width(segs[s][j]) \in Nat
  BY <1>5, <1>6
<1> QED  BY <1>2, <1>4, <1>5, <1>7, SettleSkips DEF Final

(* The first instruction of a segment that is led to.                        *)
LEMMA LedTo ==
    ASSUME Final(code, segs), Sealed(segs), NEW s \in 1 .. Len(segs), NEW j \in 1 .. Len(segs[s])
    PROVE  LET i == segs[s][j] IN
           /\ i.op \in Calls \cup {"branch"} =>
                /\ i.to \in 1 .. Len(segs) /\ Settle(segs[i.to][1].src) = Settle(i.src + 1)
           /\ i.op = "branch" =>
                /\ i.other \in 1 .. Len(segs)
                /\ Settle(segs[i.other][1].src) =
                     IF code[i.src].op = "if" THEN Settle(BehindElse(i.src)) ELSE Settle(CloseOf(i.src) + 1)
           /\ i.op = "goto" =>
                /\ i.to \in 1 .. Len(segs) /\ Settle(segs[i.to][1].src) = Means(GoesTo(code, i.src))
<1> DEFINE i == segs[s][j]
<1>1. PICK lab \in [1 .. Len(segs) -> Label] : Traced(code, segs, lab)
  BY DEF Final
<1>2. Leads(code, i, lab)
  BY <1>1 DEF Traced, Tells
<1>3. i \in Instr /\ i.src \in 1 .. Len(code) + 1 /\ Fits(i, segs[s], Len(segs)) /\ Stands(code, i)
      /\ Len(code) \in Nat
  BY PlaceIs DEF Final
<1> HIDE DEF i
<1>4. ASSUME i.op \in Calls \cup {"branch"}
      PROVE  i.to \in 1 .. Len(segs) /\ Settle(segs[i.to][1].src) = Settle(i.src + 1)
  <2>1. i.to \in 1 .. Len(segs) /\ lab[i.to] = At(i.src + 1)
    BY <1>2, <1>3, <1>4 DEF Leads, Fits, Transfers
  <2>2. i.src + 1 \in Nat
    BY <1>3
  <2>3. lab[i.to].kind = "at" /\ lab[i.to].pos = i.src + 1
    BY <2>1, <2>2, LabelIs
  <2>4. Settle(segs[i.to][1].src) = Means(lab[i.to])
    BY <1>1, <2>1, <2>3, Arrives
  <2> QED  BY <2>1, <2>3, <2>4 DEF Means
<1>5. ASSUME i.op = "branch"
      PROVE  /\ i.other \in 1 .. Len(segs)
             /\ Settle(segs[i.other][1].src) =
                  IF code[i.src].op = "if" THEN Settle(BehindElse(i.src)) ELSE Settle(CloseOf(i.src) + 1)
  <2>1. i.other \in 1 .. Len(segs)
    BY <1>3, <1>5 DEF Fits
  <2>2. lab[i.other] = IF code[i.src].op = "if" THEN Otherwise(i.src) ELSE Behind(i.src)
    BY <1>2, <1>5 DEF Leads
  <2>3. CASE code[i.src].op = "if"
    <3>1. lab[i.other].kind = "else" /\ lab[i.other].pos = i.src
      BY <1>3, <2>2, <2>3, LabelIs
    <3>2. Settle(segs[i.other][1].src) = Means(lab[i.other])
      BY <1>1, <2>1, <2>3, <3>1, Arrives
    <3> QED  BY <2>1, <2>3, <3>1, <3>2 DEF Means
  <2>4. CASE code[i.src].op # "if"
    <3>1. lab[i.other].kind = "behind" /\ lab[i.other].pos = i.src
      BY <1>3, <2>2, <2>4, LabelIs
    <3>2. Settle(segs[i.other][1].src) = Means(lab[i.other])
      BY <1>1, <2>1, <3>1, Arrives
    <3> QED  BY <2>1, <2>4, <3>1, <3>2 DEF Means
  <2> QED  BY <2>3, <2>4
<1>6. ASSUME i.op = "goto"
      PROVE  i.to \in 1 .. Len(segs) /\ Settle(segs[i.to][1].src) = Means(GoesTo(code, i.src))
  <2>1. i.to \in 1 .. Len(segs) /\ lab[i.to] = GoesTo(code, i.src)
    BY <1>2, <1>3, <1>6 DEF Leads, Fits, Transfers
  <2>2. lab[i.to].kind # "else"
    <3>1. ASSUME NEW p PROVE At(p).kind = "at" /\ Behind(p).kind = "behind"
      BY DEF At, Behind
    <3> QED  BY <2>1, <3>1 DEF GoesTo
  <2>3. Settle(segs[i.to][1].src) = Means(lab[i.to])
    BY <1>1, <2>1, <2>2, Arrives
  <2> QED  BY <2>1, <2>3
<1> QED  BY <1>4, <1>5, <1>6 DEF i

-----------------------------------------------------------------------------
(* A run of the code that is ready, statement by statement.                  *)

(* A step to the next instruction keeps a run on track, if the source goes   *)
(* where that instruction says.                                              *)
LEMMA GoesNext ==
    ASSUME OnCourse, run.at = "segment", Current.op \notin Terminal,
           NEW q, q.at = "segment", q.state = run.state, q.pc = run.pc + 1,
           q.src = Settle(Current.src + Width(Current))
    PROVE  OnTrack(q)
<1>1. /\ run.state \in 1 .. Len(segs) /\ run.pc \in 1 .. Len(segs[run.state])
      /\ Current = segs[run.state][run.pc]
  BY PlaceNow
<1>2. Settle(Current.src + Width(Current)) = Settle(segs[run.state][run.pc + 1].src)
  BY <1>1, NextPlace DEF OnCourse
<1> QED  BY <1>2 DEF OnTrack

(* So does a step to the beginning of the right segment.                     *)
LEMMA GoesThere ==
    ASSUME NEW q, NEW n, q.state = n, q.pc = 1, q.at # "stopped", q.src = Settle(segs[n][1].src)
    PROVE  OnTrack(q)
  BY DEF OnTrack

(* A statement that is shown is the one the source is at.                    *)
LEMMA ShownIs ==
    ASSUME OnCourse, run.at = "segment",
           Current.op \in {"use", "move", "spawn"} \cup Calls \cup Jumps \cup (AllKinds \ {"block"})
             \/ (Current.op = "new" /\ Current.shown)
    PROVE  /\ Current.shown /\ Width(Current) = 1
           /\ Current.src \in 1 .. Len(code) /\ code[Current.src].op = Current.op
<1>1. Stands(code, Current) /\ Current.src \in 1 .. Len(code) + 1 /\ Len(code) \in Nat
  BY PlaceNow
<1>2. Current.src # Len(code) + 1
  BY <1>1 DEF Stands, Calls, Jumps, AllKinds, Loops
<1>3. Current.src \in 1 .. Len(code)
  BY <1>1, <1>2
<1>4. Current.shown
  BY <1>1, <1>3 DEF Stands
<1>5. Current.op \in Copied
  BY DEF Copied
<1> QED  BY <1>1, <1>3, <1>4, <1>5 DEF Stands, Width

(* A statement that is carried out and followed by the next.                 *)
LEMMA StraightFollows ==
    ASSUME OnCourse, run.at = "segment",
           Current.op \in {"use", "move", "spawn"} \/ (Current.op = "new" /\ Current.shown),
           NEW q, q.at = "segment", q.state = run.state, q.pc = run.pc + 1,
           q.src = SourceNext(Current.src, TRUE)
    PROVE  OnTrack(q)
<1>1. /\ Width(Current) = 1 /\ code[Current.src].op = Current.op
  BY ShownIs
<1>2. SourceNext(Current.src, TRUE) = Settle(Current.src + 1)
  BY <1>1, NextOfYes
<1>3. Current.op \notin Terminal
  BY DEF Terminal, Transfers, Calls
<1> QED  BY <1>1, <1>2, <1>3, GoesNext

(* The entry segment begins at the first statement.                          *)
LEMMA StartTracks ==
    ASSUME OnCourse, Start PROVE OnTrack(run')
<1>1. PICK lab \in [1 .. Len(segs) -> Label] : Traced(code, segs, lab) /\ lab[1] = At(1)
  BY DEF OnCourse, Final
<1>2. 1 \in 1 .. Len(segs)
  BY DEF OnCourse, Sealed
<1>3. lab[1].kind = "at" /\ lab[1].pos = 1
  BY <1>1, LabelIs
<1>4. Settle(segs[1][1].src) = Settle(1)
  BY <1>1, <1>2, <1>3, Arrives DEF OnCourse, Means
<1> DEFINE d == Dispatch(run, 1)
           q == [d EXCEPT !.src = Settle(1)]
<1>5. q.state = 1 /\ q.pc = 1 /\ q.at = "segment" /\ q.src = Settle(1)
  <2>1. IsRun(d) /\ d.state = 1 /\ d.pc = 1 /\ d.at = "segment"
    BY DispatchStarts DEF OnCourse, Kept
  <2> HIDE DEF d
  <2> QED BY <2>1 DEF IsRun
<1>6. run' = q
  BY DEF Start, Becomes
<1> HIDE DEF q
<1> QED  BY <1>4, <1>5, <1>6, GoesThere

(* Reading and moving, assigning, starting a task, taking a status.          *)
LEMMA ReadsTracks ==
    ASSUME OnCourse, Reads, phase' = "run" PROVE OnTrack(run')
<1> DEFINE f == Flushed(run)
           env == IF Current.op = "move" THEN None ELSE f.env[Current.name]
           there == [f EXCEPT !.pc = @ + 1, !.env[Current.name] = env]
           q == Follow(there, TRUE)
<1>0. run.at = "segment" /\ Current.op \in {"use", "move"} /\ IsRun(run)
  BY DEF Reads, Step, OnCourse, Kept
<1>1. IsRun(there) /\ there.state = run.state /\ there.pc = run.pc + 1 /\ there.at = "segment"
  <2>1. Alike(f, run)
    BY <1>0, FlushedAlike
  <2> HIDE DEF f, env
  <2> QED  BY <1>0, <2>1 DEF Alike, IsRun
<1>2. q.at = "segment" /\ q.state = run.state /\ q.pc = run.pc + 1
      /\ q.src = SourceNext(Current.src, TRUE)
  <2> HIDE DEF there
  <2>1. Alike(q, there)
    BY <1>1, FollowAlike
  <2> QED  BY <1>1, <2>1, FollowSrc DEF Alike
<1>3. run' = q
  BY DEF Reads, Step, Becomes
<1> HIDE DEF q
<1> QED  BY <1>0, <1>2, <1>3, StraightFollows

LEMMA RunNewTracks ==
    ASSUME OnCourse, RunNew PROVE OnTrack(run')
<1> DEFINE value == IF Current.shown THEN Other(Current.name) ELSE 0
           there == [run EXCEPT !.pc = @ + 1, !.regs[Current.name] = value]
           told  == [there EXCEPT !.env[Current.name] = value]
           q == Follow(told, TRUE)
<1>0. run.at = "segment" /\ Current.op = "new" /\ IsRun(run)
  BY DEF RunNew, Step, OnCourse, Kept
<1>1. /\ IsRun(there) /\ there.state = run.state /\ there.pc = run.pc + 1 /\ there.at = "segment"
      /\ there.src = run.src
  <2> HIDE DEF value
  <2> QED  BY <1>0 DEF IsRun
<1>2. IsRun(told) /\ told.state = run.state /\ told.pc = run.pc + 1 /\ told.at = "segment"
  <2> HIDE DEF value, there
  <2> QED  BY <1>1 DEF IsRun
<1>3. q.at = "segment" /\ q.state = run.state /\ q.pc = run.pc + 1
      /\ q.src = SourceNext(Current.src, TRUE)
  <2> HIDE DEF told
  <2>1. Alike(q, told)
    BY <1>2, FollowAlike
  <2> QED  BY <1>2, <2>1, FollowSrc DEF Alike
<1>4. CASE Current.shown
  <2>1. run' = q
    BY <1>4 DEF RunNew, Step, Becomes
  <2> HIDE DEF q
  <2> QED  BY <1>0, <1>3, <1>4, <2>1, StraightFollows
<1>5. CASE ~Current.shown
  <2>1. run' = there
    BY <1>5 DEF RunNew, Step, Becomes
  <2> HIDE DEF there
  <2>2. Width(Current) = 0 /\ Current.op \notin Terminal
    BY <1>0, <1>5 DEF Width, Terminal, Transfers, Calls
  <2>3. Current.src + Width(Current) = Current.src /\ run.src = Settle(Current.src)
    <3>1. Current.src \in 1 .. Len(code) + 1 /\ run.src = Settle(Current.src) /\ Len(code) \in Nat
      BY <1>0, PlaceNow
    <3> QED  BY <2>2, <3>1
  <2> QED  BY <1>0, <1>1, <2>1, <2>2, <2>3, GoesNext
<1> QED  BY <1>4, <1>5

LEMMA RunSpawnTracks ==
    ASSUME OnCourse, RunSpawn PROVE OnTrack(run')
<1> DEFINE there == [run EXCEPT !.pc = @ + 1]
           q == Follow(there, TRUE)
<1>0. run.at = "segment" /\ Current.op = "spawn" /\ IsRun(run)
  BY DEF RunSpawn, Step, OnCourse, Kept
<1>1. IsRun(there) /\ there.state = run.state /\ there.pc = run.pc + 1 /\ there.at = "segment"
  BY <1>0 DEF IsRun
<1>2. q.at = "segment" /\ q.state = run.state /\ q.pc = run.pc + 1
      /\ q.src = SourceNext(Current.src, TRUE)
  <2> HIDE DEF there
  <2>1. Alike(q, there)
    BY <1>1, FollowAlike
  <2> QED  BY <1>1, <2>1, FollowSrc DEF Alike
<1>3. run' = q
  BY DEF RunSpawn, Becomes
<1> HIDE DEF q
<1> QED  BY <1>0, <1>2, <1>3, StraightFollows

LEMMA RunTakeTracks ==
    ASSUME OnCourse, RunTake PROVE OnTrack(run')
<1> DEFINE rc == IF run.pend = None THEN run.regs["rc"] ELSE run.pend
           there == [run EXCEPT !.pc = @ + 1, !.pend = None, !.regs["rc"] = rc]
<1>0. run.at = "segment" /\ Current.op = "take" /\ IsRun(run)
  BY DEF RunTake, Step, OnCourse, Kept
<1>1. run' = there
  BY DEF RunTake, Becomes
<1>2. /\ there.state = run.state /\ there.pc = run.pc + 1 /\ there.at = "segment"
      /\ there.src = run.src
  <2> HIDE DEF rc
  <2> QED  BY <1>0 DEF IsRun
<1>3. Stands(code, Current) /\ Current.src \in 1 .. Len(code) + 1 /\ run.src = Settle(Current.src)
      /\ Len(code) \in Nat
  BY <1>0, PlaceNow
<1>4. ~Current.shown
  BY <1>0, <1>3 DEF Stands
<1>5. Width(Current) = 0 /\ Current.op \notin Terminal
  BY <1>0, <1>4 DEF Width, Terminal, Transfers, Calls
<1>6. Current.src + Width(Current) = Current.src
  BY <1>3, <1>5
<1> HIDE DEF there
<1> QED  BY <1>0, <1>1, <1>2, <1>3, <1>5, <1>6, GoesNext

(* The segment behind a call begins with what follows the call,              *)
LEMMA CallLeads ==
    ASSUME OnCourse, run.at = "segment", Current.op \in Calls
    PROVE  /\ Settle(segs[Current.to][1].src) = SourceNext(Current.src, TRUE)
           /\ SourceNext(Current.src, TRUE) # 0
<1>1. /\ run.state \in 1 .. Len(segs) /\ run.pc \in 1 .. Len(segs[run.state])
      /\ Current = segs[run.state][run.pc]
  BY PlaceNow
<1>2. Settle(segs[Current.to][1].src) = Settle(Current.src + 1)
  BY <1>1, LedTo DEF OnCourse
<1>3. Current.src \in 1 .. Len(code) /\ code[Current.src].op = Current.op
  BY ShownIs
<1>4. SourceNext(Current.src, TRUE) = Settle(Current.src + 1)
  BY <1>3, NextOfYes DEF Calls
<1>5. SourceNext(Current.src, TRUE) # 0
  <2>1. code \in Seq(Stmt) /\ Nests(code, {})
    BY DEF OnCourse, Final
  <2>2. SourceNext(Current.src, TRUE) \in 1 .. Len(code) + 1
    BY <1>3, <2>1, SourceNextTyped
  <2>3. Len(code) \in Nat
    BY <2>1
  <2>4. \A n \in Nat : 0 \notin 1 .. n + 1
    OBVIOUS
  <2> QED  BY <2>2, <2>3, <2>4
<1> QED  BY <1>2, <1>4, <1>5

(* whether the call completes at once,                                       *)
LEMMA CompletesTracks ==
    ASSUME OnCourse, Completes PROVE OnTrack(run')
<1>1. PICK bit \in Bit : Step(Calls)
      /\ Becomes(Follow(After(Deliver(run, Current.op, bit), 0, Current.to), TRUE))
  BY DEF Completes
<1> DEFINE d == Deliver(run, Current.op, bit)
           a == After(d, 0, Current.to)
           q == Follow(a, TRUE)
<1>0. run.at = "segment" /\ Current.op \in Calls /\ IsRun(run)
  BY <1>1 DEF Step, OnCourse, Kept
<1>2. IsRun(d)
  BY <1>0, DeliverAlike DEF Alike
<1>3. IsRun(a) /\ a.state = Current.to /\ a.pc = 1 /\ a.at = "segment"
  <2> HIDE DEF d
  <2> QED  BY <1>2, AfterCall DEF Blocked
<1>4. q.state = Current.to /\ q.pc = 1 /\ q.at = "segment" /\ q.src = SourceNext(Current.src, TRUE)
  <2> HIDE DEF a
  <2>1. Alike(q, a)
    BY <1>3, FollowAlike
  <2> QED  BY <1>3, <2>1, FollowSrc DEF Alike
<1>5. run' = q
  BY <1>1 DEF Becomes
<1> HIDE DEF q
<1> QED  BY <1>0, <1>4, <1>5, CallLeads, GoesThere

(* blocks,                                                                   *)
LEMMA BlocksTracks ==
    ASSUME OnCourse, Blocks PROVE OnTrack(run')
<1> DEFINE a == After(run, Blocked, Current.to)
           b == [a EXCEPT !.call = Current.op]
           q == Follow(b, TRUE)
<1>0. run.at = "segment" /\ Current.op \in Calls /\ IsRun(run)
  BY DEF Blocks, Step, OnCourse, Kept
<1>3. IsRun(a) /\ a.state = Current.to /\ a.pc = 1 /\ a.at = "waiting"
  BY <1>0, AfterCall DEF Blocked
<1>6. IsRun(b) /\ b.state = Current.to /\ b.pc = 1 /\ b.at = "waiting"
  <2> HIDE DEF a
  <2> QED  BY <1>3 DEF IsRun
<1>4. q.state = Current.to /\ q.pc = 1 /\ q.at = "waiting" /\ q.src = SourceNext(Current.src, TRUE)
  <2> HIDE DEF b
  <2>1. Alike(q, b)
    BY <1>6, FollowAlike
  <2> QED  BY <1>6, <2>1, FollowSrc DEF Alike
<1>5. run' = q
  BY DEF Blocks, Becomes
<1> HIDE DEF q
<1> QED  BY <1>0, <1>4, <1>5, CallLeads, GoesThere

(* or has blocked and is answered.                                           *)
LEMMA WakeTracks ==
    ASSUME OnCourse, Wake PROVE OnTrack(run')
<1>1. PICK bit \in Bit : /\ run.at = "waiting" /\ run.call # ""
                         /\ Becomes(Dispatch([Deliver(run, run.call, bit) EXCEPT
                                                !.pend = 0, !.call = ""], run.state))
  BY DEF Wake
<1> DEFINE d == Deliver(run, run.call, bit)
           w == [d EXCEPT !.pend = 0, !.call = ""]
           q == Dispatch(w, run.state)
<1>0. IsRun(run)
  BY DEF OnCourse, Kept
<1>2. IsRun(d) /\ d.src = run.src
  BY <1>0, DeliverAlike, DeliverSrc DEF Alike
<1>3. IsRun(w) /\ w.src = run.src
  <2> HIDE DEF d
  <2> QED  BY <1>2 DEF IsRun
<1>4. q.state = run.state /\ q.pc = 1 /\ q.at = "segment" /\ q.src = run.src
  <2> HIDE DEF w
  <2> QED  BY <1>3, DispatchStarts, DispatchSrc
<1>5. run.src = Settle(segs[run.state][1].src)
  BY <1>1 DEF OnCourse, OnTrack, Unstarted
<1>6. run' = q
  BY <1>1 DEF Becomes
<1> HIDE DEF q
<1> QED  BY <1>4, <1>5, <1>6, GoesThere

(* What a transfer that does nothing leads to is where the source is,        *)
LEMMA HiddenGoto ==
    ASSUME OnCourse, run.at = "segment", Current.op = "goto", ~Current.shown
    PROVE  Means(GoesTo(code, Current.src)) = run.src
<1> DEFINE p == Current.src
<1>1. Stands(code, Current) /\ p \in 1 .. Len(code) + 1 /\ run.src = Settle(p) /\ Len(code) \in Nat
  BY PlaceNow
<1>0. code \in Seq(Stmt) /\ Nests(code, {})
  BY DEF OnCourse, Final
<1> HIDE DEF p
<1>2. CASE p \notin 1 .. Len(code)
  <2>1. GoesTo(code, p) = At(p)
    BY <1>2 DEF GoesTo
  <2>2. Means(At(p)) = Settle(p)
    BY <1>1, LabelIs DEF Means
  <2> QED  BY <1>1, <2>1, <2>2 DEF p
<1>3. CASE p \in 1 .. Len(code)
  <2>0. code[p].op \in {"while", "else", "close"}
    BY <1>1, <1>3 DEF Stands, p
  <2>1. CASE code[p].op = "while"
    <3>1. GoesTo(code, p) = At(p)
      BY <2>1 DEF GoesTo
    <3>2. Means(At(p)) = Settle(p)
      BY <1>1, LabelIs DEF Means
    <3> QED  BY <1>1, <3>1, <3>2 DEF p
  <2>2. CASE code[p].op = "close" /\ code[code[p].at].op \in Loops
    <3>1. GoesTo(code, p) = At(code[p].at)
      BY <1>3, <2>2 DEF GoesTo
    <3>2. code[p].at \in 1 .. p - 1
      BY <1>0, <1>3, <2>2 DEF Nests, ClosesMatch
    <3>3. Means(At(code[p].at)) = Settle(code[p].at)
      BY <3>2, LabelIs DEF Means
    <3>4. Settle(p) = code[p].at
      BY <1>0, <1>3, <2>2, SettleLoop
    <3>5. code[p].at \in 1 .. Len(code) + 1 /\ code[code[p].at].op \notin {"close", "else", "block"}
      BY <1>3, <2>2, <3>2 DEF Loops
    <3>6. Settle(code[p].at) = code[p].at
      BY <1>0, <3>5, SettleHere
    <3> QED  BY <1>1, <3>1, <3>3, <3>4, <3>6 DEF p
  <2>3. CASE code[p].op = "close" /\ code[code[p].at].op \notin Loops
    <3>1. GoesTo(code, p) = Behind(code[p].at)
      BY <1>3, <2>3 DEF GoesTo
    <3>2. code[p].at \in Nat /\ Shuts(code, p, code[p].at)
      BY <1>0, <1>3, <2>3 DEF Nests, ClosesMatch, Shuts
    <3>3. CloseOf(code[p].at) = p
      BY <1>0, <3>2, CloseOfOnly
    <3>4. Means(Behind(code[p].at)) = Settle(p + 1)
      BY <3>2, <3>3, LabelIs DEF Means
    <3>5. Settle(p) = Settle(p + 1)
      BY <1>0, <1>3, <2>3, SettleOn
    <3> QED  BY <1>1, <3>1, <3>4, <3>5 DEF p
  <2>4. CASE code[p].op = "else"
    <3>1. GoesTo(code, p) = Behind(code[p].at)
      BY <1>3, <2>4 DEF GoesTo
    <3>2. code[p].at \in Nat
      BY <1>0, <1>3, <2>4 DEF Nests, ElsesMatch
    <3>4. Means(Behind(code[p].at)) = Settle(CloseOf(code[p].at) + 1)
      BY <3>2, LabelIs DEF Means
    <3>5. Settle(p) = Settle(CloseOf(code[p].at) + 1)
      BY <1>0, <1>3, <2>4, SettleElse
    <3> QED  BY <1>1, <3>1, <3>4, <3>5 DEF p
  <2> QED  BY <2>0, <2>1, <2>2, <2>3, <2>4
<1> QED  BY <1>2, <1>3

(* and what a jump leads to is where the source goes.                        *)
LEMMA ShownGoto ==
    ASSUME OnCourse, run.at = "segment", Current.op = "goto", Current.shown
    PROVE  Means(GoesTo(code, Current.src)) = SourceNext(Current.src, TRUE)
<1> DEFINE p == Current.src
<1>1. Stands(code, Current) /\ p \in 1 .. Len(code) + 1 /\ Len(code) \in Nat
  BY PlaceNow
<1>0. code \in Seq(Stmt) /\ Nests(code, {})
  BY DEF OnCourse, Final
<1>2. p \in 1 .. Len(code) /\ code[p].op \in Jumps
  BY <1>1 DEF Stands
<1> HIDE DEF p
<1>3. code[p].at \in 1 .. Len(code) /\ Settle(code[p].at) = code[p].at
  BY <1>0, <1>2, JumpIs
<1>4. CASE code[p].op = "continue"
  <2>1. GoesTo(code, p) = At(code[p].at)
    BY <1>2, <1>4 DEF GoesTo
  <2>2. Means(At(code[p].at)) = Settle(code[p].at)
    BY <1>3, LabelIs DEF Means
  <2> QED  BY <1>3, <1>4, <2>1, <2>2, NextOfContinue DEF p
<1>5. CASE code[p].op = "break"
  <2>1. GoesTo(code, p) = Behind(code[p].at)
    BY <1>2, <1>5 DEF GoesTo
  <2>2. Means(Behind(code[p].at)) = Settle(CloseOf(code[p].at) + 1)
    BY <1>3, LabelIs DEF Means
  <2> QED  BY <1>5, <2>1, <2>2, NextOfBreak DEF p
<1> QED  BY <1>2, <1>4, <1>5 DEF Jumps

LEMMA GotoTracks ==
    ASSUME OnCourse, Goto PROVE OnTrack(run')
<1> DEFINE w == WriteBack(run, Touched(run.pc))
           there == Dispatch(w, Current.to)
           q == Follow(there, TRUE)
<1>0. run.at = "segment" /\ Current.op = "goto" /\ IsRun(run)
  BY DEF Goto, Step, OnCourse, Kept
<1>1. IsRun(w) /\ w.src = run.src
  BY <1>0, WriteBackAlike, WriteBackSrc DEF Alike
<1>2. /\ IsRun(there) /\ there.state = Current.to /\ there.pc = 1 /\ there.at = "segment"
      /\ there.src = run.src
  <2> HIDE DEF w
  <2> QED  BY <1>1, DispatchStarts, DispatchSrc
<1>3. q.state = Current.to /\ q.pc = 1 /\ q.at = "segment" /\ q.src = SourceNext(Current.src, TRUE)
  <2> HIDE DEF there
  <2>1. Alike(q, there)
    BY <1>2, FollowAlike
  <2> QED  BY <1>2, <2>1, FollowSrc DEF Alike
<1>4. Settle(segs[Current.to][1].src) = Means(GoesTo(code, Current.src))
  <2>1. /\ run.state \in 1 .. Len(segs) /\ run.pc \in 1 .. Len(segs[run.state])
        /\ Current = segs[run.state][run.pc]
    BY <1>0, PlaceNow
  <2> QED  BY <1>0, <2>1, LedTo DEF OnCourse
<1>5. CASE Current.shown
  <2>1. run' = q
    BY <1>5 DEF Goto, Step, Becomes
  <2> HIDE DEF q
  <2> QED  BY <1>0, <1>3, <1>4, <1>5, <2>1, ShownGoto, GoesThere
<1>6. CASE ~Current.shown
  <2>1. run' = there
    BY <1>6 DEF Goto, Step, Becomes
  <2> HIDE DEF there
  <2> QED  BY <1>0, <1>2, <1>4, <1>6, <2>1, HiddenGoto, GoesThere
<1> QED  BY <1>5, <1>6

(* A close and the opening instruction it belongs to.                        *)
LEMMA CloseStands ==
    ASSUME Final(code, segs), Sealed(segs), NEW s \in 1 .. Len(segs), NEW k \in 1 .. Len(segs[s]),
           segs[s][k].op = "close"
    PROVE  /\ segs[s][k].src \in 1 .. Len(code) /\ code[segs[s][k].src].op = "close"
           /\ Width(segs[s][k]) = 1
           /\ segs[s][k].to \in 1 .. Len(segs[s]) /\ segs[s][segs[s][k].to].op \in AllKinds
           /\ segs[s][segs[s][k].to].src = code[segs[s][k].src].at
<1> DEFINE i == segs[s][k]
<1>1. /\ i \in Instr /\ Stands(code, i) /\ i.src \in 1 .. Len(code) + 1
      /\ Back(code, segs[s], i) /\ Fits(i, segs[s], Len(segs)) /\ Len(code) \in Nat
  BY PlaceIs DEF Final
<1>0. segs[s] \in Seq(Instr)
  BY DEF Sealed
<1>00. i.op = "close"
  OBVIOUS
<1> HIDE DEF i
<1>2. i.src # Len(code) + 1
  BY <1>00, <1>1 DEF Stands
<1>3. i.src \in 1 .. Len(code)
  BY <1>1, <1>2
<1>4. code[i.src].op = "close" /\ Width(i) = 1
  BY <1>00, <1>1, <1>3 DEF Stands, Width
<1>5. i.to \in DOMAIN segs[s] /\ segs[s][i.to].op \in AllKinds
  BY <1>00, <1>1 DEF Fits
<1>6. segs[s][i.to].src = code[i.src].at
  BY <1>00, <1>1 DEF Back
<1>7. i.to \in 1 .. Len(segs[s])
  BY <1>0, <1>5
<1> QED  BY <1>3, <1>4, <1>5, <1>6, <1>7 DEF i

(* An opening instruction.                                                   *)
LEMMA OpenStands ==
    ASSUME Final(code, segs), Sealed(segs), NEW s \in 1 .. Len(segs), NEW o \in 1 .. Len(segs[s]),
           segs[s][o].op \in AllKinds
    PROVE  /\ segs[s][o].src \in 1 .. Len(code) /\ code[segs[s][o].src].op = segs[s][o].op
           /\ Width(segs[s][o]) = 1
<1> DEFINE i == segs[s][o]
<1>1. /\ i \in Instr /\ Stands(code, i) /\ i.src \in 1 .. Len(code) + 1 /\ Len(code) \in Nat
  BY PlaceIs DEF Final
<1>00. i.op \in AllKinds
  OBVIOUS
<1> HIDE DEF i
<1>2. i.src # Len(code) + 1
  BY <1>00, <1>1 DEF Stands, AllKinds, Loops
<1>3. i.src \in 1 .. Len(code)
  BY <1>1, <1>2
<1>4. i.op = "block" \/ i.shown
  BY <1>00, <1>1, <1>3 DEF Stands
<1>5. i.op \in Copied
  BY <1>00 DEF Copied
<1>6. code[i.src].op = i.op
  BY <1>1, <1>3, <1>4, <1>5 DEF Stands
<1>7. Width(i) = 1
  BY <1>4 DEF Width
<1> QED  BY <1>3, <1>6, <1>7 DEF i

(* Behind its close the segment goes on with what follows the body.          *)
LEMMA CloseGoesOn ==
    ASSUME Final(code, segs), Sealed(segs), NEW s \in 1 .. Len(segs), NEW o \in 1 .. Len(segs[s]),
           segs[s][o].op \in AllKinds
    PROVE  /\ CloseOf(segs[s][o].src) \in 1 .. Len(code)
           /\ Settle(segs[s][CloseIn(segs[s], o) + 1].src) = Settle(CloseOf(segs[s][o].src) + 1)
<1> DEFINE k == CloseIn(segs[s], o)
           p == segs[s][o].src
<1>0. segs[s] \in Seq(Instr) /\ Whole(segs[s]) /\ o \in DOMAIN segs[s]
  BY DEF Sealed
<1>1. Closed(segs[s], o)
  BY <1>0 DEF Whole
<1>2. k \in DOMAIN segs[s] /\ segs[s][k].op = "close" /\ segs[s][k].to = o
  BY <1>1 DEF Closed, CloseIn
<1>3. k \in 1 .. Len(segs[s])
  BY <1>0, <1>2
<1> HIDE DEF k
<1>4. /\ segs[s][k].src \in 1 .. Len(code) /\ code[segs[s][k].src].op = "close"
      /\ Width(segs[s][k]) = 1
  BY <1>2, <1>3, CloseStands
<1>5. p = code[segs[s][k].src].at
  BY <1>2, <1>3, CloseStands
<1>6. Shuts(code, segs[s][k].src, p)
  BY <1>4, <1>5 DEF Shuts
<1>7. CloseOf(p) = segs[s][k].src
  BY <1>6, CloseOfOnly DEF Final
<1>8. segs[s][k].op \notin Terminal
  BY <1>2 DEF Terminal, Transfers, Calls
<1>9. Settle(segs[s][k].src + Width(segs[s][k])) = Settle(segs[s][k + 1].src)
  BY <1>3, <1>8, NextPlace
<1> QED  BY <1>4, <1>7, <1>9 DEF k

(* Either way a branch leads to where the source goes.                       *)
LEMMA BranchTracks ==
    ASSUME OnCourse, Branch PROVE OnTrack(run')
<1>1. PICK taken \in BOOLEAN :
        /\ Step({"branch"})
        /\ Becomes(Follow([Dispatch(WriteBack(run, Touched(run.pc)),
                                    IF taken THEN Current.to ELSE Current.other)
                             EXCEPT !.rounds = IF Entering(taken) THEN @ - 1 ELSE @], taken))
  BY DEF Branch
<1> DEFINE w == WriteBack(run, Touched(run.pc))
           to == IF taken THEN Current.to ELSE Current.other
           d == Dispatch(w, to)
           rounds == IF Entering(taken) THEN d.rounds - 1 ELSE d.rounds
           e == [d EXCEPT !.rounds = rounds]
           q == Follow(e, taken)
<1>0. run.at = "segment" /\ Current.op = "branch" /\ IsRun(run)
  BY <1>1 DEF Step, OnCourse, Kept
<1>2. IsRun(w)
  BY <1>0, WriteBackAlike DEF Alike
<1>3. IsRun(d) /\ d.state = to /\ d.pc = 1 /\ d.at = "segment"
  <2> HIDE DEF w, to
  <2> QED  BY <1>2, DispatchStarts
<1>4. IsRun(e) /\ e.state = to /\ e.pc = 1 /\ e.at = "segment"
  <2> HIDE DEF d, to, rounds
  <2> QED  BY <1>3 DEF IsRun
<1>5. q.state = to /\ q.pc = 1 /\ q.at = "segment" /\ q.src = SourceNext(Current.src, taken)
  <2> HIDE DEF e, to
  <2>1. Alike(q, e)
    BY <1>4, FollowAlike
  <2> QED  BY <1>4, <2>1, FollowSrc DEF Alike
<1>6. run' = q
  BY <1>1 DEF Becomes
<1> HIDE DEF q
<1>7. SourceNext(Current.src, taken) = Settle(segs[to][1].src)
  <2>1. /\ run.state \in 1 .. Len(segs) /\ run.pc \in 1 .. Len(segs[run.state])
        /\ Current = segs[run.state][run.pc]
        /\ Stands(code, Current) /\ Current.src \in 1 .. Len(code) + 1 /\ Len(code) \in Nat
    BY <1>0, PlaceNow
  <2>2. Current.src # Len(code) + 1
    BY <1>0, <2>1 DEF Stands
  <2>3. Current.src \in 1 .. Len(code)
    BY <2>1, <2>2
  <2>4. code[Current.src].op \in {"if", "while"}
    BY <1>0, <2>1, <2>3 DEF Stands
  <2>5. CASE taken
    <3>1. SourceNext(Current.src, TRUE) = Settle(Current.src + 1)
      BY <2>4, NextOfYes
    <3>2. Settle(segs[Current.to][1].src) = Settle(Current.src + 1)
      BY <1>0, <2>1, LedTo DEF OnCourse
    <3> QED  BY <2>5, <3>1, <3>2
  <2>6. CASE ~taken
    <3>1. SourceNext(Current.src, FALSE) = Settle(BehindElse(Current.src))
      BY <2>4, NextOfNo DEF Loops
    <3>2. Settle(segs[Current.other][1].src) =
             IF code[Current.src].op = "if" THEN Settle(BehindElse(Current.src))
             ELSE Settle(CloseOf(Current.src) + 1)
      BY <1>0, <2>1, LedTo DEF OnCourse
    <3>3. code[Current.src].op # "if" => BehindElse(Current.src) = CloseOf(Current.src) + 1
      <4> SUFFICES ASSUME code[Current.src].op = "while" PROVE BehindElse(Current.src) = CloseOf(Current.src) + 1
        BY <2>4
      <4>0. code \in Seq(Stmt) /\ Nests(code, {})
        BY DEF OnCourse, Final
      <4>1. ~\E x \in 1 .. Len(code) : Turns(code, x, Current.src)
        BY <4>0 DEF Nests, ElsesMatch, Turns
      <4>2. BehindElse(Current.src) = 1 + CloseOf(Current.src)
        BY <4>1, ElseOfNone DEF BehindElse
      <4>3. CloseOf(Current.src) \in 1 .. Len(code)
        BY <2>3, <4>0, CloseOfIs DEF AllKinds, Loops
      <4> QED  BY <4>2, <4>3
    <3>4. taken = FALSE
      BY <1>1, <2>6
    <3> QED  BY <2>6, <3>1, <3>2, <3>3, <3>4
  <2> QED  BY <2>5, <2>6
<1> QED  BY <1>5, <1>6, <1>7, GoesThere

(* A body that is entered, or passed over.                                   *)
LEMMA OpenFollows ==
    ASSUME OnCourse, run.at = "segment", Current.op \in AllKinds, NEW taken \in BOOLEAN,
           Current.op = "block" => taken,
           NEW q, q.at = "segment", q.state = run.state,
           q.pc = IF taken THEN run.pc + 1 ELSE CloseIn(Segment, run.pc) + 1,
           q.src = IF Current.op = "block" THEN run.src ELSE SourceNext(Current.src, taken)
    PROVE  OnTrack(q)
<1> DEFINE p == Current.src
<1>0. code \in Seq(Stmt) /\ Nests(code, {}) /\ Final(code, segs) /\ Sealed(segs)
  BY DEF OnCourse, Final
<1>1. /\ run.state \in 1 .. Len(segs) /\ run.pc \in 1 .. Len(segs[run.state])
      /\ Segment = segs[run.state] /\ Current = segs[run.state][run.pc]
      /\ run.src = Settle(p)
  BY PlaceNow
<1>2. p \in 1 .. Len(code) /\ code[p].op = Current.op /\ Width(Current) = 1
  BY <1>0, <1>1, OpenStands
<1>3. Current.op \notin Terminal
  BY DEF AllKinds, Loops, Terminal, Transfers, Calls
<1> HIDE DEF p
<1>4. CASE Current.op = "block"
  <2>1. Settle(p) = Settle(p + 1)
    BY <1>0, <1>2, <1>4, SettleOn
  <2>2. taken = TRUE /\ q.pc = run.pc + 1 /\ q.src = Settle(Current.src + Width(Current))
    BY <1>1, <1>2, <1>4, <2>1 DEF p
  <2> QED  BY <1>3, <2>2, GoesNext
<1>5. CASE Current.op # "block" /\ taken = TRUE
  <2>1. SourceNext(p, TRUE) = Settle(p + 1)
    BY <1>2, NextOfYes DEF AllKinds, Loops
  <2>2. q.pc = run.pc + 1 /\ q.src = Settle(Current.src + Width(Current))
    BY <1>2, <1>5, <2>1 DEF p
  <2> QED  BY <1>3, <2>2, GoesNext
<1>6. CASE Current.op # "block" /\ taken = FALSE
  <2>1. code[p].op \in Loops \cup {"if"}
    BY <1>2, <1>6 DEF AllKinds
  <2>2. SourceNext(p, FALSE) = Settle(BehindElse(p))
    BY <2>1, NextOfNo
  <2>3. ~\E e \in 1 .. Len(code) : Turns(code, e, p)
    BY <1>0, <1>1 DEF Final, NoElses, HasElse, p
  <2>4. BehindElse(p) = 1 + CloseOf(p)
    BY <2>3, ElseOfNone DEF BehindElse
  <2>5. /\ CloseOf(p) \in 1 .. Len(code)
        /\ Settle(segs[run.state][CloseIn(segs[run.state], run.pc) + 1].src) = Settle(CloseOf(p) + 1)
    BY <1>0, <1>1, CloseGoesOn DEF p
  <2>6. 1 + CloseOf(p) = CloseOf(p) + 1
    BY <2>5
  <2>7. q.pc = CloseIn(segs[run.state], run.pc) + 1 /\ q.src = Settle(CloseOf(p) + 1)
    BY <1>1, <1>6, <2>2, <2>4, <2>6 DEF p
  <2> QED  BY <2>5, <2>7 DEF OnTrack
<1> QED  BY <1>4, <1>5, <1>6

(* A body that is copied opens,                                              *)
LEMMA PlainOpenTracks ==
    ASSUME OnCourse, PlainOpen PROVE OnTrack(run')
<1>1. PICK taken \in BOOLEAN :
        /\ Step(AllKinds)
        /\ Current.op = "block" => taken
        /\ LET there == [Flushed(run) EXCEPT
                            !.pc = IF taken THEN @ + 1 ELSE CloseIn(Segment, @) + 1]
           IN  Becomes(IF Current.op = "block" THEN there
                       ELSE Follow([there EXCEPT
                               !.rounds = IF Entering(taken) THEN @ - 1 ELSE @], taken))
  BY DEF PlainOpen
<1> DEFINE f == Flushed(run)
           pc == IF taken THEN f.pc + 1 ELSE CloseIn(Segment, f.pc) + 1
           there == [f EXCEPT !.pc = pc]
           rounds == IF Entering(taken) THEN there.rounds - 1 ELSE there.rounds
           e == [there EXCEPT !.rounds = rounds]
           q == IF Current.op = "block" THEN there ELSE Follow(e, taken)
<1>0. run.at = "segment" /\ Current.op \in AllKinds /\ IsRun(run)
  BY <1>1 DEF Step, OnCourse, Kept
<1>2. Alike(f, run) /\ f.src = run.src
  BY <1>0, FlushedAlike, FlushedSrc
<1>3. /\ IsRun(there) /\ there.state = run.state /\ there.at = "segment" /\ there.src = run.src
      /\ there.pc = IF taken THEN run.pc + 1 ELSE CloseIn(Segment, run.pc) + 1
  <2>1. there.pc = pc /\ IsRun(there) /\ there.state = run.state /\ there.at = "segment"
        /\ there.src = run.src
    <3> HIDE DEF f, pc
    <3> QED  BY <1>0, <1>2 DEF Alike, IsRun
  <2>2. f.pc = run.pc
    BY <1>2 DEF Alike
  <2> HIDE DEF f, there
  <2> QED  BY <2>1, <2>2
<1>4. IsRun(e) /\ e.state = there.state /\ e.at = there.at /\ e.pc = there.pc
  <2> HIDE DEF there, rounds
  <2> QED  BY <1>3 DEF IsRun
<1>5. /\ q.state = run.state /\ q.at = "segment" /\ q.pc = there.pc
      /\ q.src = IF Current.op = "block" THEN run.src ELSE SourceNext(Current.src, taken)
  <2> HIDE DEF e, there
  <2>1. Alike(Follow(e, taken), e) /\ Follow(e, taken).src = SourceNext(Current.src, taken)
    BY <1>4, FollowAlike, FollowSrc
  <2> QED  BY <1>3, <1>4, <2>1 DEF Alike
<1>6. run' = q
  BY <1>1 DEF Becomes
<1> HIDE DEF q, there
<1> QED  BY <1>0, <1>1, <1>3, <1>5, <1>6, OpenFollows

(* closes and goes back to its condition or on,                              *)
LEMMA PlainCloseTracks ==
    ASSUME OnCourse, PlainClose PROVE OnTrack(run')
<1> DEFINE o == Current.to
           p == Current.src
           s == run.state
           pc == IF Segment[o].op \in Loops THEN o ELSE run.pc + 1
           q == [run EXCEPT !.pc = pc]
<1>0. run.at = "segment" /\ Current.op = "close" /\ IsRun(run)
  BY DEF PlainClose, Step, OnCourse, Kept
<1>00. code \in Seq(Stmt) /\ Nests(code, {}) /\ Final(code, segs) /\ Sealed(segs)
  BY DEF OnCourse, Final
<1>1. /\ s \in 1 .. Len(segs) /\ run.pc \in 1 .. Len(segs[s])
      /\ Segment = segs[s] /\ Current = segs[s][run.pc] /\ run.src = Settle(p)
  BY <1>0, PlaceNow
<1>2. /\ p \in 1 .. Len(code) /\ code[p].op = "close" /\ Width(Current) = 1
      /\ o \in 1 .. Len(segs[s]) /\ segs[s][o].op \in AllKinds
      /\ segs[s][o].src = code[p].at
  BY <1>0, <1>00, <1>1, CloseStands
<1>3. segs[s][o].src \in 1 .. Len(code) /\ code[segs[s][o].src].op = segs[s][o].op
  BY <1>00, <1>1, <1>2, OpenStands
<1>4. q.at = "segment" /\ q.state = s /\ q.pc = pc /\ q.src = run.src
  <2> HIDE DEF pc
  <2> QED  BY <1>0 DEF IsRun
<1>5. run' = q
  BY DEF PlainClose, Becomes
<1>6. CASE segs[s][o].op \in Loops
  <2>1. pc = o
    BY <1>1, <1>6
  <2> HIDE DEF q, pc, o, p, s
  <2>2. Settle(p) = code[p].at
    BY <1>00, <1>2, <1>3, <1>6, SettleLoop
  <2>3. segs[s][o].src \in 1 .. Len(code) + 1 /\ code[segs[s][o].src].op \notin {"close", "else", "block"}
    BY <1>3, <1>6 DEF Loops
  <2>4. Settle(segs[s][o].src) = segs[s][o].src
    BY <1>00, <2>3, SettleHere
  <2> QED  BY <1>1, <1>2, <1>4, <1>5, <2>1, <2>2, <2>4 DEF OnTrack
<1>7. CASE segs[s][o].op \notin Loops
  <2>1. pc = run.pc + 1
    BY <1>1, <1>7
  <2>2. Settle(p) = Settle(p + 1)
    BY <1>00, <1>2, <1>3, <1>7, SettleOn
  <2>3. q.src = Settle(Current.src + Width(Current))
    BY <1>1, <1>2, <1>4, <2>2
  <2>4. Current.op \notin Terminal
    BY <1>0 DEF Terminal, Transfers, Calls
  <2>5. q.pc = run.pc + 1 /\ q.state = run.state
    BY <1>4, <2>1
  <2> HIDE DEF q
  <2> QED  BY <1>0, <1>4, <1>5, <2>3, <2>4, <2>5, GoesNext
<1> QED  BY <1>6, <1>7

(* and is left or repeated by a jump.                                        *)
LEMMA PlainJumpTracks ==
    ASSUME OnCourse, PlainJump PROVE OnTrack(run')
<1> DEFINE o == Current.to
           p == Current.src
           s == run.state
           pc == IF Current.op = "continue" THEN o ELSE CloseIn(Segment, o) + 1
           there == [run EXCEPT !.pc = pc]
           q == Follow(there, TRUE)
<1>0. run.at = "segment" /\ Current.op \in Jumps /\ IsRun(run)
  BY DEF PlainJump, Step, OnCourse, Kept
<1>00. code \in Seq(Stmt) /\ Nests(code, {}) /\ Final(code, segs) /\ Sealed(segs)
  BY DEF OnCourse, Final
<1>1. /\ s \in 1 .. Len(segs) /\ run.pc \in 1 .. Len(segs[s]) /\ segs[s] \in Seq(Instr)
      /\ Segment = segs[s] /\ Current = segs[s][run.pc]
      /\ Back(code, segs[s], Current) /\ Fits(Current, segs[s], Len(segs))
  BY <1>0, PlaceNow
<1>2. p \in 1 .. Len(code) /\ code[p].op = Current.op
  BY <1>0, ShownIs
<1>3. o \in DOMAIN segs[s] /\ segs[s][o].op \in AllKinds
  BY <1>0, <1>1 DEF Fits
<1>4. segs[s][o].src = code[p].at
  BY <1>0, <1>1 DEF Back
<1>5. o \in 1 .. Len(segs[s])
  BY <1>1, <1>3
<1>6. Settle(code[p].at) = code[p].at
  BY <1>0, <1>00, <1>2, JumpIs
<1>7. IsRun(there) /\ there.at = "segment" /\ there.state = s /\ there.pc = pc
  <2> HIDE DEF pc
  <2> QED  BY <1>0 DEF IsRun
<1>8. q.at = "segment" /\ q.state = s /\ q.pc = pc /\ q.src = SourceNext(p, TRUE)
  <2> HIDE DEF there, pc
  <2>1. Alike(q, there)
    BY <1>7, FollowAlike
  <2> QED  BY <1>7, <2>1, FollowSrc DEF Alike
<1>9. run' = q
  BY DEF PlainJump, Becomes
<1>10. CASE Current.op = "continue"
  <2>1. SourceNext(p, TRUE) = code[p].at
    BY <1>2, <1>10, NextOfContinue
  <2>2. pc = o
    BY <1>10
  <2> HIDE DEF q, pc, o, p, s
  <2> QED  BY <1>4, <1>6, <1>8, <1>9, <2>1, <2>2 DEF OnTrack
<1>11. CASE Current.op = "break"
  <2>1. SourceNext(p, TRUE) = Settle(CloseOf(code[p].at) + 1)
    BY <1>2, <1>11, NextOfBreak
  <2>2. pc = CloseIn(segs[s], o) + 1
    BY <1>1, <1>11
  <2>3. Settle(segs[s][CloseIn(segs[s], o) + 1].src) = Settle(CloseOf(segs[s][o].src) + 1)
    BY <1>00, <1>1, <1>3, <1>5, CloseGoesOn
  <2> HIDE DEF q, pc, o, p, s
  <2> QED  BY <1>4, <1>8, <1>9, <2>1, <2>2, <2>3 DEF OnTrack
<1> QED  BY <1>0, <1>10, <1>11 DEF Jumps

(* There is no return inside a segment.                                      *)
LEMMA RunReturnTracks ==
    ASSUME OnCourse, RunReturn PROVE OnTrack(run')
<1>0. run.at = "segment" /\ IsRun(run) /\ Current.op \in {"finish", "return"}
  BY DEF RunReturn, Step, OnCourse, Kept
<1>1. Current.op = "finish"
  BY <1>0, PlaceNow DEF Fits, OnCourse
<1> DEFINE ended == [run EXCEPT !.ends = run.ends + 1, !.src = Len(code) + 1]
           q == [ended EXCEPT !.at = "stopped"]
<1>2. run' = q
  BY <1>1 DEF RunReturn, Becomes
<1>3. q.at = "stopped"
  BY <1>0 DEF IsRun
<1> QED  BY <1>2, <1>3 DEF OnTrack

(* Every step of the segments keeps a run on track.                          *)
LEMMA ExecuteTracks ==
    ASSUME OnCourse, Execute, phase' = "run" PROVE OnTrack(run')
  BY StartTracks, ReadsTracks, RunNewTracks, RunSpawnTracks, RunTakeTracks, CompletesTracks,
     BlocksTracks, WakeTracks, GotoTracks, BranchTracks, PlainOpenTracks, PlainCloseTracks,
     PlainJumpTracks, RunReturnTracks DEF Execute

(* An instruction that shows is the statement the source is at.              *)
LEMMA TracksInOrder ==
    ASSUME OnCourse, phase = "run" PROVE SourceOrder
<1> SUFFICES ASSUME run.at = "segment", Current.shown PROVE Current.src = run.src
  BY DEF SourceOrder, InSegment
<1>1. /\ Stands(code, Current) /\ Current.src \in 1 .. Len(code) + 1 /\ run.src = Settle(Current.src)
      /\ Current \in Instr
  BY PlaceNow
<1>2. Current.src \in 1 .. Len(code) => code[Current.src].op \notin {"close", "else", "block"}
  <2> SUFFICES ASSUME Current.src \in 1 .. Len(code) PROVE code[Current.src].op \notin {"close", "else", "block"}
    OBVIOUS
  <2>1. Current.op \in Copied \cup {"take", "goto", "branch", "finish"}
    BY <1>1 DEF Instr, Copied
  <2>2. CASE Current.op \in Copied
    BY <1>1, <2>2 DEF Stands, Copied, Calls, Jumps, AllKinds, Loops
  <2>3. CASE Current.op \in {"take", "goto", "branch", "finish"}
    BY <1>1, <2>3 DEF Stands, Jumps
  <2> QED  BY <2>1, <2>2, <2>3
<1>3. code \in Seq(Stmt) /\ Nests(code, {})
  BY DEF OnCourse, Final
<1> QED  BY <1>1, <1>2, <1>3, SettleHere

-----------------------------------------------------------------------------
(* One more statement: the bodies still nest.                                *)

Adds(cd, cd2, s) ==
    /\ cd \in Seq(Stmt) /\ cd2 \in Seq(Stmt) /\ s \in Stmt
    /\ Len(cd2) = Len(cd) + 1
    /\ \A j \in 1 .. Len(cd) : cd2[j] = cd[j]
    /\ cd2[Len(cd) + 1] = s

(* It fits what is open before and after it.                                 *)
FitsIn(cd, open, s, open2) ==
    /\ open \subseteq 1 .. Len(cd)
    /\ open2 \subseteq open \cup (IF s.op \in AllKinds THEN {Len(cd) + 1} ELSE {})
    /\ open \subseteq open2 \cup (IF s.op = "close" THEN {s.at} ELSE {})
    /\ s.op \in AllKinds => Len(cd) + 1 \in open2
    /\ s.op \in {"close", "else"} => s.at \in open
    /\ s.op = "close" => cd[s.at].op \in AllKinds /\ s.at \notin open2
    /\ s.op = "else" => cd[s.at].op = "if" /\ ~\E e \in 1 .. Len(cd) : Turns(cd, e, s.at)
    /\ s.op \in Jumps => s.at \in 1 .. Len(cd) /\ cd[s.at].op \in Loops

LEMMA PositionsMore ==
    ASSUME NEW cd, NEW cd2, NEW s, Adds(cd, cd2, s)
    PROVE  /\ Len(cd) \in Nat /\ 1 .. Len(cd2) = 1 .. Len(cd) \cup {Len(cd) + 1}
           /\ Len(cd) + 1 \notin 1 .. Len(cd)
  BY DEF Adds

(* Closes and elses are those there were, and the new statement.             *)
LEMMA ShutsMore ==
    ASSUME NEW cd, NEW cd2, NEW s, Adds(cd, cd2, s), NEW c, NEW a
    PROVE  Shuts(cd2, c, a) <=> Shuts(cd, c, a) \/ (c = Len(cd) + 1 /\ s.op = "close" /\ s.at = a)
  BY PositionsMore DEF Adds, Shuts

LEMMA TurnsMore ==
    ASSUME NEW cd, NEW cd2, NEW s, Adds(cd, cd2, s), NEW e, NEW a
    PROVE  Turns(cd2, e, a) <=> Turns(cd, e, a) \/ (e = Len(cd) + 1 /\ s.op = "else" /\ s.at = a)
  BY PositionsMore DEF Adds, Turns

(* So each part of Nests holds afterwards.                                   *)
LEMMA OpenersMore ==
    ASSUME NEW cd, NEW cd2, NEW s, NEW open, NEW open2, Adds(cd, cd2, s), FitsIn(cd, open, s, open2),
           OpenersClose(cd, open)
    PROVE  OpenersClose(cd2, open2)
<1> SUFFICES ASSUME NEW a \in 1 .. Len(cd2), cd2[a].op \in AllKinds
             PROVE  a \in open2 \/ \E c \in 1 .. Len(cd2) : Shuts(cd2, c, a)
  BY DEF OpenersClose, HasClose
<1>1. CASE a = Len(cd) + 1
  <2>1. cd2[a] = s
    BY <1>1 DEF Adds
  <2> QED  BY <1>1, <2>1 DEF FitsIn
<1>2. CASE a \in 1 .. Len(cd)
  <2>1. cd2[a] = cd[a]
    BY <1>2 DEF Adds
  <2>2. CASE a \in open
    <3>1. CASE s.op = "close" /\ s.at = a
      <4>1. Shuts(cd2, Len(cd) + 1, a) /\ Len(cd) + 1 \in 1 .. Len(cd2)
        BY <3>1, ShutsMore, PositionsMore
      <4> QED  BY <4>1
    <3>2. CASE ~(s.op = "close" /\ s.at = a)
      BY <2>2, <3>2 DEF FitsIn
    <3> QED  BY <3>1, <3>2
  <2>3. CASE \E c \in 1 .. Len(cd) : Shuts(cd, c, a)
    BY <2>3, ShutsMore, PositionsMore
  <2> QED  BY <1>2, <2>1, <2>2, <2>3 DEF OpenersClose, HasClose
<1> QED  BY <1>1, <1>2, PositionsMore

LEMMA ClosesMore ==
    ASSUME NEW cd, NEW cd2, NEW s, NEW open, NEW open2, Adds(cd, cd2, s), FitsIn(cd, open, s, open2),
           ClosesMatch(cd, open)
    PROVE  ClosesMatch(cd2, open2)
<1> SUFFICES ASSUME NEW c \in 1 .. Len(cd2), cd2[c].op = "close"
             PROVE  /\ cd2[c].at \in 1 .. c - 1 /\ cd2[cd2[c].at].op \in AllKinds
                    /\ cd2[c].at \notin open2
  BY DEF ClosesMatch
<1>0. Len(cd) \in Nat
  BY DEF Adds
<1>1. CASE c = Len(cd) + 1
  <2>1. cd2[c] = s
    BY <1>1 DEF Adds
  <2>2. s.at \in 1 .. Len(cd) /\ cd[s.at].op \in AllKinds /\ s.at \notin open2
    BY <2>1 DEF FitsIn
  <2>3. cd2[s.at] = cd[s.at]
    BY <2>2 DEF Adds
  <2>4. c - 1 = Len(cd)
    BY <1>0, <1>1
  <2> QED  BY <2>1, <2>2, <2>3, <2>4
<1>2. CASE c \in 1 .. Len(cd)
  <2>1. cd2[c] = cd[c]
    BY <1>2 DEF Adds
  <2>2. cd[c].at \in 1 .. c - 1 /\ cd[cd[c].at].op \in AllKinds /\ cd[c].at \notin open
    BY <1>2, <2>1 DEF ClosesMatch
  <2>3. cd[c].at \in 1 .. Len(cd) /\ cd[c].at # Len(cd) + 1
    BY <1>0, <1>2, <2>2
  <2>4. cd2[cd[c].at] = cd[cd[c].at]
    BY <2>3 DEF Adds
  <2>5. cd[c].at \notin open2
    BY <2>2, <2>3 DEF FitsIn
  <2> QED  BY <2>1, <2>2, <2>4, <2>5
<1> QED  BY <1>1, <1>2, PositionsMore

LEMMA ElsesMore ==
    ASSUME NEW cd, NEW cd2, NEW s, NEW open, NEW open2, Adds(cd, cd2, s), FitsIn(cd, open, s, open2),
           ClosesMatch(cd, open), ElsesMatch(cd, open)
    PROVE  ElsesMatch(cd2, open2)
<1> SUFFICES ASSUME NEW e \in 1 .. Len(cd2), cd2[e].op = "else"
             PROVE  /\ cd2[e].at \in 1 .. e - 1 /\ cd2[cd2[e].at].op = "if"
                    /\ \A c \in 1 .. Len(cd2) : Shuts(cd2, c, cd2[e].at) => e < c
  BY DEF ElsesMatch
<1>0. Len(cd) \in Nat
  BY DEF Adds
<1>1. CASE e = Len(cd) + 1
  <2>1. cd2[e] = s
    BY <1>1 DEF Adds
  <2>2. s.at \in 1 .. Len(cd) /\ cd[s.at].op = "if" /\ s.at \in open
    BY <2>1 DEF FitsIn
  <2>3. cd2[s.at] = cd[s.at]
    BY <2>2 DEF Adds
  <2>4. e - 1 = Len(cd)
    BY <1>0, <1>1
  <2>5. ASSUME NEW c \in 1 .. Len(cd2), Shuts(cd2, c, s.at) PROVE FALSE
    <3>1. Shuts(cd, c, s.at)
      BY <2>1, <2>5, ShutsMore
    <3> QED  BY <2>2, <3>1 DEF Shuts, ClosesMatch
  <2> QED  BY <2>1, <2>2, <2>3, <2>4, <2>5
<1>2. CASE e \in 1 .. Len(cd)
  <2>1. cd2[e] = cd[e]
    BY <1>2 DEF Adds
  <2>2. /\ cd[e].at \in 1 .. e - 1 /\ cd[cd[e].at].op = "if"
        /\ \A c \in 1 .. Len(cd) : Shuts(cd, c, cd[e].at) => e < c
    BY <1>2, <2>1 DEF ElsesMatch
  <2>3. cd[e].at \in 1 .. Len(cd)
    BY <1>0, <1>2, <2>2
  <2>4. cd2[cd[e].at] = cd[cd[e].at]
    BY <2>3 DEF Adds
  <2>5. ASSUME NEW c \in 1 .. Len(cd2), Shuts(cd2, c, cd[e].at) PROVE e < c
    <3>1. CASE Shuts(cd, c, cd[e].at)
      BY <2>2, <3>1 DEF Shuts
    <3>2. CASE c = Len(cd) + 1
      BY <1>0, <1>2, <3>2
    <3> QED  BY <2>5, <3>1, <3>2, ShutsMore
  <2> QED  BY <2>1, <2>2, <2>4, <2>5
<1> QED  BY <1>1, <1>2, PositionsMore

LEMMA JumpsMore ==
    ASSUME NEW cd, NEW cd2, NEW s, NEW open, NEW open2, Adds(cd, cd2, s), FitsIn(cd, open, s, open2),
           JumpsMatch(cd)
    PROVE  JumpsMatch(cd2)
<1> SUFFICES ASSUME NEW j \in 1 .. Len(cd2), cd2[j].op \in Jumps
             PROVE  cd2[j].at \in 1 .. j - 1 /\ cd2[cd2[j].at].op \in Loops
  BY DEF JumpsMatch
<1>0. Len(cd) \in Nat
  BY DEF Adds
<1>1. CASE j = Len(cd) + 1
  <2>1. cd2[j] = s
    BY <1>1 DEF Adds
  <2>2. s.at \in 1 .. Len(cd) /\ cd[s.at].op \in Loops
    BY <2>1 DEF FitsIn
  <2>3. cd2[s.at] = cd[s.at]
    BY <2>2 DEF Adds
  <2>4. j - 1 = Len(cd)
    BY <1>0, <1>1
  <2> QED  BY <2>1, <2>2, <2>3, <2>4
<1>2. CASE j \in 1 .. Len(cd)
  <2>1. cd2[j] = cd[j]
    BY <1>2 DEF Adds
  <2>2. cd[j].at \in 1 .. j - 1 /\ cd[cd[j].at].op \in Loops
    BY <1>2, <2>1 DEF JumpsMatch
  <2>3. cd[j].at \in 1 .. Len(cd)
    BY <1>0, <1>2, <2>2
  <2>4. cd2[cd[j].at] = cd[cd[j].at]
    BY <2>3 DEF Adds
  <2> QED  BY <2>1, <2>2, <2>4
<1> QED  BY <1>1, <1>2, PositionsMore

LEMMA OnceMore ==
    ASSUME NEW cd, NEW cd2, NEW s, NEW open, NEW open2, Adds(cd, cd2, s), FitsIn(cd, open, s, open2),
           Once(cd), ClosesMatch(cd, open)
    PROVE  Once(cd2)
<1>1. ASSUME NEW i \in 1 .. Len(cd), s.op \in {"else", "close"}, cd2[i].op = s.op, cd2[i].at = s.at
      PROVE  FALSE
  <2>1. cd[i].op = s.op /\ cd[i].at = s.at
    BY <1>1 DEF Adds
  <2>2. CASE s.op = "close"
    BY <2>1, <2>2 DEF FitsIn, ClosesMatch
  <2>3. CASE s.op = "else"
    BY <2>1, <2>3 DEF FitsIn, Turns
  <2> QED  BY <1>1, <2>2, <2>3
<1> SUFFICES ASSUME NEW i \in 1 .. Len(cd2), NEW j \in 1 .. Len(cd2),
                    cd2[i].op \in {"else", "close"}, cd2[j].op = cd2[i].op, cd2[j].at = cd2[i].at
             PROVE  i = j
  BY DEF Once
<1>2. CASE i \in 1 .. Len(cd) /\ j \in 1 .. Len(cd)
  BY <1>2 DEF Adds, Once
<1>3. cd2[Len(cd) + 1] = s
  BY DEF Adds
<1>4. CASE i = Len(cd) + 1 /\ j \in 1 .. Len(cd)
  BY <1>1, <1>3, <1>4
<1>5. CASE j = Len(cd) + 1 /\ i \in 1 .. Len(cd)
  BY <1>1, <1>3, <1>5
<1> QED  BY <1>2, <1>4, <1>5, PositionsMore

(* A statement that fits in keeps the bodies nested.                         *)
LEMMA NestsMore ==
    ASSUME NEW cd, NEW cd2, NEW s, NEW open, NEW open2, Adds(cd, cd2, s), FitsIn(cd, open, s, open2),
           Nests(cd, open)
    PROVE  Nests(cd2, open2)
  BY OpenersMore, ClosesMore, ElsesMore, JumpsMore, OnceMore DEF Nests

-----------------------------------------------------------------------------
(* One more statement or instruction: the segments are still right.          *)

(* What is said of a segment stays true.                                     *)
LEMMA SkipsMore ==
    ASSUME NEW cd, NEW cd2, NEW s, Adds(cd, cd2, s), NEW p \in Nat, NEW q \in 1 .. Len(cd) + 1,
           Skips(cd, p, q)
    PROVE  Skips(cd2, p, q)
<1>1. Len(cd) \in Nat
  BY DEF Adds
<1>2. ASSUME NEW j \in p .. q - 1 PROVE cd2[j].op = "block"
  <2>1. j \in 1 .. Len(cd)
    BY <1>1 DEF Skips
  <2>2. cd2[j] = cd[j]
    BY <2>1 DEF Adds
  <2> QED  BY <2>2 DEF Skips
<1> QED  BY <1>2 DEF Skips

LEMMA BeginsMore ==
    ASSUME NEW cd, NEW cd2, NEW s, Adds(cd, cd2, s), NEW open2, Nests(cd2, open2),
           NEW l \in Label, NEW q \in 1 .. Len(cd) + 1, Begins(cd, l, q)
    PROVE  Begins(cd2, l, q)
<1>0. Len(cd) \in Nat /\ l.pos \in Nat /\ 1 .. Len(cd) \subseteq 1 .. Len(cd2)
  BY PositionsMore DEF Label
<1>1. CASE l.kind = "at" /\ Skips(cd, l.pos, q)
  BY <1>0, <1>1, SkipsMore DEF Begins, HasElse
<1>2. CASE l.kind = "behind" /\ \E c \in 1 .. Len(cd) : Shuts(cd, c, l.pos) /\ Skips(cd, c + 1, q)
  <2>1. PICK c \in 1 .. Len(cd) : Shuts(cd, c, l.pos) /\ Skips(cd, c + 1, q)
    BY <1>2
  <2>2. c + 1 \in Nat
    BY <2>1
  <2>3. Shuts(cd2, c, l.pos) /\ Skips(cd2, c + 1, q) /\ c \in 1 .. Len(cd2)
    BY <1>0, <2>1, <2>2, SkipsMore, ShutsMore
  <2> QED  BY <1>2, <2>3 DEF Begins, HasElse
<1>3. CASE l.kind = "else" /\ \E e \in 1 .. Len(cd) : Turns(cd, e, l.pos) /\ Skips(cd, e + 1, q)
  <2>1. PICK e \in 1 .. Len(cd) : Turns(cd, e, l.pos) /\ Skips(cd, e + 1, q)
    BY <1>3
  <2>2. e + 1 \in Nat
    BY <2>1
  <2>3. Turns(cd2, e, l.pos) /\ Skips(cd2, e + 1, q) /\ e \in 1 .. Len(cd2)
    BY <1>0, <2>1, <2>2, SkipsMore, TurnsMore
  <2> QED  BY <1>3, <2>3 DEF Begins, HasElse
<1>4. CASE l.kind = "else" /\ Shuts(cd, q, l.pos) /\ ~\E e \in 1 .. Len(cd) : Turns(cd, e, l.pos)
  <2>1. Shuts(cd2, q, l.pos)
    BY <1>4, ShutsMore
  <2>2. q \in 1 .. Len(cd)
    BY <1>4 DEF Shuts
  <2>3. ASSUME NEW e \in 1 .. Len(cd2), Turns(cd2, e, l.pos) PROVE FALSE
    <3>1. e = Len(cd) + 1
      <4>1. ~Turns(cd, e, l.pos)
        BY <1>4 DEF Turns
      <4> QED  BY <2>3, <4>1, TurnsMore
    <3>2. cd2[e].op = "else" /\ cd2[e].at = l.pos
      BY <2>3 DEF Turns
    <3>3. q \in 1 .. Len(cd2)
      BY <1>0, <2>2
    <3>4. e < q
      BY <2>1, <3>2, <3>3 DEF Nests, ElsesMatch
    <3> QED  BY <1>0, <2>2, <3>1, <3>4
  <2> QED  BY <1>4, <2>1, <2>3 DEF Begins, HasElse
<1> QED  BY <1>1, <1>2, <1>3, <1>4 DEF Begins, HasElse

LEMMA StandsMore ==
    ASSUME NEW cd, NEW cd2, NEW s, Adds(cd, cd2, s), NEW i, i.src \in 1 .. Len(cd), Stands(cd, i)
    PROVE  Stands(cd2, i)
<1>1. cd2[i.src] = cd[i.src]
  BY DEF Adds
<1>2. i.src \in 1 .. Len(cd2) + 1 /\ i.src # Len(cd2) + 1
  <2>1. Len(cd) \in Nat /\ Len(cd2) = Len(cd) + 1
    BY DEF Adds
  <2> QED  BY <2>1
<1> QED  BY <1>1, <1>2 DEF Stands

LEMMA GoesToMore ==
    ASSUME NEW cd, NEW cd2, NEW s, Adds(cd, cd2, s), NEW open, Nests(cd, open), NEW p \in 1 .. Len(cd)
    PROVE  GoesTo(cd2, p) = GoesTo(cd, p)
<1>1. cd2[p] = cd[p] /\ p \in 1 .. Len(cd2)
  BY PositionsMore DEF Adds
<1>2. cd[p].op = "close" => cd2[cd[p].at] = cd[cd[p].at]
  <2> SUFFICES ASSUME cd[p].op = "close" PROVE cd2[cd[p].at] = cd[cd[p].at]
    OBVIOUS
  <2>1. cd[p].at \in 1 .. p - 1 /\ Len(cd) \in Nat
    BY DEF Nests, ClosesMatch, Adds
  <2>2. cd[p].at \in 1 .. Len(cd)
    BY <2>1
  <2> QED  BY <2>2 DEF Adds
<1> QED  BY <1>1, <1>2 DEF GoesTo

LEMMA LeadsMore ==
    ASSUME NEW cd, NEW cd2, NEW s, Adds(cd, cd2, s), NEW open, Nests(cd, open),
           NEW i, i.src \in 1 .. Len(cd), NEW lab, NEW lab2, Leads(cd, i, lab),
           i.op \in Transfers => lab2[i.to] = lab[i.to],
           i.op = "branch" => lab2[i.other] = lab[i.other]
    PROVE  Leads(cd2, i, lab2)
<1>1. GoesTo(cd2, i.src) = GoesTo(cd, i.src)
  BY GoesToMore
<1>2. cd2[i.src] = cd[i.src]
  BY DEF Adds
<1> QED  BY <1>1, <1>2 DEF Leads, Transfers

LEMMA BackMore ==
    ASSUME NEW cd, NEW cd2, NEW s, Adds(cd, cd2, s), NEW t, NEW i, i.src \in 1 .. Len(cd), Back(cd, t, i)
    PROVE  Back(cd2, t, i)
  BY DEF Back, Adds

(* lab2 says of n segments what lab says.                                    *)
SameLabels(lab, lab2, n) == \A k \in 1 .. n : lab2[k] = lab[k]

(* A segment tells the longer source in order.                               *)
LEMMA TellsMore ==
    ASSUME NEW cd, NEW cd2, NEW s, Adds(cd, cd2, s), NEW open, Nests(cd, open), NEW open2, Nests(cd2, open2),
           NEW t \in Seq(Instr), \A j \in 1 .. Len(t) : t[j].src \in 1 .. Len(cd),
           NEW n \in Nat, Good(t, n), NEW lab, NEW lab2, SameLabels(lab, lab2, n),
           NEW l \in Label, Tells(cd, t, l, lab)
    PROVE  Tells(cd2, t, l, lab2)
<1>1. Len(cd) \in Nat
  BY DEF Adds
<1>2. t # <<>> => Begins(cd2, l, t[1].src)
  <2> SUFFICES ASSUME t # <<>> PROVE Begins(cd2, l, t[1].src)
    OBVIOUS
  <2>1. 1 \in 1 .. Len(t)
    OBVIOUS
  <2>2. t[1].src \in 1 .. Len(cd) + 1
    BY <1>1, <2>1
  <2>3. Begins(cd, l, t[1].src)
    BY DEF Tells
  <2> QED  BY <2>2, <2>3, BeginsMore
<1>3. ASSUME NEW j \in 1 .. Len(t) PROVE Stands(cd2, t[j]) /\ Leads(cd2, t[j], lab2) /\ Back(cd2, t, t[j])
  <2>1. Stands(cd, t[j]) /\ Leads(cd, t[j], lab) /\ Back(cd, t, t[j]) /\ t[j].src \in 1 .. Len(cd)
    BY DEF Tells
  <2>2. Fits(t[j], t, n)
    BY DEF Good
  <2>3. t[j].op \in Transfers => lab2[t[j].to] = lab[t[j].to]
    BY <2>2 DEF Fits, SameLabels
  <2>4. t[j].op = "branch" => lab2[t[j].other] = lab[t[j].other]
    BY <2>2 DEF Fits, SameLabels
  <2> QED  BY <2>1, <2>3, <2>4, StandsMore, LeadsMore, BackMore
<1>4. ASSUME NEW j \in 1 .. Len(t) - 1, t[j].op \notin Terminal
      PROVE  Skips(cd2, t[j].src + Width(t[j]), t[j + 1].src)
  <2>1. j \in 1 .. Len(t) /\ j + 1 \in 1 .. Len(t)
    BY <1>4
  <2>2. t[j].src \in Nat /\ t[j + 1].src \in 1 .. Len(cd) + 1 /\ Width(t[j]) \in Nat
    BY <1>1, <2>1 DEF Width
  <2>3. t[j].src + Width(t[j]) \in Nat
    BY <2>2
  <2>4. Skips(cd, t[j].src + Width(t[j]), t[j + 1].src)
    BY <1>4 DEF Tells
  <2> QED  BY <2>2, <2>3, <2>4, SkipsMore
<1> QED  BY <1>2, <1>3, <1>4 DEF Tells

LEMMA AheadMore ==
    ASSUME NEW cd, NEW cd2, NEW s, Adds(cd, cd2, s), NEW open2, Nests(cd2, open2),
           NEW t \in Seq(Instr), NEW l \in Label, NEW h \in 1 .. Len(cd) + 1, Ahead(cd, t, l, h)
    PROVE  Ahead(cd2, t, l, h)
<1>1. CASE t = <<>>
  BY <1>1, BeginsMore DEF Ahead
<1>2. CASE t # <<>>
  <2> DEFINE i == t[Len(t)]
  <2>1. i.op \in Terminal \/ Skips(cd, i.src + Width(i), h)
    BY <1>2 DEF Ahead
  <2>2. Len(t) \in 1 .. Len(t)
    BY <1>2
  <2>3. i \in Instr
    BY <2>2
  <2>4. i.src + Width(i) \in Nat
    <3> HIDE DEF i
    <3>1. i.src \in Nat /\ Width(i) \in Nat
      BY <2>3 DEF Instr, Width
    <3> QED  BY <3>1
  <2> HIDE DEF i
  <2>5. i.op \in Terminal \/ Skips(cd2, i.src + Width(i), h)
    BY <2>1, <2>4, SkipsMore
  <2> QED  BY <1>2, <2>5 DEF Ahead, i
<1> QED  BY <1>1, <1>2

(* One more instruction.                                                     *)
LEMMA TellsOne ==
    ASSUME NEW cd, NEW t \in Seq(Instr), NEW i \in Instr, NEW n, Good(t, n), NEW lab, NEW l \in Label,
           Tells(cd, t, l, lab), Ahead(cd, t, l, i.src), ~Ended(t),
           Stands(cd, i), Leads(cd, i, lab),
           i.op \in {"close"} \cup Jumps => i.to \in 1 .. Len(t) /\ t[i.to].src = cd[i.src].at
    PROVE  Tells(cd, t \o <<i>>, l, lab)
<1> DEFINE u == t \o <<i>>
<1>1. /\ u \in Seq(Instr) /\ Len(u) = Len(t) + 1 /\ u[Len(t) + 1] = i /\ Len(t) \in Nat
      /\ \A j \in 1 .. Len(t) : u[j] = t[j]
  OBVIOUS
<1> HIDE DEF u
<1>2. u # <<>> => Begins(cd, l, u[1].src)
  <2>1. CASE t = <<>>
    <3>1. u[1] = i
      BY <1>1, <2>1
    <3> QED  BY <2>1, <3>1 DEF Ahead
  <2>2. CASE t # <<>>
    <3>1. u[1] = t[1]
      BY <1>1, <2>2
    <3> QED  BY <2>2, <3>1 DEF Tells
  <2> QED  BY <2>1, <2>2
<1>3. ASSUME NEW j \in 1 .. Len(u) PROVE Stands(cd, u[j]) /\ Leads(cd, u[j], lab) /\ Back(cd, u, u[j])
  <2>1. CASE j \in 1 .. Len(t)
    <3>1. u[j] = t[j] /\ j \in DOMAIN t
      BY <1>1, <2>1
    <3>2. Stands(cd, t[j]) /\ Leads(cd, t[j], lab) /\ Back(cd, t, t[j])
      BY <2>1 DEF Tells
    <3>3. t[j].op \in {"close"} \cup Jumps => t[j].to \in DOMAIN t
      BY <3>1 DEF Good, Fits
    <3>4. t[j].op \in {"close"} \cup Jumps => u[t[j].to] = t[t[j].to]
      BY <1>1, <3>3
    <3> QED  BY <3>1, <3>2, <3>4 DEF Back
  <2>2. CASE j = Len(t) + 1
    <3>1. u[j] = i
      BY <1>1, <2>2
    <3>2. i.op \in {"close"} \cup Jumps => u[i.to].src = cd[i.src].at
      BY <1>1
    <3> QED  BY <3>1, <3>2 DEF Back
  <2> QED  BY <1>1, <2>1, <2>2
<1>4. ASSUME NEW j \in 1 .. Len(u) - 1, u[j].op \notin Terminal
      PROVE  Skips(cd, u[j].src + Width(u[j]), u[j + 1].src)
  <2>1. CASE j \in 1 .. Len(t) - 1
    <3>1. u[j] = t[j] /\ u[j + 1] = t[j + 1]
      BY <1>1, <2>1
    <3> QED  BY <1>4, <2>1, <3>1 DEF Tells
  <2>2. CASE j = Len(t)
    <3>1. t # <<>> /\ u[j] = t[Len(t)] /\ u[j + 1] = i
      BY <1>1, <2>2
    <3> QED  BY <1>4, <3>1 DEF Ahead
  <2> QED  BY <1>1, <2>1, <2>2
<1> QED  BY <1>2, <1>3, <1>4 DEF Tells, u

LEMMA AheadOne ==
    ASSUME NEW cd, NEW t \in Seq(Instr), NEW i \in Instr, NEW l, NEW h,
           i.op \in Terminal \/ Skips(cd, i.src + Width(i), h)
    PROVE  Ahead(cd, t \o <<i>>, l, h)
<1> DEFINE u == t \o <<i>>
<1>1. Len(u) = Len(t) + 1 /\ u[Len(t) + 1] = i /\ u # <<>>
  OBVIOUS
<1> HIDE DEF u
<1> QED  BY <1>1 DEF Ahead, u

-----------------------------------------------------------------------------
(* All segments, while a body is written.                                    *)

(* The segments, for the code written so far.                                *)
Midway(cd, sg, lab) ==
    /\ sg \in Seq(Seq(Instr)) /\ AllGood(sg) /\ lab \in [1 .. Len(sg) -> Label]
    /\ Traced(cd, sg, lab)

LEMMA MidwayIs ==
    ASSUME NEW cd, NEW sg, NEW lab, Midway(cd, sg, lab), NEW k \in 1 .. Len(sg)
    PROVE  /\ sg[k] \in Seq(Instr) /\ Good(sg[k], Len(sg)) /\ lab[k] \in Label /\ Len(sg) \in Nat
           /\ Tells(cd, sg[k], lab[k], lab)
<1>1. sg \in Seq(Seq(Instr))
  BY DEF Midway
<1>2. sg[k] \in Seq(Instr) /\ Len(sg) \in Nat /\ k \in DOMAIN sg
  BY <1>1
<1>3. Good(sg[k], Len(sg))
  BY <1>2 DEF Midway, AllGood
<1> QED  BY <1>2, <1>3 DEF Midway, Traced

LEMMA PlacesPast ==
    ASSUME NEW cd, NEW sg, NEW lab, Midway(cd, sg, lab), Past(cd, sg), NEW k \in 1 .. Len(sg)
    PROVE  \A j \in 1 .. Len(sg[k]) : sg[k][j].src \in 1 .. Len(cd)
<1> TAKE j \in 1 .. Len(sg[k])
<1>1. sg[k][j].src <= Len(cd)
  BY DEF Past
<1>2. Tells(cd, sg[k], lab[k], lab)
  BY MidwayIs
<1>3. sg[k][j].src \in 1 .. Len(cd) + 1
  BY <1>2 DEF Tells, Stands
<1> QED  BY <1>1, <1>3

(* A statement is written.                                                   *)
LEMMA CodeGrows ==
    ASSUME NEW cd, NEW cd2, NEW s, Adds(cd, cd2, s), NEW open, Nests(cd, open), NEW open2, Nests(cd2, open2),
           NEW sg, NEW lab, Midway(cd, sg, lab), Past(cd, sg)
    PROVE  Midway(cd2, sg, lab) /\ Past(cd2, sg)
<1>1. ASSUME NEW k \in 1 .. Len(sg) PROVE Tells(cd2, sg[k], lab[k], lab)
  <2>1. /\ sg[k] \in Seq(Instr) /\ Good(sg[k], Len(sg)) /\ lab[k] \in Label /\ Len(sg) \in Nat
        /\ Tells(cd, sg[k], lab[k], lab)
    BY MidwayIs
  <2>2. \A j \in 1 .. Len(sg[k]) : sg[k][j].src \in 1 .. Len(cd)
    BY PlacesPast
  <2>3. SameLabels(lab, lab, Len(sg))
    BY DEF SameLabels
  <2> QED  BY <2>1, <2>2, <2>3, TellsMore
<1>2. Midway(cd2, sg, lab)
  BY <1>1 DEF Midway, Traced
<1>3. ASSUME NEW k \in 1 .. Len(sg), NEW j \in 1 .. Len(sg[k]) PROVE sg[k][j].src <= Len(cd2)
  <2>1. sg[k][j].src \in 1 .. Len(cd) /\ Len(cd) \in Nat /\ Len(cd2) = Len(cd) + 1
    BY PlacesPast DEF Adds
  <2> QED  BY <2>1
<1> QED  BY <1>2, <1>3 DEF Past

(* Segment k gets another instruction.                                       *)
Gains(sg, sg2, k, i) ==
    /\ sg2 \in Seq(Seq(Instr)) /\ Len(sg2) = Len(sg) /\ k \in 1 .. Len(sg)
    /\ sg2[k] = sg[k] \o <<i>>
    /\ \A n \in 1 .. Len(sg) : n # k => sg2[n] = sg[n]

(* The instruction is right there.                                           *)
Suits(cd, sg, k, i, lab) ==
    /\ i \in Instr /\ Fits(i, sg[k], Len(sg)) /\ Stands(cd, i) /\ Leads(cd, i, lab)
    /\ i.op \in {"close"} \cup Jumps => sg[k][i.to].src = cd[i.src].at

LEMMA SegmentGains ==
    ASSUME NEW sg, NEW sg2, NEW k, NEW i \in Instr, sg \in Seq(Seq(Instr)), Gains(sg, sg2, k, i)
    PROVE  /\ sg[k] \in Seq(Instr) /\ sg2[k] \in Seq(Instr) /\ Len(sg2[k]) = Len(sg[k]) + 1
           /\ Len(sg[k]) \in Nat /\ sg2[k][Len(sg[k]) + 1] = i
           /\ \A j \in 1 .. Len(sg[k]) : sg2[k][j] = sg[k][j]
<1>1. sg[k] \in Seq(Instr) /\ sg2[k] = sg[k] \o <<i>>
  BY DEF Gains
<1> DEFINE t == sg[k]
<1>2. t \in Seq(Instr) /\ sg2[k] = t \o <<i>>
  BY <1>1
<1> HIDE DEF t
<1>3. /\ t \o <<i>> \in Seq(Instr) /\ Len(t \o <<i>>) = Len(t) + 1 /\ Len(t) \in Nat
      /\ (t \o <<i>>)[Len(t) + 1] = i /\ \A j \in 1 .. Len(t) : (t \o <<i>>)[j] = t[j]
  BY <1>2
<1> QED  BY <1>2, <1>3 DEF t

LEMMA GoodGains ==
    ASSUME NEW sg, NEW sg2, NEW k, NEW i \in Instr, sg \in Seq(Seq(Instr)), AllGood(sg),
           Gains(sg, sg2, k, i), Fits(i, sg[k], Len(sg))
    PROVE  AllGood(sg2)
<1> SUFFICES ASSUME NEW n \in DOMAIN sg2 PROVE Good(sg2[n], Len(sg2))
  BY DEF AllGood
<1>0. sg2 \in Seq(Seq(Instr)) /\ n \in 1 .. Len(sg) /\ Len(sg2) = Len(sg) /\ n \in DOMAIN sg
      /\ k \in DOMAIN sg
  BY DEF Gains
<1>1. CASE n # k
  BY <1>0, <1>1 DEF AllGood, Gains
<1>2. CASE n = k
  <2> SUFFICES ASSUME NEW j \in DOMAIN sg2[k] PROVE Fits(sg2[k][j], sg2[k], Len(sg))
    BY <1>0, <1>2 DEF Good
  <2>1. /\ sg[k] \in Seq(Instr) /\ sg2[k] \in Seq(Instr) /\ Len(sg2[k]) = Len(sg[k]) + 1
        /\ Len(sg[k]) \in Nat /\ sg2[k][Len(sg[k]) + 1] = i
        /\ \A m \in 1 .. Len(sg[k]) : sg2[k][m] = sg[k][m]
    BY SegmentGains
  <2>2. Fits(sg2[k][j], sg[k], Len(sg))
    <3>1. CASE j \in 1 .. Len(sg[k])
      <4>1. sg2[k][j] = sg[k][j] /\ j \in DOMAIN sg[k]
        BY <2>1, <3>1
      <4> QED  BY <1>0, <4>1 DEF AllGood, Good
    <3>2. CASE j = Len(sg[k]) + 1
      BY <2>1, <3>2
    <3> QED  BY <2>1, <3>1, <3>2
  <2>3. \A m \in DOMAIN sg[k] : m \in DOMAIN sg2[k] /\ sg2[k][m] = sg[k][m]
    <3>1. DOMAIN sg[k] = 1 .. Len(sg[k]) /\ DOMAIN sg2[k] = 1 .. Len(sg[k]) + 1
      BY <2>1
    <3>2. 1 .. Len(sg[k]) \subseteq 1 .. Len(sg[k]) + 1
      BY <2>1
    <3> QED  BY <2>1, <3>1, <3>2
  <2> QED  BY <2>2, <2>3 DEF Fits
<1> QED  BY <1>1, <1>2

(* The segments are right with it,                                           *)
LEMMA Gained ==
    ASSUME NEW cd, NEW sg, NEW sg2, NEW lab, NEW k, NEW i, Midway(cd, sg, lab), Gains(sg, sg2, k, i),
           Suits(cd, sg, k, i, lab), ~Ended(sg[k]), Ahead(cd, sg[k], lab[k], i.src)
    PROVE  Midway(cd, sg2, lab)
<1>1. sg \in Seq(Seq(Instr)) /\ AllGood(sg) /\ i \in Instr /\ Fits(i, sg[k], Len(sg))
      /\ k \in 1 .. Len(sg)
  BY DEF Midway, Suits, Gains
<1>2. AllGood(sg2) /\ sg2 \in Seq(Seq(Instr)) /\ Len(sg2) = Len(sg)
  BY <1>1, GoodGains DEF Gains
<1>3. Tells(cd, sg2[k], lab[k], lab)
  <2>1. /\ sg[k] \in Seq(Instr) /\ Good(sg[k], Len(sg)) /\ lab[k] \in Label
        /\ Tells(cd, sg[k], lab[k], lab)
    BY <1>1, MidwayIs
  <2>2. i.op \in {"close"} \cup Jumps => i.to \in DOMAIN sg[k]
    BY <1>1 DEF Fits
  <2>3. i.op \in {"close"} \cup Jumps => i.to \in 1 .. Len(sg[k]) /\ sg[k][i.to].src = cd[i.src].at
    BY <2>1, <2>2 DEF Suits
  <2>4. Stands(cd, i) /\ Leads(cd, i, lab)
    BY DEF Suits
  <2>5. Tells(cd, sg[k] \o <<i>>, lab[k], lab)
    BY <1>1, <2>1, <2>3, <2>4, TellsOne
  <2> QED  BY <2>5 DEF Gains
<1>4. ASSUME NEW n \in 1 .. Len(sg2) PROVE Tells(cd, sg2[n], lab[n], lab)
  <2>1. CASE n # k
    <3>1. sg2[n] = sg[n] /\ n \in 1 .. Len(sg)
      BY <1>2, <2>1 DEF Gains
    <3> QED  BY <3>1, MidwayIs
  <2> QED  BY <1>3, <2>1
<1> QED  BY <1>2, <1>4 DEF Midway, Traced

(* and no instruction is ahead of the code.                                  *)
LEMMA GainedPast ==
    ASSUME NEW cd, NEW sg, NEW sg2, NEW k, NEW i \in Instr, sg \in Seq(Seq(Instr)), Gains(sg, sg2, k, i),
           Past(cd, sg), i.src <= Len(cd)
    PROVE  Past(cd, sg2)
<1> SUFFICES ASSUME NEW n \in 1 .. Len(sg2), NEW j \in 1 .. Len(sg2[n]) PROVE sg2[n][j].src <= Len(cd)
  BY DEF Past
<1>1. CASE n # k
  <2>1. sg2[n] = sg[n] /\ n \in 1 .. Len(sg)
    BY <1>1 DEF Gains
  <2> QED  BY <2>1 DEF Past
<1>2. CASE n = k
  <2>1. /\ Len(sg2[k]) = Len(sg[k]) + 1 /\ Len(sg[k]) \in Nat /\ sg2[k][Len(sg[k]) + 1] = i
        /\ \A m \in 1 .. Len(sg[k]) : sg2[k][m] = sg[k][m]
    BY SegmentGains
  <2>2. CASE j \in 1 .. Len(sg[k])
    <3>1. sg2[n][j] = sg[k][j] /\ k \in 1 .. Len(sg)
      BY <1>2, <2>1, <2>2 DEF Gains
    <3> QED  BY <2>2, <3>1 DEF Past
  <2>3. CASE j = Len(sg[k]) + 1
    BY <1>2, <2>1, <2>3
  <2> QED  BY <1>2, <2>1, <2>2, <2>3
<1> QED  BY <1>1, <1>2

-----------------------------------------------------------------------------
(* What is known between two steps of writing.                               *)

(* What holds between two steps of writing: the next instruction of the      *)
(* current                                                                   *)
(* segment is for statement h.                                               *)
Knows(bs, cd, sg, c, lab, h) ==
    /\ Midway(cd, sg, lab) /\ lab[1] = At(1) /\ Past(cd, sg) /\ c \in 1 .. Len(sg)
    /\ Ahead(cd, sg[c], lab[c], h) /\ Plains(bs, cd, sg) /\ Owes(bs, cd, sg[c], lab)

(* A statement is written, and the bodies may change.                        *)
LEMMA KnowsCode ==
    ASSUME NEW bs, NEW cd, NEW sg, NEW c, NEW lab, Knows(bs, cd, sg, c, lab, Len(cd) + 1),
           NEW cd2, NEW s, Adds(cd, cd2, s), NEW open, Nests(cd, open), NEW open2, Nests(cd2, open2),
           NEW bs2, Plains(bs2, cd2, sg), Owes(bs2, cd2, sg[c], lab)
    PROVE  Knows(bs2, cd2, sg, c, lab, Len(cd) + 1)
<1>1. Midway(cd, sg, lab) /\ Past(cd, sg) /\ c \in 1 .. Len(sg) /\ Ahead(cd, sg[c], lab[c], Len(cd) + 1)
  BY DEF Knows
<1>2. Midway(cd2, sg, lab) /\ Past(cd2, sg)
  BY <1>1, CodeGrows
<1>3. sg[c] \in Seq(Instr) /\ lab[c] \in Label
  BY <1>1, MidwayIs
<1>4. Len(cd) + 1 \in 1 .. Len(cd) + 1
  BY PositionsMore
<1>5. Ahead(cd2, sg[c], lab[c], Len(cd) + 1)
  BY <1>1, <1>3, <1>4, AheadMore
<1> QED  BY <1>1, <1>2, <1>5 DEF Knows

(* The opening instructions of the plain bodies are in the segment.          *)
OpensIn(bs, t) == \A i \in 2 .. Len(bs) : ~bs[i].split => bs[i].open \in 1 .. Len(t)

(* The current segment gets an instruction: what is copied is still plain,   *)
LEMMA PlainsGain ==
    ASSUME NEW bs, NEW cd, NEW sg, NEW sg2, NEW k, NEW i \in Instr, sg \in Seq(Seq(Instr)),
           Gains(sg, sg2, k, i), Plains(bs, cd, sg), i.op \in AllKinds => PlainAt(bs, cd, i.src)
    PROVE  Plains(bs, cd, sg2)
<1> SUFFICES ASSUME NEW n \in 1 .. Len(sg2), NEW j \in 1 .. Len(sg2[n]), sg2[n][j].op \in AllKinds
             PROVE  PlainAt(bs, cd, sg2[n][j].src)
  BY DEF Plains
<1>1. CASE n # k
  <2>1. sg2[n] = sg[n] /\ n \in 1 .. Len(sg)
    BY <1>1 DEF Gains
  <2> QED  BY <2>1 DEF Plains
<1>2. CASE n = k
  <2>1. /\ Len(sg2[k]) = Len(sg[k]) + 1 /\ Len(sg[k]) \in Nat /\ sg2[k][Len(sg[k]) + 1] = i
        /\ \A m \in 1 .. Len(sg[k]) : sg2[k][m] = sg[k][m]
    BY SegmentGains
  <2>2. CASE j \in 1 .. Len(sg[k])
    <3>1. sg2[n][j] = sg[k][j] /\ k \in 1 .. Len(sg)
      BY <1>2, <2>1, <2>2 DEF Gains
    <3> QED  BY <2>2, <3>1 DEF Plains
  <2>3. CASE j = Len(sg[k]) + 1
    BY <1>2, <2>1, <2>3
  <2> QED  BY <1>2, <2>1, <2>2, <2>3
<1> QED  BY <1>1, <1>2

(* what is owed is still owed,                                               *)
LEMMA OwesGain ==
    ASSUME NEW bs, NEW cd, NEW t, NEW t2, NEW lab, Owes(bs, cd, t, lab), OpensIn(bs, t),
           \A j \in 1 .. Len(t) : t2[j] = t[j]
    PROVE  Owes(bs, cd, t2, lab)
<1> SUFFICES ASSUME NEW i \in 2 .. Len(bs) PROVE OweAt(bs[i], cd, t2, lab)
  BY DEF Owes
<1>1. OweAt(bs[i], cd, t, lab)
  BY DEF Owes
<1>2. ~bs[i].split => t2[bs[i].open] = t[bs[i].open]
  BY DEF OpensIn
<1> QED  BY <1>1, <1>2 DEF OweAt

(* and everything is known for the instruction after it.                     *)
LEMMA KnowsGain ==
    ASSUME NEW bs, NEW cd, NEW sg, NEW c, NEW lab, NEW i, Knows(bs, cd, sg, c, lab, i.src),
           NEW sg2, Gains(sg, sg2, c, i), Suits(cd, sg, c, i, lab), ~Ended(sg[c]), i.src <= Len(cd),
           OpensIn(bs, sg[c]), i.op \in AllKinds => PlainAt(bs, cd, i.src),
           NEW h, i.op \in Terminal \/ Skips(cd, i.src + Width(i), h)
    PROVE  Knows(bs, cd, sg2, c, lab, h)
<1>1. /\ Midway(cd, sg, lab) /\ lab[1] = At(1) /\ Past(cd, sg) /\ c \in 1 .. Len(sg)
      /\ Ahead(cd, sg[c], lab[c], i.src) /\ Plains(bs, cd, sg) /\ Owes(bs, cd, sg[c], lab)
  BY DEF Knows
<1>2. Midway(cd, sg2, lab)
  BY <1>1, Gained
<1>3. i \in Instr /\ sg \in Seq(Seq(Instr)) /\ Len(sg2) = Len(sg)
  BY DEF Suits, Knows, Midway, Gains
<1>4. Past(cd, sg2)
  BY <1>1, <1>3, GainedPast
<1>5. Plains(bs, cd, sg2)
  BY <1>1, <1>3, PlainsGain
<1>6. sg[c] \in Seq(Instr) /\ \A j \in 1 .. Len(sg[c]) : sg2[c][j] = sg[c][j]
  BY <1>3, SegmentGains
<1>7. Owes(bs, cd, sg2[c], lab)
  BY <1>1, <1>6, OwesGain
<1>8. Ahead(cd, sg2[c], lab[c], h)
  <2>1. Ahead(cd, sg[c] \o <<i>>, lab[c], h)
    BY <1>3, <1>6, AheadOne
  <2> QED  BY <2>1 DEF Gains
<1> QED  BY <1>1, <1>2, <1>3, <1>4, <1>5, <1>7, <1>8 DEF Knows

(* Another segment gets an instruction.                                      *)
LEMMA KnowsAside ==
    ASSUME NEW bs, NEW cd, NEW sg, NEW c, NEW lab, NEW h,
           Knows(bs, cd, sg, c, lab, h), NEW i, NEW k, k # c,
           NEW sg2, Gains(sg, sg2, k, i), Suits(cd, sg, k, i, lab), ~Ended(sg[k]), i.src <= Len(cd),
           i.op \notin AllKinds, Ahead(cd, sg[k], lab[k], i.src)
    PROVE  Knows(bs, cd, sg2, c, lab, h)
<1>1. /\ Midway(cd, sg, lab) /\ lab[1] = At(1) /\ Past(cd, sg) /\ c \in 1 .. Len(sg)
      /\ Ahead(cd, sg[c], lab[c], h) /\ Plains(bs, cd, sg) /\ Owes(bs, cd, sg[c], lab)
  BY DEF Knows
<1>2. Midway(cd, sg2, lab)
  BY <1>1, Gained
<1>3. i \in Instr /\ sg \in Seq(Seq(Instr)) /\ Len(sg2) = Len(sg) /\ sg2[c] = sg[c]
  BY <1>1 DEF Suits, Knows, Midway, Gains
<1>4. Past(cd, sg2)
  BY <1>1, <1>3, GainedPast
<1>5. Plains(bs, cd, sg2)
  BY <1>1, <1>3, PlainsGain
<1> QED  BY <1>1, <1>2, <1>3, <1>4, <1>5 DEF Knows

(* A segment is added.                                                       *)
Adjoins(sg, sg2) ==
    /\ sg2 \in Seq(Seq(Instr)) /\ Len(sg2) = Len(sg) + 1 /\ sg2[Len(sg) + 1] = <<>>
    /\ \A n \in 1 .. Len(sg) : sg2[n] = sg[n]

(* The places bodies lead to are among n segments.                           *)
Leading(bs, n) ==
    \A i \in 2 .. Len(bs) :
        bs[i].split => /\ bs[i].next \in 1 .. n /\ (bs[i].kind = "while" => bs[i].head \in 1 .. n)
                       /\ bs[i].alt # 0 => bs[i].alt \in 1 .. n

(* Labels for more segments make no difference to those there are.           *)
LEMMA TellsRelabel ==
    ASSUME NEW cd, NEW t \in Seq(Instr), NEW n, Good(t, n), NEW lab, NEW lab2, SameLabels(lab, lab2, n),
           NEW l, Tells(cd, t, l, lab)
    PROVE  Tells(cd, t, l, lab2)
<1>1. ASSUME NEW j \in 1 .. Len(t) PROVE Leads(cd, t[j], lab2)
  <2>1. Leads(cd, t[j], lab)
    BY DEF Tells
  <2>2. Fits(t[j], t, n)
    BY DEF Good
  <2>3. t[j].op \in Transfers => lab2[t[j].to] = lab[t[j].to]
    BY <2>2 DEF Fits, SameLabels
  <2>4. t[j].op = "branch" => lab2[t[j].other] = lab[t[j].other]
    BY <2>2 DEF Fits, SameLabels
  <2> QED  BY <2>1, <2>3, <2>4 DEF Leads, Transfers
<1> QED  BY <1>1 DEF Tells

LEMMA OwesRelabel ==
    ASSUME NEW bs, NEW cd, NEW t, NEW lab, NEW lab2, NEW n, Owes(bs, cd, t, lab), Leading(bs, n),
           SameLabels(lab, lab2, n)
    PROVE  Owes(bs, cd, t, lab2)
<1> SUFFICES ASSUME NEW i \in 2 .. Len(bs) PROVE OweAt(bs[i], cd, t, lab2)
  BY DEF Owes
<1>1. OweAt(bs[i], cd, t, lab)
  BY DEF Owes
<1>2. bs[i].split => SplitOwes(bs[i], cd, lab2)
  <2> SUFFICES ASSUME bs[i].split PROVE SplitOwes(bs[i], cd, lab2)
    OBVIOUS
  <2>1. SplitOwes(bs[i], cd, lab)
    BY <1>1 DEF OweAt
  <2>2. /\ lab2[bs[i].next] = lab[bs[i].next]
        /\ bs[i].kind = "while" => lab2[bs[i].head] = lab[bs[i].head]
        /\ bs[i].alt # 0 => lab2[bs[i].alt] = lab[bs[i].alt]
    BY DEF Leading, SameLabels
  <2> QED  BY <2>1, <2>2 DEF SplitOwes
<1> QED  BY <1>1, <1>2 DEF OweAt

LEMMA GoodAdjoins ==
    ASSUME NEW sg, NEW sg2, sg \in Seq(Seq(Instr)), AllGood(sg), Adjoins(sg, sg2)
    PROVE  AllGood(sg2)
<1> SUFFICES ASSUME NEW n \in DOMAIN sg2 PROVE Good(sg2[n], Len(sg2))
  BY DEF AllGood
<1>0. Len(sg) \in Nat /\ n \in 1 .. Len(sg) + 1 /\ Len(sg2) = Len(sg) + 1 /\ Len(sg2) \in Nat
      /\ Len(sg) <= Len(sg2)
  BY DEF Adjoins
<1>1. CASE n = Len(sg) + 1
  BY <1>1 DEF Adjoins, Good
<1>2. CASE n \in 1 .. Len(sg)
  <2>1. sg2[n] = sg[n] /\ n \in DOMAIN sg
    BY <1>2 DEF Adjoins
  <2>2. Good(sg[n], Len(sg))
    BY <2>1 DEF AllGood
  <2> QED  BY <1>0, <2>1, <2>2, GoodMore
<1> QED  BY <1>0, <1>1, <1>2

(* A new empty segment may be given any label.                               *)
LEMMA KnowsAdjoin ==
    ASSUME NEW bs, NEW cd, NEW sg, NEW c, NEW lab, NEW h,
           Knows(bs, cd, sg, c, lab, h),
           NEW sg2, Adjoins(sg, sg2), NEW l \in Label, Leading(bs, Len(sg))
    PROVE  \E lab2 : Knows(bs, cd, sg2, c, lab2, h) /\ SameLabels(lab, lab2, Len(sg)) /\ lab2[Len(sg) + 1] = l
<1>1. /\ Midway(cd, sg, lab) /\ lab[1] = At(1) /\ Past(cd, sg) /\ c \in 1 .. Len(sg)
      /\ Ahead(cd, sg[c], lab[c], h) /\ Plains(bs, cd, sg) /\ Owes(bs, cd, sg[c], lab)
  BY DEF Knows
<1>2. sg \in Seq(Seq(Instr)) /\ AllGood(sg) /\ lab \in [1 .. Len(sg) -> Label]
  BY <1>1 DEF Midway
<1>3. Len(sg) \in Nat /\ Len(sg2) = Len(sg) + 1 /\ sg2 \in Seq(Seq(Instr))
  BY <1>2 DEF Adjoins
<1> DEFINE lab2 == [k \in 1 .. Len(sg2) |-> IF k = Len(sg) + 1 THEN l ELSE lab[k]]
<1>4. \A k \in 1 .. Len(sg2) : k \in 1 .. Len(sg) \/ k = Len(sg) + 1
  BY <1>3
<1>5. lab2 \in [1 .. Len(sg2) -> Label]
  BY <1>2, <1>4
<1>6. \A k \in 1 .. Len(sg) : k \in 1 .. Len(sg2) /\ k # Len(sg) + 1
  BY <1>3
<1>7. SameLabels(lab, lab2, Len(sg))
  BY <1>6 DEF SameLabels
<1>8. lab2[Len(sg) + 1] = l
  BY <1>3
<1> HIDE DEF lab2
<1>9. ASSUME NEW n \in 1 .. Len(sg2) PROVE Tells(cd, sg2[n], lab2[n], lab2)
  <2>1. CASE n \in 1 .. Len(sg)
    <3>1. sg2[n] = sg[n] /\ lab2[n] = lab[n]
      BY <1>7, <2>1 DEF Adjoins, SameLabels
    <3>2. sg[n] \in Seq(Instr) /\ Good(sg[n], Len(sg)) /\ Tells(cd, sg[n], lab[n], lab)
      BY <1>1, <2>1, MidwayIs
    <3> QED  BY <1>7, <3>1, <3>2, TellsRelabel
  <2>2. CASE n = Len(sg) + 1
    <3>1. sg2[n] = <<>>
      BY <2>2 DEF Adjoins
    <3>2. Len(<<>>) = 0 /\ 1 .. 0 = {} /\ 1 .. 0 - 1 = {}
      OBVIOUS
    <3> QED  BY <3>1, <3>2 DEF Tells
  <2> QED  BY <1>4, <2>1, <2>2
<1>10. Midway(cd, sg2, lab2)
  BY <1>2, <1>3, <1>5, <1>9, GoodAdjoins DEF Midway, Traced
<1>11. ASSUME NEW n \in 1 .. Len(sg2), NEW j \in 1 .. Len(sg2[n])
       PROVE  n \in 1 .. Len(sg) /\ sg2[n] = sg[n]
  <2>1. n # Len(sg) + 1
    <3>1. Len(<<>>) = 0 /\ 1 .. 0 = {}
      OBVIOUS
    <3> QED  BY <1>11, <3>1 DEF Adjoins
  <2> QED  BY <1>4, <2>1 DEF Adjoins
<1>12. Past(cd, sg2)
  BY <1>1, <1>11 DEF Past
<1>13. Plains(bs, cd, sg2)
  BY <1>1, <1>11 DEF Plains
<1>14. sg2[c] = sg[c] /\ lab2[c] = lab[c] /\ c \in 1 .. Len(sg2)
  BY <1>1, <1>6, <1>7 DEF Adjoins, SameLabels
<1>15. lab2[1] = At(1)
  <2>1. 1 \in 1 .. Len(sg)
    BY <1>1, <1>3
  <2> QED  BY <1>1, <1>7, <2>1 DEF SameLabels
<1>16. Owes(bs, cd, sg[c], lab2)
  BY <1>1, <1>7, OwesRelabel
<1>17. Knows(bs, cd, sg2, c, lab2, h)
  BY <1>1, <1>10, <1>12, <1>13, <1>14, <1>15, <1>16 DEF Knows
<1> QED  BY <1>7, <1>8, <1>17

(* Another segment is filled.                                                *)
LEMMA KnowsMove ==
    ASSUME NEW bs, NEW cd, NEW sg, NEW c, NEW lab, NEW h,
           Knows(bs, cd, sg, c, lab, h),
           NEW c2 \in 1 .. Len(sg), NEW h2, Ahead(cd, sg[c2], lab[c2], h2),
           \A i \in 2 .. Len(bs) : bs[i].split
    PROVE  Knows(bs, cd, sg, c2, lab, h2)
<1>1. Owes(bs, cd, sg[c2], lab)
  BY DEF Knows, Owes, OweAt
<1> QED  BY <1>1 DEF Knows

(* A segment that is still empty begins where its label says.                *)
LEMMA EmptyAhead ==
    ASSUME NEW cd, NEW l, NEW h, Begins(cd, l, h) PROVE Ahead(cd, <<>>, l, h)
  BY DEF Ahead

LEMMA SkipsHere ==
    ASSUME NEW cd, NEW p \in Nat, 1 <= p PROVE Skips(cd, p, p)
<1>1. p .. p - 1 = {}
  OBVIOUS
<1> QED  BY <1>1 DEF Skips

-----------------------------------------------------------------------------
(* The bodies while a statement is written.                                  *)

(* Bodies that differ in what the order does not depend on; an else segment  *)
(* may                                                                       *)
(* have been opened.                                                         *)
SameAts(bs, bs2) ==
    /\ Len(bs2) = Len(bs)
    /\ \A i \in 1 .. Len(bs) :
          /\ bs2[i].at = bs[i].at /\ bs2[i].kind = bs[i].kind /\ bs2[i].split = bs[i].split
          /\ bs2[i].open = bs[i].open /\ bs2[i].head = bs[i].head /\ bs2[i].next = bs[i].next
          /\ bs2[i].alt \in {bs[i].alt, 0}

LEMMA SameStack ==
    ASSUME NEW bs, NEW bs2, NEW cd, NEW cd2, NEW s, Len(bs) \in Nat \ {0}, SameAts(bs, bs2), Adds(cd, cd2, s),
           Stacked(bs, cd)
    PROVE  Stacked(bs2, cd2) /\ Opened(bs2) = Opened(bs) /\ Opened(bs) \subseteq 1 .. Len(cd)
<1>0. Len(bs2) = Len(bs) /\ 1 \in 1 .. Len(bs) /\ \A i \in 2 .. Len(bs) : i \in 1 .. Len(bs)
  BY DEF SameAts
<1>1. \A i \in 1 .. Len(bs) : bs2[i].at = bs[i].at /\ bs2[i].kind = bs[i].kind
  BY DEF SameAts
<1>2. Opened(bs2) = Opened(bs)
  BY <1>0, <1>1 DEF Opened
<1>3. Opened(bs) \subseteq 1 .. Len(cd)
  BY DEF Opened, Stacked
<1>4. \A p \in 1 .. Len(cd) : p \in 1 .. Len(cd2) /\ cd2[p] = cd[p]
  BY PositionsMore DEF Adds
<1>5. \A i \in 2 .. Len(bs) : bs2[i].at \in 1 .. Len(cd2) /\ cd2[bs2[i].at].op = bs2[i].kind
  BY <1>0, <1>1, <1>4 DEF Stacked
<1>6. bs2[1].at = 0 /\ \A i, j \in 1 .. Len(bs2) : i < j => bs2[i].at < bs2[j].at
  BY <1>0, <1>1 DEF Stacked
<1> QED  BY <1>0, <1>2, <1>3, <1>5, <1>6 DEF Stacked

LEMMA HasElseMore ==
    ASSUME NEW cd, NEW cd2, NEW s, Adds(cd, cd2, s), NEW a
    PROVE  HasElse(cd2, a) <=> HasElse(cd, a) \/ (s.op = "else" /\ s.at = a)
<1>0. Len(cd) + 1 \in 1 .. Len(cd2) /\ 1 .. Len(cd) \subseteq 1 .. Len(cd2)
  BY PositionsMore
<1>1. ASSUME HasElse(cd2, a) PROVE HasElse(cd, a) \/ (s.op = "else" /\ s.at = a)
  <2>1. PICK e \in 1 .. Len(cd2) : Turns(cd2, e, a)
    BY <1>1 DEF HasElse
  <2>2. Turns(cd, e, a) \/ (s.op = "else" /\ s.at = a)
    BY <2>1, TurnsMore
  <2> QED  BY <2>2 DEF HasElse, Turns
<1>2. ASSUME HasElse(cd, a) PROVE HasElse(cd2, a)
  <2>1. PICK e \in 1 .. Len(cd) : Turns(cd, e, a)
    BY <1>2 DEF HasElse
  <2>2. Turns(cd2, e, a)
    BY <2>1, TurnsMore
  <2> QED  BY <1>0, <2>2 DEF HasElse
<1>3. ASSUME s.op = "else", s.at = a PROVE HasElse(cd2, a)
  <2>1. Turns(cd2, Len(cd) + 1, a)
    BY <1>3, TurnsMore
  <2> QED  BY <1>0, <2>1 DEF HasElse
<1> QED  BY <1>1, <1>2, <1>3

(* What is plain stays plain.                                                *)
LEMMA PlainAtMore ==
    ASSUME NEW bs, NEW bs2, NEW cd, NEW cd2, NEW s, SameAts(bs, bs2), Adds(cd, cd2, s), NEW a,
           PlainAt(bs, cd, a), s.op = "else" => s.at # a
    PROVE  PlainAt(bs2, cd2, a)
<1>1. ~HasElse(cd2, a)
  BY HasElseMore DEF PlainAt
<1>2. ASSUME HasClose(cd, a) PROVE HasClose(cd2, a)
  <2>1. PICK k \in 1 .. Len(cd) : Shuts(cd, k, a)
    BY <1>2 DEF HasClose
  <2>2. Shuts(cd2, k, a) /\ k \in 1 .. Len(cd2)
    BY <2>1, ShutsMore, PositionsMore
  <2> QED  BY <2>2 DEF HasClose
<1>3. ASSUME NEW i \in 1 .. Len(bs), ~bs[i].split, bs[i].at = a
      PROVE  \E k \in 1 .. Len(bs2) : ~bs2[k].split /\ bs2[k].at = a
  BY <1>3 DEF SameAts
<1> QED  BY <1>1, <1>2, <1>3 DEF PlainAt

(* What is owed stays owed.                                                  *)
LEMMA OweAtMore ==
    ASSUME NEW b, NEW b2, NEW cd, NEW cd2, NEW s, Adds(cd, cd2, s), NEW t, NEW lab, OweAt(b, cd, t, lab),
           b2.at = b.at, b2.kind = b.kind, b2.split = b.split, b2.open = b.open, b2.head = b.head,
           b2.next = b.next, b2.alt \in {b.alt, 0},
           s.op = "else" /\ s.at = b.at => b2.alt = 0
    PROVE  OweAt(b2, cd2, t, lab)
<1>1. ~b2.split => t[b2.open].src = b2.at
  BY DEF OweAt
<1>2. ASSUME b2.split PROVE SplitOwes(b2, cd2, lab)
  <2>1. SplitOwes(b, cd, lab)
    BY <1>2 DEF OweAt
  <2>2. b2.alt # 0 => ~HasElse(cd2, b2.at)
    <3>1. b2.alt # 0 => b2.alt = b.alt /\ ~HasElse(cd, b.at)
      BY <2>1 DEF SplitOwes
    <3> QED  BY <3>1, HasElseMore
  <2> QED  BY <2>1, <2>2 DEF SplitOwes
<1> QED  BY <1>1, <1>2 DEF OweAt

(* A statement is written.                                                   *)
LEMMA KnowsOne ==
    ASSUME NEW bs, NEW cd, NEW sg, NEW c, NEW lab, Knows(bs, cd, sg, c, lab, Len(cd) + 1),
           NEW cd2, NEW s, Adds(cd, cd2, s), NEW open, Nests(cd, open), NEW open2, Nests(cd2, open2),
           NEW bs2, SameAts(bs, bs2), Len(bs) \in Nat,
           s.op = "else" => ~PlainAt(bs, cd, s.at)
                            /\ \A i \in 2 .. Len(bs) : bs[i].at = s.at => bs2[i].alt = 0
    PROVE  Knows(bs2, cd2, sg, c, lab, Len(cd) + 1)
<1>1. Plains(bs, cd, sg) /\ Owes(bs, cd, sg[c], lab)
  BY DEF Knows
<1>2. Plains(bs2, cd2, sg)
  <2> SUFFICES ASSUME NEW n \in 1 .. Len(sg), NEW j \in 1 .. Len(sg[n]), sg[n][j].op \in AllKinds
               PROVE  PlainAt(bs2, cd2, sg[n][j].src)
    BY DEF Plains
  <2>1. PlainAt(bs, cd, sg[n][j].src)
    BY <1>1 DEF Plains
  <2> QED  BY <2>1, PlainAtMore
<1>3. Owes(bs2, cd2, sg[c], lab)
  <2> SUFFICES ASSUME NEW i \in 2 .. Len(bs) PROVE OweAt(bs2[i], cd2, sg[c], lab)
    BY DEF Owes, SameAts
  <2>1. OweAt(bs[i], cd, sg[c], lab)
    BY <1>1 DEF Owes
  <2>2. i \in 1 .. Len(bs)
    OBVIOUS
  <2>3. /\ bs2[i].at = bs[i].at /\ bs2[i].kind = bs[i].kind /\ bs2[i].split = bs[i].split
        /\ bs2[i].open = bs[i].open /\ bs2[i].head = bs[i].head /\ bs2[i].next = bs[i].next
        /\ bs2[i].alt \in {bs[i].alt, 0}
    BY <2>2 DEF SameAts
  <2>4. s.op = "else" /\ s.at = bs[i].at => bs2[i].alt = 0
    OBVIOUS
  <2> QED  BY <2>1, <2>3, <2>4, OweAtMore
<1> QED  BY <1>2, <1>3, KnowsCode

(* The bodies may be others, if what they are owed is right.                 *)
LEMMA KnowsBodies ==
    ASSUME NEW bs, NEW cd, NEW sg, NEW c, NEW lab, NEW h,
           Knows(bs, cd, sg, c, lab, h),
           NEW bs2, Plains(bs2, cd, sg), Owes(bs2, cd, sg[c], lab)
    PROVE  Knows(bs2, cd, sg, c, lab, h)
BY DEF Knows

(* What the shape of the segments says of the bodies.                        *)
LEMMA ShapeOpens ==
    ASSUME NEW bs, NEW sg, NEW c, Shape(bs, sg, c)
    PROVE  /\ OpensIn(bs, sg[c]) /\ Leading(bs, Len(sg)) /\ Len(bs) \in Nat \ {0}
           /\ sg \in Seq(Seq(Instr)) /\ c \in 1 .. Len(sg)
<1>1. /\ bs \in Seq(Body) /\ bs # <<>> /\ sg \in Seq(Seq(Instr)) /\ c \in DOMAIN sg /\ Places(bs, sg, c)
  BY DEF Shape, Lists
<1>2. Len(bs) \in Nat \ {0} /\ c \in 1 .. Len(sg) /\ sg[c] \in Seq(Instr)
  BY <1>1
<1>3. \A i \in 2 .. Len(bs) : i \in DOMAIN bs /\ i > 1
  BY <1>1
<1>4. OpensIn(bs, sg[c])
  <2> SUFFICES ASSUME NEW i \in 2 .. Len(bs), ~bs[i].split PROVE bs[i].open \in 1 .. Len(sg[c])
    BY DEF OpensIn
  <2>1. PlainPlaces(bs[i], sg, c)
    BY <1>1, <1>3 DEF Places
  <2> QED  BY <1>2, <2>1 DEF PlainPlaces
<1>5. Leading(bs, Len(sg))
  <2> SUFFICES ASSUME NEW i \in 2 .. Len(bs), bs[i].split
               PROVE  /\ bs[i].next \in 1 .. Len(sg) /\ (bs[i].kind = "while" => bs[i].head \in 1 .. Len(sg))
                      /\ bs[i].alt # 0 => bs[i].alt \in 1 .. Len(sg)
    BY DEF Leading
  <2>1. SplitPlaces(bs[i], sg, c)
    BY <1>1, <1>3 DEF Places
  <2>2. DOMAIN sg = 1 .. Len(sg)
    BY <1>1
  <2> QED  BY <2>1, <2>2 DEF SplitPlaces, Pending
<1> QED  BY <1>1, <1>2, <1>4, <1>5

LEMMA SameOpens ==
    ASSUME NEW bs, NEW bs2, NEW t, NEW n, SameAts(bs, bs2), Len(bs) \in Nat, OpensIn(bs, t), Leading(bs, n)
    PROVE  OpensIn(bs2, t) /\ Leading(bs2, n)
<1>1. \A i \in 2 .. Len(bs2) :
        /\ i \in 2 .. Len(bs) /\ bs2[i].kind = bs[i].kind /\ bs2[i].split = bs[i].split
        /\ bs2[i].open = bs[i].open /\ bs2[i].head = bs[i].head /\ bs2[i].next = bs[i].next
        /\ bs2[i].alt \in {bs[i].alt, 0}
  BY DEF SameAts
<1>2. OpensIn(bs2, t)
  BY <1>1 DEF OpensIn
<1>3. Leading(bs2, n)
  BY <1>1 DEF Leading
<1> QED  BY <1>2, <1>3

-----------------------------------------------------------------------------
(* Statements that only the current segment sees: emitPlain, emitSpawnSite   *)
(* and the return statement of emitStmt.                                     *)

(* A segment that has ended is that of a split body that has jumped.         *)
ExitKnown(bs, t) == Ended(t) => bs[Len(bs)].exited /\ bs[Len(bs)].split

(* The order while a body is written.                                        *)
WriteInv(bs, cd, sg, c) ==
    /\ Stack(bs, cd) /\ ExitKnown(bs, sg[c])
    /\ \E lab : Knows(bs, cd, sg, c, lab, Len(cd) + 1)

(* The model's Grown is a gain.                                              *)
LEMMA GrownGains ==
    ASSUME NEW sg \in Seq(Seq(Instr)), NEW c \in 1 .. Len(sg), NEW e \in Instr
    PROVE  Gains(sg, Grown(sg, c, <<e>>), c, e) /\ Grown(sg, c, <<e>>)[c] = sg[c] \o <<e>>
<1> DEFINE t == <<e>>
           g == Grown(sg, c, t)
<1>1. c \in DOMAIN sg /\ DOMAIN sg = 1 .. Len(sg)
  OBVIOUS
<1>t. t \in Seq(Instr)
  OBVIOUS
<1> HIDE DEF t
<1>2. /\ g \in Seq(Seq(Instr)) /\ Len(g) = Len(sg) /\ g[c] = sg[c] \o t
      /\ \A s \in DOMAIN sg : s # c => g[s] = sg[s]
  BY <1>1, <1>t, GrownIs
<1> HIDE DEF g
<1> USE DEF t
<1>3. Gains(sg, g, c, e)
  BY <1>1, <1>2 DEF Gains
<1> QED  BY <1>2, <1>3 DEF g

LEMMA LastOfOne ==
    ASSUME NEW t \in Seq(Instr), NEW e \in Instr
    PROVE  Ended(t \o <<e>>) <=> e.op \in Terminal
<1>1. /\ t \o <<e>> # <<>> /\ Len(t \o <<e>>) = Len(t) + 1 /\ (t \o <<e>>)[Len(t) + 1] = e
  OBVIOUS
<1> QED  BY <1>1 DEF Ended

(* An instruction that is shown makes the next one the next statement's.     *)
LEMMA ShownOn ==
    ASSUME NEW cd, NEW i \in Instr, i.shown, i.src \in Nat
    PROVE  Skips(cd, i.src + Width(i), i.src + 1)
<1>1. Width(i) = 1 /\ i.src + 1 \in Nat /\ 1 <= i.src + 1
  BY DEF Width
<1> QED  BY <1>1, SkipsHere

(* One statement and its one instruction.                                    *)
LEMMA StatementKnown ==
    ASSUME NEW bs, NEW cd, NEW sg, NEW c, Shape(bs, sg, c), WriteInv(bs, cd, sg, c), ~bs[Len(bs)].exited,
           NEW bs2, SameAts(bs, bs2), NEW cd2, NEW s, Adds(cd, cd2, s), s.op # "else",
           FitsIn(cd, Opened(bs), s, Opened(bs)),
           NEW e \in Instr, e.src = Len(cd) + 1, e.shown, e.op \notin AllKinds,
           Fits(e, sg[c], Len(sg)), Stands(cd2, e),
           \A lab : Knows(bs2, cd2, sg, c, lab, Len(cd) + 1) => Leads(cd2, e, lab) /\ Back(cd2, sg[c], e),
           e.op \in Terminal => bs2[Len(bs2)].exited /\ bs2[Len(bs2)].split
    PROVE  WriteInv(bs2, cd2, Grown(sg, c, <<e>>), c)
<1> DEFINE sg2 == Grown(sg, c, <<e>>)
<1>1. /\ OpensIn(bs, sg[c]) /\ Leading(bs, Len(sg)) /\ Len(bs) \in Nat \ {0}
      /\ sg \in Seq(Seq(Instr)) /\ c \in 1 .. Len(sg)
  BY ShapeOpens
<1>2. Stack(bs, cd) /\ ~Ended(sg[c]) /\ Nests(cd, Opened(bs)) /\ Stacked(bs, cd)
  BY DEF WriteInv, ExitKnown, Stack
<1>3. Stacked(bs2, cd2) /\ Opened(bs2) = Opened(bs)
  BY <1>1, <1>2, SameStack
<1>4. Nests(cd2, Opened(bs))
  BY <1>2, NestsMore
<1>5. PICK lab : Knows(bs, cd, sg, c, lab, Len(cd) + 1)
  BY DEF WriteInv
<1>6. Knows(bs2, cd2, sg, c, lab, Len(cd) + 1)
  BY <1>1, <1>2, <1>4, <1>5, KnowsOne
<1>7. OpensIn(bs2, sg[c])
  BY <1>1, SameOpens
<1>8. Len(cd2) = Len(cd) + 1 /\ Len(cd) \in Nat
  BY DEF Adds
<1>9. Skips(cd2, e.src + Width(e), Len(cd2) + 1)
  <2>1. e.src \in Nat /\ e.src + 1 = Len(cd2) + 1
    BY <1>8
  <2>2. Skips(cd2, e.src + Width(e), e.src + 1)
    BY <2>1, ShownOn
  <2> QED  BY <2>1, <2>2
<1>10. Suits(cd2, sg, c, e, lab)
  <2>1. Leads(cd2, e, lab) /\ Back(cd2, sg[c], e)
    BY <1>6
  <2> QED  BY <2>1 DEF Suits, Back
<1>11. Gains(sg, sg2, c, e) /\ sg2[c] = sg[c] \o <<e>>
  BY <1>1, GrownGains
<1> HIDE DEF sg2
<1>12. Knows(bs2, cd2, sg2, c, lab, Len(cd2) + 1)
  BY <1>2, <1>6, <1>7, <1>8, <1>9, <1>10, <1>11, KnowsGain
<1>13. ExitKnown(bs2, sg2[c])
  <2>1. sg[c] \in Seq(Instr)
    BY <1>1
  <2> QED  BY <1>11, <2>1, LastOfOne DEF ExitKnown
<1>14. Stack(bs2, cd2)
  BY <1>3, <1>4 DEF Stack
<1> QED  BY <1>12, <1>13, <1>14 DEF WriteInv, sg2

(* The invariant of writing, with what CoopTaskProofs knows.                 *)
Writes == WriteInv(bodies, code, segs, cur)
Fresh  == Ready /\ Writes /\ "plain-return" \notin Shapes

LEMMA AddsOne ==
    ASSUME code \in Seq(Stmt), NEW s \in Stmt 
    PROVE  Adds(code, code \o <<s>>, s) /\ Adds(code, Append(code, s), s)
  BY DEF Adds

LEMMA SameAtsSelf ==
    ASSUME NEW bs PROVE SameAts(bs, bs)
  BY DEF SameAts

LEMMA SameAtsTop ==
    ASSUME NEW bs \in Seq(Body), bs # <<>>, NEW b \in Body, b.at = Last(bs).at, b.kind = Last(bs).kind,
           b.split = Last(bs).split, b.open = Last(bs).open, b.head = Last(bs).head, b.next = Last(bs).next,
           b.alt \in {Last(bs).alt, 0}
    PROVE  SameAts(bs, Append(Front(bs), b)) /\ Append(Front(bs), b)[Len(Append(Front(bs), b))] = b
<1> DEFINE n == Append(Front(bs), b)
<1>1. /\ Len(n) = Len(bs) /\ n[Len(bs)] = b /\ \A i \in DOMAIN bs : i < Len(bs) => n[i] = bs[i]
  BY Retopped
<1>2. Last(bs) = bs[Len(bs)]
  BY DEF Last
<1>3. \A i \in 1 .. Len(bs) : i \in DOMAIN bs /\ (i < Len(bs) \/ i = Len(bs))
  OBVIOUS
<1> HIDE DEF n
<1>4. \A i \in 1 .. Len(bs) : (i < Len(bs) /\ n[i] = bs[i]) \/ (n[i] = b /\ bs[i] = Last(bs))
  BY <1>1, <1>2, <1>3
<1>5. SameAts(bs, n)
  BY <1>1, <1>4 DEF SameAts
<1> QED  BY <1>1, <1>5 DEF n

(* A statement that opens, closes and jumps nowhere fits in anywhere.        *)
LEMMA FitsPlainly ==
    ASSUME NEW bs, NEW cd, Stacked(bs, cd), NEW s, s.op \notin AllKinds \cup {"close", "else"} \cup Jumps
    PROVE  FitsIn(cd, Opened(bs), s, Opened(bs))
<1>1. Opened(bs) \subseteq 1 .. Len(cd)
  BY DEF Opened, Stacked
<1> QED  BY <1>1 DEF FitsIn

(* The instruction that shows a statement stands for it.                     *)
LEMMA StandsLast ==
    ASSUME NEW cd, NEW cd2, NEW s, Adds(cd, cd2, s), NEW e \in Instr, e.src = Len(cd) + 1, e.shown,
           \/ e.op = s.op /\ e.op \notin {"block", "close"}
           \/ e.op = "finish" /\ s.op = "return"
           \/ e.op = "branch" /\ s.op \in {"if", "while"}
           \/ e.op = "goto" /\ s.op \in Jumps,
           e.op \notin {"take"}
    PROVE  Stands(cd2, e)
<1>1. /\ Len(cd) \in Nat /\ e.src \in 1 .. Len(cd2) /\ e.src \in 1 .. Len(cd2) + 1 /\ e.src # Len(cd2) + 1
      /\ cd2[e.src] = s
  BY PositionsMore DEF Adds
<1>2. s.op \in {"new", "use", "move", "spawn", "return", "else", "close"} \cup Calls \cup Jumps \cup AllKinds
  BY DEF Adds, Stmt
<1> QED  BY <1>1, <1>2 DEF Stands, Copied, Calls, Jumps, AllKinds, Loops

(* A statement that only the segment sees.                                   *)
LEMMA OneKnown ==
    ASSUME Fresh, ~Top.exited, NEW s \in Stmt, NEW i \in Instr,
           i.src = Here, i.op = s.op, i.op \in {"new", "use", "move", "spawn"},
           Shape(bodies, segs, cur)
    PROVE  WriteInv(bodies, code \o <<s>>, Extended(<<Visible(i)>>), cur)
<1> DEFINE e == Visible(i)
<1>1. e \in Instr /\ e.op = i.op /\ e.src = Len(code) + 1 /\ e.shown
  BY DEF Visible, Instr, Here
<1> HIDE DEF e
<1>2. code \in Seq(Stmt) /\ WriteInv(bodies, code, segs, cur) /\ Stacked(bodies, code)
  BY DEF Fresh, Ready, Writes, WriteInv, Stack
<1>3. Adds(code, code \o <<s>>, s)
  BY <1>2, AddsOne
<1>4. /\ e.op \notin AllKinds \cup {"close", "else"} \cup Jumps \cup Calls
      /\ e.op \notin {"goto", "branch", "return"}
      /\ e.op \notin Terminal /\ e.op \notin {"take", "block"}
  BY <1>1 DEF AllKinds, Loops, Jumps, Terminal, Transfers, Calls
<1>5. FitsIn(code, Opened(bodies), s, Opened(bodies))
  BY <1>1, <1>2, <1>4, FitsPlainly
<1>6. Stands(code \o <<s>>, e)
  BY <1>1, <1>3, <1>4, StandsLast
<1>7. \A lab : Leads(code \o <<s>>, e, lab) /\ Back(code \o <<s>>, segs[cur], e)
  BY <1>4 DEF Leads, Back
<1>8. Fits(e, segs[cur], Len(segs))
  BY <1>4, FitsAnywhere
<1>9. ~bodies[Len(bodies)].exited
  BY TopIs
<1> QED  BY <1>1, <1>2, <1>3, <1>4, <1>5, <1>6, <1>7, <1>8, <1>9, SameAtsSelf, StatementKnown,
            ExtendedGrows DEF e

LEMMA VisibleKeeps ==
    ASSUME NEW i \in Instr
    PROVE  LET v == Visible(i) IN
           v \in Instr /\ v.op = i.op /\ v.src = i.src /\ v.to = i.to /\ v.other = i.other /\ v.shown
  BY DEF Visible, Instr

(* The statements of emitPlain,                                              *)
LEMMA NewKnown ==
    ASSUME Fresh, New PROVE Writes'
<1>1. PICK name \in Locals :
        /\ ~Top.exited
        /\ Write(bodies, <<S("new", name, 0)>>, Extended(<<Visible(I("new", name, 0))>>), cur)
  BY DEF New, Writing
<1>2. name \in Names \cup {""} /\ code \in Seq(Stmt) /\ Shape(bodies, segs, cur)
  BY <1>1 DEF Names, Fresh, Ready
<1> DEFINE s == S("new", name, 0)
           i == I("new", name, 0)
<1>3. s \in Stmt /\ s.op = "new"
  BY <1>2 DEF S, Stmt
<1>4. i \in Instr /\ i.op = "new" /\ i.src = Here
  BY <1>2, HereIs DEF I, Instr
<1>5. bodies' = bodies /\ code' = code \o <<s>> /\ segs' = Extended(<<Visible(i)>>) /\ cur' = cur
  BY <1>1 DEF Write
<1> HIDE DEF s, i
<1>6. WriteInv(bodies, code \o <<s>>, Extended(<<Visible(i)>>), cur)
  BY <1>1, <1>2, <1>3, <1>4, OneKnown
<1> QED  BY <1>5, <1>6 DEF Writes

LEMMA UseKnown ==
    ASSUME Fresh, Use PROVE Writes'
<1>1. PICK name \in Names :
        /\ ~Top.exited
        /\ Write(bodies, <<S("use", name, 0)>>, Extended(<<Visible(I("use", name, 0))>>), cur)
  BY DEF Use, Writing, Names
<1>2. name \in Names \cup {""} /\ code \in Seq(Stmt) /\ Shape(bodies, segs, cur)
  BY <1>1 DEF Fresh, Ready
<1> DEFINE s == S("use", name, 0)
           i == I("use", name, 0)
<1>3. s \in Stmt /\ s.op = "use"
  BY <1>2 DEF S, Stmt
<1>4. i \in Instr /\ i.op = "use" /\ i.src = Here
  BY <1>2, HereIs DEF I, Instr
<1>5. bodies' = bodies /\ code' = code \o <<s>> /\ segs' = Extended(<<Visible(i)>>) /\ cur' = cur
  BY <1>1 DEF Write
<1> HIDE DEF s, i
<1>6. WriteInv(bodies, code \o <<s>>, Extended(<<Visible(i)>>), cur)
  BY <1>1, <1>2, <1>3, <1>4, OneKnown
<1> QED  BY <1>5, <1>6 DEF Writes

LEMMA MoveKnown ==
    ASSUME Fresh, Move PROVE Writes'
<1> DEFINE s == S("move", "chan", 0)
           i == I("move", "chan", 0)
<1>2. "chan" \in Names \cup {""} /\ code \in Seq(Stmt) /\ Shape(bodies, segs, cur)
  BY DEF Names, Locals, Fresh, Ready
<1>3. s \in Stmt /\ s.op = "move"
  BY <1>2 DEF S, Stmt
<1>4. i \in Instr /\ i.op = "move" /\ i.src = Here
  BY <1>2, HereIs DEF I, Instr
<1>5. /\ bodies' = bodies /\ code' = code \o <<s>> /\ segs' = Extended(<<Visible(i)>>) /\ cur' = cur
      /\ ~Top.exited
  BY DEF Move, Write, Writing
<1> HIDE DEF s, i
<1>6. WriteInv(bodies, code \o <<s>>, Extended(<<Visible(i)>>), cur)
  BY <1>2, <1>3, <1>4, <1>5, OneKnown
<1> QED  BY <1>5, <1>6 DEF Writes

(* the one of emitSpawnSite,                                                 *)
LEMMA SpawnKnown ==
    ASSUME Fresh, Spawn PROVE Writes'
<1> DEFINE s == S("spawn", "", 0)
           i == I("spawn", "", 0)
<1>2. code \in Seq(Stmt) /\ Shape(bodies, segs, cur)
  BY DEF Fresh, Ready
<1>3. s \in Stmt /\ s.op = "spawn"
  BY <1>2 DEF S, Stmt
<1>4. i \in Instr /\ i.op = "spawn" /\ i.src = Here
  BY <1>2, HereIs DEF I, Instr
<1>5. /\ bodies' = bodies /\ code' = code \o <<s>> /\ segs' = Extended(<<Visible(i)>>) /\ cur' = cur
      /\ ~Top.exited
  BY DEF Spawn, Write, Writing
<1> HIDE DEF s, i
<1>6. WriteInv(bodies, code \o <<s>>, Extended(<<Visible(i)>>), cur)
  BY <1>2, <1>3, <1>4, <1>5, OneKnown
<1> QED  BY <1>5, <1>6 DEF Writes

(* Only the innermost body changes, and it only exits or binds a name.       *)
LEMMA TopSame ==
    ASSUME Fresh, NEW b, b = [Top EXCEPT !.exited = TRUE]
    PROVE  /\ b \in Body /\ b.exited /\ b.split = Top.split /\ SameAts(bodies, WithTop(b))
           /\ WithTop(b)[Len(WithTop(b))] = b
<1>1. Top \in Body /\ bodies \in Seq(Body) /\ bodies # <<>> /\ Top = Last(bodies)
  BY TopIs DEF Fresh, Ready, Shape, Lists
<1>2. /\ b \in Body /\ b.exited /\ b.split = Top.split /\ b.at = Top.at /\ b.kind = Top.kind
      /\ b.open = Top.open
      /\ b.head = Top.head /\ b.next = Top.next /\ b.alt = Top.alt
  BY <1>1 DEF Body
<1>3. SameAts(bodies, Append(Front(bodies), b))
      /\ Append(Front(bodies), b)[Len(Append(Front(bodies), b))] = b
  <2>1. b.alt \in {Last(bodies).alt, 0}
    BY <1>1, <1>2
  <2>2. /\ b.split = Last(bodies).split /\ b.at = Last(bodies).at /\ b.kind = Last(bodies).kind
        /\ b.open = Last(bodies).open /\ b.head = Last(bodies).head /\ b.next = Last(bodies).next
    BY <1>1, <1>2
  <2> QED  BY <1>1, <1>2, <2>1, <2>2, SameAtsTop
<1> QED  BY <1>2, <1>3 DEF WithTop

(* and the return statement, which closeReturn makes the end of its segment. *)
LEMMA ReturnKnown ==
    ASSUME Fresh, Return PROVE Writes'
<1> DEFINE s == S("return", "", 0)
           i == I("finish", "", 0)
           e == Visible(i)
           b == [Top EXCEPT !.exited = TRUE]
<1>1. /\ code \in Seq(Stmt) /\ Shape(bodies, segs, cur) /\ WriteInv(bodies, code, segs, cur)
      /\ Stacked(bodies, code)
  BY DEF Fresh, Ready, Writes, WriteInv, Stack
<1>2. Top.split /\ ~Top.exited
  BY DEF Return, Fresh, Writing
<1>3. /\ bodies' = WithTop(b) /\ code' = code \o <<s>> /\ segs' = Extended(<<e>>) /\ cur' = cur
  BY <1>2 DEF Return, Write
<1>4. s \in Stmt /\ s.op = "return"
  BY DEF S, Stmt
<1>5. i \in Instr /\ i.op = "finish" /\ i.src = Here
  BY <1>1, HereIs DEF I, Instr
<1>6. e \in Instr /\ e.op = "finish" /\ e.src = Len(code) + 1 /\ e.shown
  <2> HIDE DEF i
  <2> QED  BY <1>5, VisibleKeeps DEF Here
<1>7. b.exited /\ b.split /\ SameAts(bodies, WithTop(b)) /\ WithTop(b)[Len(WithTop(b))] = b
  BY <1>2, TopSame
<1> HIDE DEF s, i, e, b
<1>8. Adds(code, code \o <<s>>, s)
  BY <1>1, <1>4, AddsOne
<1>9. FitsIn(code, Opened(bodies), s, Opened(bodies))
  BY <1>1, <1>4, FitsPlainly DEF AllKinds, Loops, Jumps
<1>10. Stands(code \o <<s>>, e)
  BY <1>4, <1>6, <1>8, StandsLast
<1>11. \A lab : Leads(code \o <<s>>, e, lab) /\ Back(code \o <<s>>, segs[cur], e)
  BY <1>6 DEF Leads, Back, Calls, Jumps
<1>12. Fits(e, segs[cur], Len(segs))
  BY <1>6, FitsAnywhere DEF Calls, Jumps
<1>13. ~bodies[Len(bodies)].exited
  BY <1>1, <1>2, TopIs
<1>14. e.op \notin AllKinds
  BY <1>6 DEF AllKinds, Loops
<1>15. WriteInv(WithTop(b), code \o <<s>>, Extended(<<e>>), cur)
  BY <1>1, <1>4, <1>6, <1>7, <1>8, <1>9, <1>10, <1>11, <1>12, <1>13, <1>14, StatementKnown, ExtendedGrows
<1> QED  BY <1>3, <1>15 DEF Writes

-----------------------------------------------------------------------------
(* Bodies are pushed and popped.                                             *)

LEMMA PushIs ==
    ASSUME NEW bs \in Seq(Body), NEW b \in Body
    PROVE  /\ Append(bs, b) \in Seq(Body) /\ Len(Append(bs, b)) = Len(bs) + 1
           /\ Append(bs, b)[Len(bs) + 1] = b
           /\ Len(bs) \in Nat /\ \A i \in 1 .. Len(bs) : Append(bs, b)[i] = bs[i]
  OBVIOUS

LEMMA PushOpened ==
    ASSUME NEW bs \in Seq(Body), bs # <<>>, NEW b \in Body
    PROVE  Opened(Append(bs, b)) = Opened(bs) \cup {b.at}
<1> DEFINE n == Append(bs, b)
<1>1. /\ Len(n) = Len(bs) + 1 /\ n[Len(bs) + 1] = b /\ Len(bs) \in Nat /\ \A i \in 1 .. Len(bs) : n[i] = bs[i]
  BY PushIs
<1>2. Len(bs) # 0
  OBVIOUS
<1> HIDE DEF n
<1>3. \A i \in 2 .. Len(n) : (i \in 2 .. Len(bs) /\ n[i] = bs[i]) \/ (i = Len(bs) + 1 /\ n[i] = b)
  BY <1>1
<1>4. Len(bs) + 1 \in 2 .. Len(n)
  BY <1>1, <1>2
<1>5. \A i \in 2 .. Len(bs) : i \in 2 .. Len(n) /\ n[i] = bs[i]
  BY <1>1
<1>6. Opened(n) = Opened(bs) \cup {b.at}
  BY <1>1, <1>3, <1>4, <1>5 DEF Opened
<1> QED  BY <1>6 DEF n

LEMMA PushStack ==
    ASSUME NEW bs \in Seq(Body), bs # <<>>, NEW b \in Body, NEW cd, NEW cd2, NEW s, Adds(cd, cd2, s),
           s.op = b.kind, b.kind \in AllKinds, b.at = Len(cd) + 1, Stack(bs, cd)
    PROVE  Stack(Append(bs, b), cd2)
<1> DEFINE n == Append(bs, b)
<1>1. /\ Len(n) = Len(bs) + 1 /\ n[Len(bs) + 1] = b /\ Len(bs) \in Nat /\ \A i \in 1 .. Len(bs) : n[i] = bs[i]
  BY PushIs
<1>2. Opened(n) = Opened(bs) \cup {Len(cd) + 1}
  BY PushOpened
<1>3. Len(bs) \in Nat \ {0}
  OBVIOUS
<1> HIDE DEF n
<1>4. Stacked(bs, cd) /\ Nests(cd, Opened(bs))
  BY DEF Stack
<1>5. Stacked(bs, cd2) /\ Opened(bs) \subseteq 1 .. Len(cd)
  BY <1>3, <1>4, SameAtsSelf, SameStack
<1>6. FitsIn(cd, Opened(bs), s, Opened(n))
  <2>1. s.op \notin {"close", "else"} \cup Jumps
    BY DEF AllKinds, Loops, Jumps
  <2> QED  BY <1>2, <1>5, <2>1 DEF FitsIn
<1>7. Nests(cd2, Opened(n))
  BY <1>4, <1>6, NestsMore
<1>8. \A i \in 1 .. Len(n) : (i \in 1 .. Len(bs) /\ n[i] = bs[i]) \/ (i = Len(bs) + 1 /\ n[i] = b)
  BY <1>1
<1>9. Len(cd) \in Nat /\ Len(cd) + 1 \in 1 .. Len(cd2) /\ cd2[Len(cd) + 1] = s /\ bs[1].at < Len(cd) + 1
  BY <1>4, PositionsMore DEF Adds, Stacked
<1>10. \A i \in 1 .. Len(bs) : bs[i].at < Len(cd) + 1
  <2> SUFFICES ASSUME NEW i \in 1 .. Len(bs) PROVE bs[i].at < Len(cd) + 1
    OBVIOUS
  <2>1. i = 1 \/ i \in 2 .. Len(bs)
    OBVIOUS
  <2> QED  BY <1>4, <1>9, <2>1 DEF Stacked
<1>11. Stacked(n, cd2)
  <2>1. n[1].at = 0
    BY <1>1, <1>3, <1>4 DEF Stacked
  <2>2. ASSUME NEW i \in 2 .. Len(n) PROVE n[i].at \in 1 .. Len(cd2) /\ cd2[n[i].at].op = n[i].kind
    <3>1. CASE i \in 2 .. Len(bs)
      BY <1>1, <1>5, <3>1 DEF Stacked
    <3>2. CASE i = Len(bs) + 1
      BY <1>1, <1>9, <3>2
    <3> QED  BY <1>1, <3>1, <3>2
  <2>3. ASSUME NEW i \in 1 .. Len(n), NEW j \in 1 .. Len(n), i < j PROVE n[i].at < n[j].at
    <3>1. CASE j \in 1 .. Len(bs)
      <4>1. i \in 1 .. Len(bs)
        BY <1>1, <2>3, <3>1
      <4> QED  BY <1>1, <1>5, <2>3, <3>1, <4>1 DEF Stacked
    <3>2. CASE j = Len(bs) + 1
      <4>1. i \in 1 .. Len(bs)
        BY <1>1, <2>3, <3>2
      <4> QED  BY <1>1, <1>10, <3>2, <4>1
    <3> QED  BY <1>8, <3>1, <3>2
  <2> QED  BY <2>1, <2>2, <2>3 DEF Stacked
<1> QED  BY <1>7, <1>11 DEF Stack, n

LEMMA PopIs ==
    ASSUME NEW bs \in Seq(Body), Len(bs) > 1
    PROVE  /\ Len(bs) \in Nat /\ Len(Front(bs)) = Len(bs) - 1 /\ \A i \in 1 .. Len(bs) - 1 : Front(bs)[i] = bs[i]
           /\ Front(bs) \in Seq(Body) /\ Last(bs) = bs[Len(bs)]
<1>1. bs # <<>>
  OBVIOUS
<1> QED  BY <1>1, FrontIs DEF Last

LEMMA PopStack ==
    ASSUME NEW bs \in Seq(Body), Len(bs) > 1, NEW cd, NEW cd2, NEW s, Adds(cd, cd2, s),
           s.op = "close", s.at = Last(bs).at, Last(bs).kind \in AllKinds, Stack(bs, cd)
    PROVE  Stack(Front(bs), cd2)
<1> DEFINE n == Front(bs)
<1>1. /\ Len(bs) \in Nat /\ Len(n) = Len(bs) - 1 /\ Last(bs) = bs[Len(bs)]
      /\ \A i \in 1 .. Len(bs) - 1 : n[i] = bs[i]
  BY PopIs
<1> HIDE DEF n
<1>2. Stacked(bs, cd) /\ Nests(cd, Opened(bs))
  BY DEF Stack
<1>3. Stacked(bs, cd2) /\ Opened(bs) \subseteq 1 .. Len(cd)
  <2>1. Len(bs) \in Nat \ {0}
    BY <1>1
  <2> QED  BY <1>2, <2>1, SameAtsSelf, SameStack
<1>4. Len(bs) \in 2 .. Len(bs) /\ \A i \in 2 .. Len(bs) : i \in 2 .. Len(bs) - 1 \/ i = Len(bs)
  BY <1>1
<1>5. \A i \in 1 .. Len(bs) - 1 : i \in 1 .. Len(bs) /\ i < Len(bs)
  BY <1>1
<1>6. \A i \in 2 .. Len(n) : i \in 2 .. Len(bs) /\ i \in 1 .. Len(bs) - 1
  BY <1>1
<1>7. Opened(n) \subseteq Opened(bs)
  BY <1>1, <1>6 DEF Opened
<1>8. Opened(bs) \subseteq Opened(n) \cup {s.at}
  <2> SUFFICES ASSUME NEW i \in 2 .. Len(bs) PROVE bs[i].at \in Opened(n) \cup {s.at}
    BY DEF Opened
  <2>1. CASE i = Len(bs)
    BY <1>1, <2>1
  <2>2. CASE i \in 2 .. Len(bs) - 1
    <3>1. i \in 2 .. Len(n) /\ n[i] = bs[i]
      BY <1>1, <2>2
    <3> QED  BY <3>1 DEF Opened
  <2> QED  BY <1>4, <2>1, <2>2
<1>9. s.at \in Opened(bs)
  BY <1>1, <1>4 DEF Opened
<1>10. s.at \notin Opened(n)
  <2> SUFFICES ASSUME NEW i \in 2 .. Len(n) PROVE n[i].at # s.at
    BY DEF Opened
  <2>1. n[i] = bs[i] /\ i \in 1 .. Len(bs) /\ i \in 2 .. Len(bs) /\ i < Len(bs)
        /\ Len(bs) \in 1 .. Len(bs)
    BY <1>1, <1>5, <1>6
  <2>2. bs[i].at < bs[Len(bs)].at /\ bs[i].at \in 1 .. Len(cd)
    BY <1>2, <2>1 DEF Stacked
  <2>3. bs[Len(bs)].at \in 1 .. Len(cd)
    BY <1>2, <1>4 DEF Stacked
  <2>4. Len(cd) \in Nat
    BY PositionsMore
  <2> QED  BY <1>1, <2>1, <2>2, <2>3, <2>4
<1>11. cd[s.at].op \in AllKinds
  BY <1>1, <1>2, <1>4 DEF Stacked
<1>12. FitsIn(cd, Opened(bs), s, Opened(n))
  <2>1. s.op \notin AllKinds \cup Jumps \cup {"else"}
    BY DEF AllKinds, Loops, Jumps
  <2> QED  BY <1>3, <1>7, <1>8, <1>9, <1>10, <1>11, <2>1 DEF FitsIn
<1>13. Nests(cd2, Opened(n))
  BY <1>2, <1>12, NestsMore
<1>14. Stacked(n, cd2)
  <2>1. n[1].at = 0
    <3>1. 1 \in 1 .. Len(bs) - 1
      BY <1>1
    <3> QED  BY <1>1, <1>3, <3>1 DEF Stacked
  <2>2. \A i \in 2 .. Len(n) : n[i].at \in 1 .. Len(cd2) /\ cd2[n[i].at].op = n[i].kind
    BY <1>1, <1>3, <1>6 DEF Stacked
  <2>3. \A i, j \in 1 .. Len(n) : i < j => n[i].at < n[j].at
    BY <1>1, <1>3, <1>5 DEF Stacked
  <2> QED  BY <2>1, <2>2, <2>3 DEF Stacked
<1> QED  BY <1>13, <1>14 DEF Stack, n

LEMMA KnowsPop ==
    ASSUME NEW bs \in Seq(Body), Len(bs) > 1, NEW cd, NEW sg, NEW c, NEW lab, NEW h,
           Knows(bs, cd, sg, c, lab, h),
           HasClose(cd, Last(bs).at)
    PROVE  Knows(Front(bs), cd, sg, c, lab, h)
<1> DEFINE n == Front(bs)
<1>1. /\ Len(bs) \in Nat /\ Len(n) = Len(bs) - 1 /\ Last(bs) = bs[Len(bs)]
      /\ \A i \in 1 .. Len(bs) - 1 : n[i] = bs[i]
  BY PopIs
<1> HIDE DEF n
<1>2. Plains(bs, cd, sg) /\ Owes(bs, cd, sg[c], lab)
  BY DEF Knows
<1>3. Owes(n, cd, sg[c], lab)
  <2>1. \A i \in 2 .. Len(n) : i \in 2 .. Len(bs) /\ n[i] = bs[i]
    BY <1>1
  <2> QED  BY <1>2, <2>1 DEF Owes
<1>4. ASSUME NEW a, PlainAt(bs, cd, a) PROVE PlainAt(n, cd, a)
  <2>1. CASE HasClose(cd, a)
    BY <1>4, <2>1 DEF PlainAt
  <2>2. ASSUME NEW i \in 1 .. Len(bs), ~bs[i].split, bs[i].at = a PROVE PlainAt(n, cd, a)
    <3>1. CASE i = Len(bs)
      BY <1>1, <1>4, <2>2, <3>1 DEF PlainAt
    <3>2. CASE i # Len(bs)
      <4>1. i \in 1 .. Len(n) /\ n[i] = bs[i]
        BY <1>1, <3>2
      <4> QED  BY <1>4, <2>2, <4>1 DEF PlainAt
    <3> QED  BY <3>1, <3>2
  <2> QED  BY <1>4, <2>1, <2>2 DEF PlainAt
<1>5. Plains(n, cd, sg)
  BY <1>2, <1>4 DEF Plains
<1> QED  BY <1>3, <1>5, KnowsBodies DEF n

LEMMA PlainAtPush ==
    ASSUME NEW bs \in Seq(Body), NEW b \in Body, NEW cd, NEW a, PlainAt(bs, cd, a)
    PROVE  PlainAt(Append(bs, b), cd, a)
<1> DEFINE n == Append(bs, b)
<1>1. /\ Len(n) = Len(bs) + 1 /\ n[Len(bs) + 1] = b /\ Len(bs) \in Nat /\ \A i \in 1 .. Len(bs) : n[i] = bs[i]
  BY PushIs
<1> HIDE DEF n
<1>2. \A i \in 1 .. Len(bs) : i \in 1 .. Len(n) /\ n[i] = bs[i]
  BY <1>1
<1>3. PlainAt(n, cd, a)
  BY <1>2 DEF PlainAt
<1> QED  BY <1>3 DEF n

LEMMA OwesPush ==
    ASSUME NEW bs \in Seq(Body), NEW b \in Body, NEW cd, NEW t, NEW lab,
           Owes(bs, cd, t, lab), OweAt(b, cd, t, lab)
    PROVE  Owes(Append(bs, b), cd, t, lab)
<1> DEFINE n == Append(bs, b)
<1>1. /\ Len(n) = Len(bs) + 1 /\ n[Len(bs) + 1] = b /\ Len(bs) \in Nat /\ \A i \in 1 .. Len(bs) : n[i] = bs[i]
  BY PushIs
<1> HIDE DEF n
<1>2. \A i \in 2 .. Len(n) : (i \in 2 .. Len(bs) /\ n[i] = bs[i]) \/ n[i] = b
  BY <1>1
<1>3. Owes(n, cd, t, lab)
  BY <1>2 DEF Owes
<1> QED  BY <1>3 DEF n

LEMMA KnowsPush ==
    ASSUME NEW bs \in Seq(Body), NEW b \in Body, NEW cd, NEW sg, NEW c, NEW lab, NEW h,
           Knows(bs, cd, sg, c, lab, h),
           OweAt(b, cd, sg[c], lab)
    PROVE  Knows(Append(bs, b), cd, sg, c, lab, h)
<1>1. Plains(bs, cd, sg) /\ Owes(bs, cd, sg[c], lab)
  BY DEF Knows
<1>2. Plains(Append(bs, b), cd, sg)
  BY <1>1, PlainAtPush DEF Plains
<1>3. Owes(Append(bs, b), cd, sg[c], lab)
  BY <1>1, OwesPush
<1> QED  BY <1>2, <1>3, KnowsBodies

-----------------------------------------------------------------------------
(* break and continue, in bodies that are split and in bodies that are       *)
(* copied.                                                                   *)

(* The loop a jump belongs to: its labels, or its opening instruction.       *)
LEMMA LoopKnown ==
    ASSUME Fresh, NEW k \in 2 .. Len(bodies), bodies[k].kind \in Loops
    PROVE  /\ bodies[k].at \in 1 .. Len(code) /\ code[bodies[k].at].op \in Loops
           /\ bodies[k].split => /\ bodies[k].kind = "while"
                                 /\ bodies[k].next \in 1 .. Len(segs) /\ bodies[k].head \in 1 .. Len(segs)
           /\ ~bodies[k].split => /\ bodies[k].open \in DOMAIN segs[cur]
                                  /\ segs[cur][bodies[k].open].op \in AllKinds
<1>1. /\ Shape(bodies, segs, cur) /\ Stacked(bodies, code) /\ bodies \in Seq(Body)
      /\ Places(bodies, segs, cur) /\ segs \in Seq(Seq(Instr))
  BY DEF Fresh, Ready, Writes, WriteInv, Stack, Shape, Lists
<1>2. bodies[k].at \in 1 .. Len(code) /\ code[bodies[k].at].op \in Loops
  BY <1>1 DEF Stacked
<1>3. Leading(bodies, Len(segs))
  BY <1>1, ShapeOpens
<1>4. k \in DOMAIN bodies /\ k > 1
  BY <1>1
<1>5. ASSUME bodies[k].split
      PROVE  /\ bodies[k].kind = "while"
             /\ bodies[k].next \in 1 .. Len(segs) /\ bodies[k].head \in 1 .. Len(segs)
  <2>1. SplitPlaces(bodies[k], segs, cur)
    BY <1>1, <1>4, <1>5 DEF Places
  <2>2. bodies[k].kind = "while"
    BY <2>1 DEF SplitPlaces, Loops
  <2> QED  BY <1>3, <1>5, <2>2 DEF Leading
<1>6. ASSUME ~bodies[k].split
      PROVE  bodies[k].open \in DOMAIN segs[cur] /\ segs[cur][bodies[k].open].op \in AllKinds
  <2>1. PlainPlaces(bodies[k], segs, cur)
    BY <1>1, <1>4, <1>6 DEF Places
  <2> QED  BY <2>1 DEF PlainPlaces, AllKinds
<1> QED  BY <1>2, <1>5, <1>6

(* A jump.                                                                   *)
LEMMA JumpKnown ==
    ASSUME Fresh, ~Top.exited, NEW op \in Jumps, NEW k \in 2 .. Len(bodies), bodies[k].kind \in Loops,
           Top.split => bodies[k].split, ~Top.split => ~bodies[k].split,
           NEW s \in Stmt, s.op = op, s.at = bodies[k].at,
           NEW e \in Instr, e.src = Here, e.shown,
           Top.split => e.op = "goto" /\ e.to = IF op = "break" THEN bodies[k].next ELSE bodies[k].head,
           ~Top.split => e.op = op /\ e.to = bodies[k].open
    PROVE  WriteInv(WithTop([Top EXCEPT !.exited = TRUE]), code \o <<s>>, Extended(<<e>>), cur)
<1> DEFINE b == [Top EXCEPT !.exited = TRUE]
           bs == WithTop(b)
           cd == code \o <<s>>
<1>1. /\ code \in Seq(Stmt) /\ Shape(bodies, segs, cur) /\ WriteInv(bodies, code, segs, cur)
      /\ Stacked(bodies, code)
  BY DEF Fresh, Ready, Writes, WriteInv, Stack
<1>2. b.exited /\ b.split = Top.split /\ SameAts(bodies, bs) /\ bs[Len(bs)] = b
  BY TopSame
<1>3. Adds(code, cd, s)
  BY <1>1, AddsOne
<1> HIDE DEF b, bs, cd
<1>4. /\ bodies[k].at \in 1 .. Len(code) /\ code[bodies[k].at].op \in Loops
      /\ bodies[k].split => /\ bodies[k].kind = "while"
                            /\ bodies[k].next \in 1 .. Len(segs) /\ bodies[k].head \in 1 .. Len(segs)
      /\ ~bodies[k].split => /\ bodies[k].open \in DOMAIN segs[cur]
                             /\ segs[cur][bodies[k].open].op \in AllKinds
  BY LoopKnown
<1>5. FitsIn(code, Opened(bodies), s, Opened(bodies))
  <2>1. Opened(bodies) \subseteq 1 .. Len(code)
    BY <1>1 DEF Opened, Stacked
  <2>2. s.op \notin AllKinds \cup {"close", "else"}
    BY DEF AllKinds, Loops, Jumps
  <2> QED  BY <1>4, <2>1, <2>2 DEF FitsIn
<1>6. op \in {"break", "continue"}
      /\ op \notin AllKinds \cup {"block", "close", "take", "else", "goto", "branch"} \cup Calls
  BY DEF AllKinds, Loops, Jumps, Calls
<1>7. e.op \in {"goto", op}
  OBVIOUS
<1>8. Stands(cd, e)
  <2>1. e.src = Len(code) + 1
    BY DEF Here
  <2>2. /\ e.op \notin {"take"}
        /\ (e.op = s.op /\ e.op \notin {"block", "close"}) \/ (e.op = "goto" /\ s.op \in Jumps)
    BY <1>6, <1>7
  <2> QED  BY <1>3, <1>6, <1>7, <2>1, <2>2, StandsLast
<1>9. Fits(e, segs[cur], Len(segs))
  <2>1. CASE Top.split
    BY <1>4, <1>6, <2>1 DEF Fits, Transfers, Jumps, Calls
  <2>2. CASE ~Top.split
    BY <1>4, <1>6, <2>2 DEF Fits, Transfers, Jumps, Calls
  <2> QED  BY <2>1, <2>2
<1>10. cd[e.src] = s /\ e.src \in 1 .. Len(cd)
  BY <1>3, PositionsMore DEF Adds, Here
<1>11. ASSUME NEW lab, Knows(bs, cd, segs, cur, lab, Len(code) + 1)
       PROVE  Leads(cd, e, lab) /\ Back(cd, segs[cur], e)
  <2>1. Owes(bs, cd, segs[cur], lab)
    BY <1>11 DEF Knows
  <2>2. k \in 2 .. Len(bs) /\ k \in 1 .. Len(bodies)
    BY <1>2 DEF SameAts
  <2>3. OweAt(bs[k], cd, segs[cur], lab)
    BY <2>1, <2>2 DEF Owes
  <2>4. /\ bs[k].at = bodies[k].at /\ bs[k].kind = bodies[k].kind /\ bs[k].split = bodies[k].split
        /\ bs[k].open = bodies[k].open /\ bs[k].head = bodies[k].head /\ bs[k].next = bodies[k].next
    BY <1>2, <2>2 DEF SameAts
  <2>5. CASE Top.split
    <3>1. SplitOwes(bs[k], cd, lab)
      BY <2>3, <2>4, <2>5 DEF OweAt
    <3>2. lab[bodies[k].next] = Behind(s.at) /\ lab[bodies[k].head] = At(s.at)
      BY <1>4, <2>4, <2>5, <3>1 DEF SplitOwes
    <3>3. GoesTo(cd, e.src) = IF op = "break" THEN Behind(s.at) ELSE At(s.at)
      BY <1>6, <1>10 DEF GoesTo
    <3>4. Leads(cd, e, lab)
      <4>1. op \in {"break", "continue"} /\ e.op = "goto"
        BY <1>6, <2>5
      <4> QED  BY <2>5, <3>2, <3>3, <4>1 DEF Leads, Calls
    <3> QED  BY <2>5, <3>4 DEF Back, Jumps
  <2>6. CASE ~Top.split
    <3>1. segs[cur][e.to].src = cd[e.src].at
      BY <1>10, <2>3, <2>4, <2>6 DEF OweAt
    <3>2. e.op = op
      BY <2>6
    <3> QED  BY <1>6, <3>1, <3>2 DEF Leads, Back
  <2> QED  BY <2>5, <2>6
<1>12. e.op \in Terminal => bs[Len(bs)].exited /\ bs[Len(bs)].split
  <2>1. ~Top.split => e.op \notin Terminal
    BY <1>6 DEF Terminal, Transfers
  <2> QED  BY <1>2, <2>1
<1>13. ~bodies[Len(bodies)].exited
  BY <1>1, TopIs
<1>14. e.op \notin AllKinds /\ s.op # "else" /\ e.src = Len(code) + 1
  BY <1>6, <1>7 DEF AllKinds, Loops, Here
<1>15. WriteInv(bs, cd, Extended(<<e>>), cur)
  BY <1>1, <1>2, <1>3, <1>5, <1>8, <1>9, <1>11, <1>12, <1>13, <1>14, StatementKnown, ExtendedGrows
<1> QED  BY <1>15 DEF bs, b, cd

LEMMA BreakOrContinueKnown ==
    ASSUME Fresh, BreakOrContinue, phase' = "body" PROVE Writes'
<1>1. Shape(bodies, segs, cur) /\ code \in Seq(Stmt) /\ LoopBodies # {}
  BY DEF Fresh, Ready, BreakOrContinue
<1>2. PICK k \in DOMAIN bodies : Innermost = bodies[k] /\ k > 1 /\ bodies[k].kind \in Loops
  BY <1>1, InnermostIs
<1>3. k \in 2 .. Len(bodies) /\ bodies \in Seq(Body)
  BY <1>1, <1>2, TopIs
<1> DEFINE e(op) == Visible(IF Top.split THEN I("goto", "", Target(op)) ELSE I(op, "", Innermost.open))
           s(op) == S(op, "", Innermost.at)
<1>4. PICK op \in Jumps :
        /\ ~Top.exited /\ ~(Innermost.split /\ ~Top.split)
        /\ bodies' = WithTop([Top EXCEPT !.exited = TRUE]) /\ code' = code \o <<s(op)>>
        /\ segs' = Extended(<<e(op)>>) /\ cur' = cur
  BY DEF BreakOrContinue, Writing, Write
<1>5. Top.split => bodies[k].split
  <2>1. bodies # <<>> /\ Nested(bodies) /\ Top = bodies[Len(bodies)]
    BY <1>1, TopIs DEF Shape, Lists
  <2> QED  BY <1>3, <2>1, AllSplit
<1>6. Innermost \in Body
  BY <1>2, <1>3
<1>7. s(op) \in Stmt /\ s(op).op = op /\ s(op).at = bodies[k].at
  BY <1>2, <1>4, <1>6 DEF S, Stmt, Body
<1>8. /\ Target(op) = IF op = "break" THEN bodies[k].next ELSE bodies[k].head
      /\ Target(op) \in Nat /\ Innermost.open = bodies[k].open /\ Innermost.open \in Nat
  BY <1>2, <1>6 DEF Target, Body
<1>9. /\ I("goto", "", Target(op)) \in Instr /\ I("goto", "", Target(op)).op = "goto"
      /\ I("goto", "", Target(op)).src = Here /\ I("goto", "", Target(op)).to = Target(op)
  BY <1>1, <1>8, HereIs DEF I, Instr
<1>10. /\ I(op, "", Innermost.open) \in Instr /\ I(op, "", Innermost.open).op = op
       /\ I(op, "", Innermost.open).src = Here /\ I(op, "", Innermost.open).to = Innermost.open
  BY <1>1, <1>4, <1>8, HereIs DEF I, Instr
<1>11. /\ e(op) \in Instr /\ e(op).src = Here /\ e(op).shown
       /\ Top.split => e(op).op = "goto" /\ e(op).to = Target(op)
       /\ ~Top.split => e(op).op = op /\ e(op).to = bodies[k].open
  <2>1. CASE Top.split
    <3>1. e(op) = Visible(I("goto", "", Target(op)))
      BY <2>1
    <3> HIDE DEF e
    <3> QED  BY <1>9, <2>1, <3>1, VisibleKeeps
  <2>2. CASE ~Top.split
    <3>1. e(op) = Visible(I(op, "", Innermost.open))
      BY <2>2
    <3> HIDE DEF e
    <3> QED  BY <1>8, <1>10, <2>2, <3>1, VisibleKeeps
  <2> QED  BY <2>1, <2>2
<1> HIDE DEF e, s
<1>12. WriteInv(WithTop([Top EXCEPT !.exited = TRUE]), code \o <<s(op)>>, Extended(<<e(op)>>), cur)
  <2>1. ~Top.split => ~bodies[k].split
    BY <1>2, <1>4
  <2>2. Top.split => e(op).op = "goto" /\ e(op).to = IF op = "break" THEN bodies[k].next ELSE bodies[k].head
    BY <1>8, <1>11
  <2> QED  BY <1>2, <1>3, <1>4, <1>5, <1>7, <1>11, <2>1, <2>2, JumpKnown
<1> QED  BY <1>4, <1>12 DEF Writes

-----------------------------------------------------------------------------
(* Bodies that are copied: emitPlainInner and plainList.                     *)

(* What the code and the bodies say of the next position.                    *)
LEMMA NoElseHere ==
    ASSUME NEW cd, NEW cd2, NEW s, Adds(cd, cd2, s), NEW open, Nests(cd, open), s.op # "else"
    PROVE  ~HasElse(cd2, Len(cd) + 1)
<1>1. Len(cd) \in Nat
  BY PositionsMore
<1>2. ~HasElse(cd, Len(cd) + 1)
  <2> SUFFICES ASSUME NEW e \in 1 .. Len(cd), cd[e].op = "else" PROVE cd[e].at # Len(cd) + 1
    BY DEF HasElse, Turns
  <2>1. cd[e].at \in 1 .. e - 1
    BY DEF Nests, ElsesMatch
  <2> QED  BY <1>1, <2>1
<1> QED  BY <1>2, HasElseMore

(* A body that is copied opens in the current segment,                       *)
LEMMA OpenPlainKnown ==
    ASSUME Fresh, OpenPlain PROVE Writes'
<1> DEFINE i(kind) == IF kind = "block" THEN I(kind, "", 0) ELSE Visible(I(kind, "", 0))
           b(kind) == [NewBody(kind) EXCEPT !.open = Len(segs[cur]) + 1]
           s(kind) == S(kind, "", 0)
<1>1. PICK kind \in AllKinds :
        /\ ~Top.exited /\ bodies' = Append(bodies, b(kind)) /\ code' = code \o <<s(kind)>>
        /\ segs' = Extended(<<i(kind)>>) /\ cur' = cur
  <2>1. PICK kind \in Kinds : Writing /\ Open(b(kind), Extended(<<i(kind)>>), cur)
    BY DEF OpenPlain
  <2>2. b(kind).kind = kind
    BY DEF NewBody
  <2>3. kind \in AllKinds
    BY <2>1, CoopAssumption
  <2> QED  BY <2>1, <2>2, <2>3 DEF Open, Write, Writing
<1>2. /\ code \in Seq(Stmt) /\ Shape(bodies, segs, cur) /\ WriteInv(bodies, code, segs, cur)
      /\ bodies \in Seq(Body) /\ bodies # <<>> /\ Stack(bodies, code)
  BY DEF Fresh, Ready, Writes, WriteInv, Shape, Lists
<1>3. s(kind) \in Stmt /\ s(kind).op = kind
  BY <1>1 DEF S, Stmt
<1>4. /\ i(kind) \in Instr /\ i(kind).op = kind /\ i(kind).src = Len(code) + 1
      /\ i(kind).shown <=> kind # "block"
  <2>1. /\ I(kind, "", 0) \in Instr /\ I(kind, "", 0).op = kind /\ I(kind, "", 0).src = Here
        /\ ~I(kind, "", 0).shown
    BY <1>1, <1>2, HereIs DEF I, Instr
  <2>2. CASE kind = "block"
    <3>1. i(kind) = I(kind, "", 0)
      BY <2>2
    <3> QED  BY <2>1, <2>2, <3>1 DEF Here
  <2>3. CASE kind # "block"
    <3>1. i(kind) = Visible(I(kind, "", 0))
      BY <2>3
    <3> HIDE DEF i
    <3> QED  BY <2>1, <2>3, <3>1, VisibleKeeps DEF Here
  <2> QED  BY <2>2, <2>3
<1>5. segs \in Seq(Seq(Instr)) /\ cur \in 1 .. Len(segs) /\ OpensIn(bodies, segs[cur])
      /\ Len(bodies) \in Nat \ {0}
  BY <1>2, ShapeOpens
<1>6. segs[cur] \in Seq(Instr) /\ Len(segs[cur]) \in Nat /\ Len(code) \in Nat
  BY <1>2, <1>5
<1>7. /\ b(kind) \in Body /\ b(kind).kind = kind /\ ~b(kind).split /\ b(kind).at = Len(code) + 1
      /\ b(kind).open = Len(segs[cur]) + 1
  <2>1. Here \in Nat /\ Here = Len(code) + 1 /\ Len(segs[cur]) + 1 \in Nat
    BY <1>6 DEF Here
  <2>2. /\ NewBody(kind) \in Body /\ NewBody(kind).kind = kind /\ ~NewBody(kind).split
        /\ NewBody(kind).at = Here
    BY <1>1, <2>1 DEF NewBody, Body
  <2> QED  BY <2>1, <2>2 DEF Body
<1> DEFINE cd == code \o <<s(kind)>>
           bs == Append(bodies, b(kind))
           sg == Grown(segs, cur, <<i(kind)>>)
<1> HIDE DEF i, b, s
<1>8. Adds(code, cd, s(kind))
  BY <1>2, <1>3, AddsOne
<1>9. Gains(segs, sg, cur, i(kind)) /\ sg[cur] = segs[cur] \o <<i(kind)>>
  BY <1>4, <1>5, GrownGains
<1>10. segs' = sg
  BY <1>1, ExtendedGrows
<1>11. /\ Len(bs) = Len(bodies) + 1 /\ bs[Len(bodies) + 1] = b(kind)
  BY <1>2, <1>7, PushIs
<1>12. code' = cd /\ bodies' = bs
  BY <1>1
<1> HIDE DEF cd, sg, bs
<1>13. Stack(bs, cd)
  BY <1>1, <1>2, <1>3, <1>7, <1>8, PushStack DEF bs
<1>14. PICK lab : Knows(bodies, code, segs, cur, lab, Len(code) + 1)
  BY <1>2 DEF WriteInv
<1>15. kind \notin {"else", "close", "take", "branch", "goto", "finish", "return"} \cup Calls \cup Jumps \cup Terminal
  BY <1>1 DEF AllKinds, Loops, Calls, Jumps, Terminal, Transfers
<1>16. Nests(code, Opened(bodies)) /\ Nests(cd, Opened(bs))
  BY <1>2, <1>13 DEF Stack
<1>17. Knows(bodies, cd, segs, cur, lab, Len(code) + 1)
  <2>1. s(kind).op # "else"
    BY <1>3, <1>15
  <2> QED  BY <1>5, <1>8, <1>14, <1>16, <2>1, SameAtsSelf, KnowsOne
<1>18. /\ Midway(cd, segs, lab) /\ lab[1] = At(1) /\ Past(cd, segs)
       /\ Ahead(cd, segs[cur], lab[cur], Len(code) + 1) /\ Plains(bodies, cd, segs)
       /\ Owes(bodies, cd, segs[cur], lab)
  BY <1>17 DEF Knows
<1>19. Len(cd) = Len(code) + 1 /\ cd[Len(code) + 1] = s(kind) /\ Len(code) + 1 \in 1 .. Len(cd)
  BY <1>8, PositionsMore DEF Adds
<1>20. Stands(cd, i(kind))
  <2>1. CASE kind = "block"
    <3>1. /\ i(kind).op = "block" /\ ~i(kind).shown /\ i(kind).src \in 1 .. Len(cd) + 1
          /\ i(kind).src # Len(cd) + 1 /\ cd[i(kind).src].op = "block"
      BY <1>3, <1>4, <1>6, <1>19, <2>1
    <3> QED  BY <3>1 DEF Stands, Calls, Jumps, AllKinds
  <2>2. CASE kind # "block"
    <3>1. i(kind).op = s(kind).op /\ i(kind).op \notin {"block", "close", "take"} /\ i(kind).shown
      BY <1>3, <1>4, <1>15, <2>2
    <3> QED  BY <1>4, <1>8, <3>1, StandsLast
  <2> QED  BY <2>1, <2>2
<1>21. Suits(cd, segs, cur, i(kind), lab)
  <2>1. Leads(cd, i(kind), lab)
    BY <1>4, <1>15 DEF Leads
  <2>2. Fits(i(kind), segs[cur], Len(segs))
    BY <1>4, <1>15, FitsAnywhere
  <2>3. i(kind).op \notin {"close"} \cup Jumps
    BY <1>4, <1>15
  <2> QED  BY <1>4, <1>20, <2>1, <2>2, <2>3 DEF Suits
<1>22. ~Ended(segs[cur])
  <2>1. ~bodies[Len(bodies)].exited
    BY <1>1, <1>2, TopIs
  <2> QED  BY <1>2, <2>1 DEF WriteInv, ExitKnown
<1>23. Midway(cd, sg, lab)
  BY <1>4, <1>9, <1>18, <1>21, <1>22, Gained
<1>24. Past(cd, sg)
  BY <1>4, <1>5, <1>6, <1>9, <1>18, <1>19, GainedPast
<1>25. Plains(bs, cd, sg)
  <2>1. Plains(bs, cd, segs)
    BY <1>2, <1>7, <1>18, PlainAtPush DEF Plains, bs
  <2>2. PlainAt(bs, cd, i(kind).src)
    <3>1. ~HasElse(cd, Len(code) + 1)
      BY <1>3, <1>8, <1>15, <1>16, NoElseHere
    <3>2. Len(bodies) + 1 \in 1 .. Len(bs)
      BY <1>5, <1>11
    <3> QED  BY <1>4, <1>7, <1>11, <3>1, <3>2 DEF PlainAt
  <2> QED  BY <1>4, <1>5, <1>9, <2>1, <2>2, PlainsGain
<1>26. /\ Len(sg[cur]) = Len(segs[cur]) + 1 /\ sg[cur][Len(segs[cur]) + 1] = i(kind)
       /\ \A j \in 1 .. Len(segs[cur]) : sg[cur][j] = segs[cur][j]
  BY <1>4, <1>5, <1>9, SegmentGains
<1>27. Owes(bs, cd, sg[cur], lab)
  <2>1. Owes(bodies, cd, sg[cur], lab)
    BY <1>5, <1>18, <1>26, OwesGain
  <2>2. OweAt(b(kind), cd, sg[cur], lab)
    BY <1>4, <1>7, <1>26 DEF OweAt
  <2> QED  BY <1>2, <1>7, <2>1, <2>2, OwesPush DEF bs
<1>28. Ahead(cd, sg[cur], lab[cur], Len(cd) + 1)
  <2>1. Width(i(kind)) = 1 /\ i(kind).src + 1 = Len(cd) + 1 /\ Len(cd) + 1 \in Nat /\ 1 <= Len(cd) + 1
    BY <1>4, <1>6, <1>19 DEF Width
  <2>2. Skips(cd, i(kind).src + Width(i(kind)), Len(cd) + 1)
    BY <2>1, SkipsHere
  <2> QED  BY <1>4, <1>6, <1>9, <2>2, AheadOne
<1>29. cur \in 1 .. Len(sg)
  BY <1>5, <1>9 DEF Gains
<1>30. Knows(bs, cd, sg, cur, lab, Len(cd) + 1)
  BY <1>18, <1>23, <1>24, <1>25, <1>27, <1>28, <1>29 DEF Knows
<1>31. ExitKnown(bs, sg[cur])
  BY <1>4, <1>6, <1>9, <1>15, LastOfOne DEF ExitKnown
<1> QED  BY <1>1, <1>10, <1>12, <1>13, <1>30, <1>31 DEF Writes, WriteInv

(* and closes in it.                                                         *)
LEMMA ClosePlainKnown ==
    ASSUME Fresh, ClosePlain PROVE Writes'
<1> DEFINE e == I("close", "", Top.open)
           s == S("close", "", Top.at)
           cd == Append(code, s)
           bs == Front(bodies)
           sg == Grown(segs, cur, <<e>>)
<1>1. /\ code \in Seq(Stmt) /\ Shape(bodies, segs, cur) /\ WriteInv(bodies, code, segs, cur)
      /\ bodies \in Seq(Body) /\ bodies # <<>> /\ Stack(bodies, code) /\ Nested(bodies)
      /\ Places(bodies, segs, cur)
  BY DEF Fresh, Ready, Writes, WriteInv, Shape, Lists
<1>2. /\ Len(bodies) > 1 /\ ~Top.split /\ bodies' = bs /\ code' = cd /\ segs' = sg /\ cur' = cur
  BY ExtendedGrows DEF ClosePlain
<1>3. Top = bodies[Len(bodies)] /\ Top = Last(bodies) /\ Top \in Body /\ Len(bodies) \in DOMAIN bodies
  BY <1>1, TopIs
<1>4. segs \in Seq(Seq(Instr)) /\ cur \in 1 .. Len(segs) /\ OpensIn(bodies, segs[cur])
      /\ Len(bodies) \in Nat \ {0}
  BY <1>1, ShapeOpens
<1>5. segs[cur] \in Seq(Instr) /\ Len(code) \in Nat
  BY <1>1, <1>4
<1>6. s \in Stmt /\ s.op = "close" /\ s.at = Top.at
  BY <1>3 DEF S, Stmt, Body
<1>7. /\ e \in Instr /\ e.op = "close" /\ e.src = Len(code) + 1 /\ e.to = Top.open /\ ~e.shown
  BY <1>1, <1>3, HereIs DEF I, Instr, Body, Here
<1> HIDE DEF e, s
<1>8. Adds(code, cd, s)
  BY <1>1, <1>6, AddsOne
<1>9. Gains(segs, sg, cur, e) /\ sg[cur] = segs[cur] \o <<e>>
  BY <1>4, <1>7, GrownGains
<1> HIDE DEF cd, sg, bs
<1>10. Top.kind \in AllKinds
  BY <1>1, <1>2, <1>3 DEF Nested
<1>11. Stack(bs, cd)
  BY <1>1, <1>2, <1>3, <1>6, <1>8, <1>10, PopStack DEF bs
<1>12. PICK lab : Knows(bodies, code, segs, cur, lab, Len(code) + 1)
  BY <1>1 DEF WriteInv
<1>13. Nests(code, Opened(bodies)) /\ Nests(cd, Opened(bs))
  BY <1>1, <1>11 DEF Stack
<1>14. Knows(bodies, cd, segs, cur, lab, Len(code) + 1)
  <2>1. s.op # "else"
    BY <1>6
  <2> QED  BY <1>4, <1>8, <1>12, <1>13, <2>1, SameAtsSelf, KnowsOne
<1>15. Len(cd) = Len(code) + 1 /\ cd[Len(code) + 1] = s /\ Len(code) + 1 \in 1 .. Len(cd)
  BY <1>8, PositionsMore DEF Adds
<1>16. Stands(cd, e)
  <2>1. /\ e.src \in 1 .. Len(cd) + 1 /\ e.src # Len(cd) + 1 /\ cd[e.src].op = "close"
    BY <1>5, <1>6, <1>7, <1>15
  <2> QED  BY <1>7, <2>1 DEF Stands, Calls, Jumps, AllKinds, Loops
<1>17. Suits(cd, segs, cur, e, lab)
  <2>1. Leads(cd, e, lab)
    BY <1>7 DEF Leads, Calls
  <2>2. PlainPlaces(Top, segs, cur)
    BY <1>1, <1>2, <1>3 DEF Places
  <2>3. Fits(e, segs[cur], Len(segs))
    BY <1>7, <1>10, <2>2 DEF Fits, PlainPlaces, Transfers, Calls
  <2>4. Len(bodies) \in 2 .. Len(bodies) /\ Owes(bodies, cd, segs[cur], lab)
    BY <1>2, <1>4, <1>14 DEF Knows
  <2>5. OweAt(Top, cd, segs[cur], lab)
    BY <1>3, <2>4 DEF Owes
  <2>6. segs[cur][e.to].src = cd[e.src].at
    BY <1>2, <1>6, <1>7, <1>15, <2>5 DEF OweAt
  <2> QED  BY <1>7, <1>16, <2>1, <2>3, <2>6 DEF Suits
<1>18. ~Ended(segs[cur])
  BY <1>1, <1>2, <1>3 DEF WriteInv, ExitKnown
<1>19. Skips(cd, e.src + Width(e), Len(cd) + 1)
  <2>1. Width(e) = 1 /\ e.src + 1 = Len(cd) + 1 /\ Len(cd) + 1 \in Nat /\ 1 <= Len(cd) + 1
    BY <1>5, <1>7, <1>15 DEF Width
  <2> QED  BY <2>1, SkipsHere
<1>20. Knows(bodies, cd, sg, cur, lab, Len(cd) + 1)
  <2>1. e.op \notin AllKinds /\ e.src <= Len(cd)
    BY <1>5, <1>7, <1>15 DEF AllKinds, Loops
  <2>2. Knows(bodies, cd, segs, cur, lab, e.src)
    BY <1>7, <1>14
  <2> QED  BY <1>4, <1>9, <1>17, <1>18, <1>19, <2>1, <2>2, KnowsGain
<1>21. HasClose(cd, Top.at)
  BY <1>6, <1>15 DEF HasClose, Shuts
<1>22. Knows(bs, cd, sg, cur, lab, Len(cd) + 1)
  BY <1>1, <1>2, <1>3, <1>20, <1>21, KnowsPop DEF bs
<1>23. ExitKnown(bs, sg[cur])
  <2>1. e.op \notin Terminal
    BY <1>7 DEF Terminal, Transfers, Calls
  <2> QED  BY <1>5, <1>7, <1>9, <2>1, LastOfOne DEF ExitKnown
<1> QED  BY <1>2, <1>11, <1>22, <1>23 DEF Writes, WriteInv

-----------------------------------------------------------------------------
(* A call that may block: suspendHere.                                       *)

(* Segment c goes on with t, and u is a new segment.                         *)
Forked(sg, c, t, u) == Append(Grown(sg, c, t), u)

IsForked(f, sg, c, t, u) ==
    /\ f \in Seq(Seq(Instr)) /\ Len(f) = Len(sg) + 1 /\ f[Len(sg) + 1] = u /\ f[c] = sg[c] \o t
    /\ \A k \in 1 .. Len(sg) : k # c => f[k] = sg[k]

LEMMA ForkedIs ==
    ASSUME NEW sg \in Seq(Seq(Instr)), NEW c \in 1 .. Len(sg), NEW t \in Seq(Instr), NEW u \in Seq(Instr)
    PROVE  IsForked(Forked(sg, c, t, u), sg, c, t, u)
<1> DEFINE g == Grown(sg, c, t)
<1>2. DOMAIN sg = 1 .. Len(sg) /\ Len(sg) \in Nat /\ c \in DOMAIN sg
  OBVIOUS
<1>1. /\ g \in Seq(Seq(Instr)) /\ Len(g) = Len(sg) /\ g[c] = sg[c] \o t
      /\ \A k \in DOMAIN sg : k # c => g[k] = sg[k]
  BY <1>2, GrownIs
<1> HIDE DEF g
<1> DEFINE T == Seq(Instr)
<1>3. g \in Seq(T) /\ u \in T
  BY <1>1
<1> HIDE DEF T
<1>4. /\ Append(g, u) \in Seq(T) /\ Len(Append(g, u)) = Len(g) + 1 /\ Append(g, u)[Len(g) + 1] = u
      /\ \A k \in 1 .. Len(g) : Append(g, u)[k] = g[k]
  BY <1>3
<1>5. Append(g, u) \in Seq(Seq(Instr))
  BY <1>4 DEF T
<1>6. Forked(sg, c, t, u) = Append(g, u)
  BY DEF Forked, g
<1>7. Len(Append(g, u)) = Len(sg) + 1 /\ Append(g, u)[Len(sg) + 1] = u
  BY <1>1, <1>4
<1>8. Append(g, u)[c] = sg[c] \o t /\ \A k \in 1 .. Len(sg) : k # c => Append(g, u)[k] = sg[k]
  BY <1>1, <1>2, <1>4
<1> QED  BY <1>5, <1>6, <1>7, <1>8 DEF IsForked

LEMMA EmptyIs == <<>> \in Seq(Instr)
OBVIOUS

LEMMA AppendedIs ==
    ASSUME NEW s \in Seq(Instr), NEW t \in Seq(Instr), NEW e \in Instr
    PROVE  t \o <<e>> \in Seq(Instr) /\ s \o (t \o <<e>>) = (s \o t) \o <<e>> /\ s \o <<>> = s
  OBVIOUS

LEMMA ForkedAdjoins ==
    ASSUME NEW sg \in Seq(Seq(Instr)), NEW c \in 1 .. Len(sg)
    PROVE  Adjoins(sg, Forked(sg, c, <<>>, <<>>))
<1>1. sg[c] \in Seq(Instr)
  OBVIOUS
<1>2. sg[c] \o <<>> = sg[c]
  BY <1>1
<1>3. IsForked(Forked(sg, c, <<>>, <<>>), sg, c, <<>>, <<>>)
  BY EmptyIs, ForkedIs
<1>4. \A k \in 1 .. Len(sg) : Forked(sg, c, <<>>, <<>>)[k] = sg[k]
  BY <1>2, <1>3 DEF IsForked
<1> QED  BY <1>3, <1>4 DEF Adjoins, IsForked

LEMMA ForkedGains ==
    ASSUME NEW sg \in Seq(Seq(Instr)), NEW c \in 1 .. Len(sg), NEW t \in Seq(Instr), NEW u \in Seq(Instr),
           NEW e \in Instr
    PROVE  /\ Gains(Forked(sg, c, t, u), Forked(sg, c, t \o <<e>>, u), c, e)
           /\ Gains(Forked(sg, c, t, u), Forked(sg, c, t, u \o <<e>>), Len(sg) + 1, e)
<1>1. sg[c] \in Seq(Instr)
  OBVIOUS
<1>2. t \o <<e>> \in Seq(Instr) /\ u \o <<e>> \in Seq(Instr)
      /\ sg[c] \o (t \o <<e>>) = (sg[c] \o t) \o <<e>>
  BY <1>1, AppendedIs
<1> DEFINE a == Forked(sg, c, t, u)
           p == Forked(sg, c, t \o <<e>>, u)
           q == Forked(sg, c, t, u \o <<e>>)
<1>3. /\ a \in Seq(Seq(Instr)) /\ Len(a) = Len(sg) + 1 /\ a[Len(sg) + 1] = u /\ a[c] = sg[c] \o t
      /\ \A k \in 1 .. Len(sg) : k # c => a[k] = sg[k]
      /\ Len(sg) \in Nat /\ c # Len(sg) + 1
  <2>1. IsForked(a, sg, c, t, u)
    BY ForkedIs
  <2>2. Len(sg) \in Nat /\ c # Len(sg) + 1
    OBVIOUS
  <2> HIDE DEF a
  <2> QED  BY <2>1, <2>2 DEF IsForked
<1>4. /\ p \in Seq(Seq(Instr)) /\ Len(p) = Len(sg) + 1 /\ p[Len(sg) + 1] = u
      /\ p[c] = sg[c] \o (t \o <<e>>)
      /\ \A k \in 1 .. Len(sg) : k # c => p[k] = sg[k]
  <2>1. IsForked(p, sg, c, t \o <<e>>, u)
    BY <1>2, ForkedIs
  <2> HIDE DEF p
  <2> QED  BY <2>1 DEF IsForked
<1>5. /\ q \in Seq(Seq(Instr)) /\ Len(q) = Len(sg) + 1 /\ q[Len(sg) + 1] = u \o <<e>> /\ q[c] = sg[c] \o t
      /\ \A k \in 1 .. Len(sg) : k # c => q[k] = sg[k]
  <2>1. IsForked(q, sg, c, t, u \o <<e>>)
    BY <1>2, ForkedIs
  <2> HIDE DEF q
  <2> QED  BY <2>1 DEF IsForked
<1> HIDE DEF a, p, q
<1>6. \A k \in 1 .. Len(sg) + 1 : k \in 1 .. Len(sg) \/ k = Len(sg) + 1
  <2>1. \A m \in Nat : \A k \in 1 .. m + 1 : k \in 1 .. m \/ k = m + 1
    OBVIOUS
  <2>2. Len(sg) \in Nat
    OBVIOUS
  <2> QED  BY <2>1, <2>2
<1>7. c \in 1 .. Len(a) /\ Len(sg) + 1 \in 1 .. Len(a)
  BY <1>3
<1>8. \A k \in 1 .. Len(a) : (k # c => p[k] = a[k]) /\ (k # Len(sg) + 1 => q[k] = a[k])
  BY <1>3, <1>4, <1>5, <1>6
<1>9. Gains(a, p, c, e)
  BY <1>2, <1>3, <1>4, <1>7, <1>8 DEF Gains
<1>10. Gains(a, q, Len(sg) + 1, e)
  BY <1>3, <1>5, <1>7, <1>8 DEF Gains
<1> QED  BY <1>9, <1>10 DEF a, p, q

(* Where a segment can be cut, every open body is split.                     *)
SplitOnly(bs) == \A i \in 2 .. Len(bs) : bs[i].split

(* The call ends its segment, which the next one takes up.                   *)
LEMMA CallKnown ==
    ASSUME NEW bs, SplitOnly(bs), NEW cd, NEW cd1, NEW s, Adds(cd, cd1, s),
           NEW sg \in Seq(Seq(Instr)), NEW c \in 1 .. Len(sg), Leading(bs, Len(sg)), ~Ended(sg[c]),
           NEW v \in Instr, v.op \in Calls, v.op = s.op, v.shown, v.src = Len(cd) + 1, v.to = Len(sg) + 1,
           NEW b \in Instr, b.op = "new", ~b.shown, b.src = Len(cd) + 1,
           NEW t, t = <<>> \/ t = <<b>>,
           \E lab : Knows(bs, cd1, sg, c, lab, Len(cd) + 1)
    PROVE  \E lab : Knows(bs, cd1, Forked(sg, c, t \o <<v>>, <<>>), Len(sg) + 1, lab, Len(cd) + 2)
<1>1. PICK lab0 : Knows(bs, cd1, sg, c, lab0, Len(cd) + 1)
  OBVIOUS
<1>2. /\ Len(cd) \in Nat /\ Len(cd1) = Len(cd) + 1 /\ Len(cd) + 1 \in 1 .. Len(cd1)
      /\ cd1[Len(cd) + 1] = s
  BY PositionsMore DEF Adds
<1>3. At(Len(cd) + 2) \in Label
  <2>1. Len(cd) + 2 \in Nat
    BY <1>2
  <2> QED  BY <2>1, LabelIs
<1>4. PICK lab : /\ Knows(bs, cd1, Forked(sg, c, <<>>, <<>>), c, lab, Len(cd) + 1)
                 /\ lab[Len(sg) + 1] = At(Len(cd) + 2)
  BY <1>1, <1>3, ForkedAdjoins, KnowsAdjoin
<1>5. \A u : OpensIn(bs, u)
  BY DEF SplitOnly, OpensIn
<1>6. sg[c] \in Seq(Instr) /\ Len(sg) \in Nat
  OBVIOUS
<1>7. ASSUME NEW u \in Seq(Instr) PROVE /\ Forked(sg, c, u, <<>>)[c] = sg[c] \o u
                                        /\ Len(Forked(sg, c, u, <<>>)) = Len(sg) + 1
  <2>1. IsForked(Forked(sg, c, u, <<>>), sg, c, u, <<>>)
    BY EmptyIs, ForkedIs
  <2> QED  BY <2>1 DEF IsForked
<1>8. t \in Seq(Instr) /\ ~Ended(sg[c] \o t)
      /\ Knows(bs, cd1, Forked(sg, c, t, <<>>), c, lab, Len(cd) + 1)
  <2>1. CASE t = <<>>
    BY <1>4, <1>6, <2>1
  <2>2. CASE t = <<b>>
    <3>1. Gains(Forked(sg, c, <<>>, <<>>), Forked(sg, c, <<>> \o <<b>>, <<>>), c, b) /\ <<>> \o <<b>> = t
      <4>1. <<>> \o <<b>> = <<b>>
        OBVIOUS
      <4>2. Gains(Forked(sg, c, <<>>, <<>>), Forked(sg, c, <<>> \o <<b>>, <<>>), c, b)
        BY EmptyIs, ForkedGains
      <4> QED  BY <2>2, <4>1, <4>2
    <3>2. Suits(cd1, Forked(sg, c, <<>>, <<>>), c, b, lab)
      <4>1. Fits(b, Forked(sg, c, <<>>, <<>>)[c], Len(Forked(sg, c, <<>>, <<>>)))
        BY FitsAnywhere DEF Calls, Jumps
      <4>2. Stands(cd1, b)
        BY <1>2 DEF Stands, Calls, Jumps, AllKinds, Loops
      <4>3. Leads(cd1, b, lab)
        BY DEF Leads, Calls
      <4>4. b.op \notin {"close"} \cup Jumps
        BY DEF Jumps
      <4> QED  BY <4>1, <4>2, <4>3, <4>4 DEF Suits
    <3>3. Forked(sg, c, <<>>, <<>>)[c] = sg[c] /\ ~Ended(Forked(sg, c, <<>>, <<>>)[c])
      <4>1. sg[c] \o <<>> = sg[c]
        BY <1>6
      <4>2. Forked(sg, c, <<>>, <<>>)[c] = sg[c] \o <<>>
        BY <1>7, EmptyIs
      <4> QED  BY <4>1, <4>2
    <3>4. Skips(cd1, b.src + Width(b), Len(cd) + 1)
      <4>1. Width(b) = 0 /\ b.src + 0 = Len(cd) + 1 /\ 1 <= Len(cd) + 1 /\ Len(cd) + 1 \in Nat
        BY <1>2 DEF Width
      <4> QED  BY <4>1, SkipsHere
    <3>5. b.op \notin AllKinds /\ b.src <= Len(cd1)
      BY <1>2 DEF AllKinds, Loops
    <3>6. Knows(bs, cd1, Forked(sg, c, <<>>, <<>>), c, lab, b.src)
      BY <1>4
    <3>7. Knows(bs, cd1, Forked(sg, c, t, <<>>), c, lab, Len(cd) + 1)
      BY <1>5, <3>1, <3>2, <3>3, <3>4, <3>5, <3>6, KnowsGain
    <3>8. ~Ended(sg[c] \o <<b>>)
      BY <1>6, LastOfOne DEF Terminal, Transfers, Calls
    <3>9. <<b>> \in Seq(Instr)
      OBVIOUS
    <3> QED  BY <2>2, <3>7, <3>8, <3>9
  <2> QED  BY <2>1, <2>2
<1> DEFINE sg1 == Forked(sg, c, t, <<>>)
           sg2 == Forked(sg, c, t \o <<v>>, <<>>)
<1>9. Gains(sg1, sg2, c, v)
  BY <1>8, EmptyIs, ForkedGains
<1>10. sg1[c] = sg[c] \o t /\ Len(sg1) = Len(sg) + 1
  BY <1>7, <1>8
<1>11. t \o <<v>> \in Seq(Instr)
  BY <1>8
<1>12. sg2[Len(sg) + 1] = <<>> /\ Len(sg2) = Len(sg) + 1
  <2>1. IsForked(sg2, sg, c, t \o <<v>>, <<>>)
    BY <1>11, EmptyIs, ForkedIs
  <2> HIDE DEF sg2
  <2> QED  BY <2>1 DEF IsForked
<1>13. Knows(bs, cd1, sg1, c, lab, v.src)
  BY <1>8
<1> HIDE DEF sg1, sg2
<1>14. v.op \in {"wait", "recv"}
  BY DEF Calls
<1>15. Suits(cd1, sg1, c, v, lab)
  <2>1. Fits(v, sg1[c], Len(sg1))
    <3>1. v.to \in 1 .. Len(sg1)
      BY <1>6, <1>10
    <3> QED  BY <1>14, <3>1 DEF Fits, Jumps
  <2>2. Stands(cd1, v)
    BY <1>14, StandsLast
  <2>3. v.src + 1 = Len(cd) + 2
    BY <1>2
  <2>4. Leads(cd1, v, lab)
    BY <1>4, <1>14, <2>3 DEF Leads
  <2>5. v.op \notin {"close"} \cup Jumps
    BY <1>14 DEF Jumps
  <2> QED  BY <2>1, <2>2, <2>4, <2>5 DEF Suits
<1>16. v.op \in Terminal /\ v.op \notin AllKinds /\ v.src <= Len(cd1)
  BY <1>2, <1>14 DEF Terminal, Transfers, Calls, AllKinds, Loops
<1>17. Knows(bs, cd1, sg2, c, lab, Len(cd) + 2)
  BY <1>5, <1>8, <1>9, <1>10, <1>13, <1>15, <1>16, KnowsGain
<1>18. Ahead(cd1, sg2[Len(sg) + 1], lab[Len(sg) + 1], Len(cd) + 2)
  <2>1. Len(cd) + 2 \in Nat /\ 1 <= Len(cd) + 2
    BY <1>2
  <2>2. Begins(cd1, At(Len(cd) + 2), Len(cd) + 2)
    BY <2>1, LabelIs, SkipsHere DEF Begins, HasElse
  <2> QED  BY <1>4, <1>12, <2>2, EmptyAhead
<1>19. Len(sg) + 1 \in 1 .. Len(sg2)
  BY <1>6, <1>12
<1>20. Knows(bs, cd1, sg2, Len(sg) + 1, lab, Len(cd) + 2)
  BY <1>17, <1>18, <1>19, KnowsMove DEF SplitOnly
<1> QED  BY <1>20 DEF sg2

LEMMA PairIs ==
    ASSUME NEW x \in Instr, NEW y \in Instr
    PROVE  /\ <<x>> \in Seq(Instr) /\ <<x, y>> \in Seq(Instr)
           /\ <<x>> \o <<y>> = <<x, y>> /\ <<>> \o <<x>> = <<x>>
<1>1. <<x>> \in Seq(Instr) /\ <<x, y>> \in Seq(Instr) /\ <<y>> \in Seq(Instr)
  OBVIOUS
<1>2. <<>> \o <<x>> = <<x>>
  OBVIOUS
<1>3. <<x>> \o <<y>> = <<x, y>>
  <2> DEFINE u == <<x>> \o <<y>>
             w == <<x, y>>
  <2>1. u \in Seq(Instr) /\ w \in Seq(Instr) /\ Len(u) = 2 /\ Len(w) = 2
    BY <1>1
  <2>2. u[1] = x /\ u[2] = y /\ w[1] = x /\ w[2] = y
    OBVIOUS
  <2> HIDE DEF u, w
  <2>3. \A i \in 1 .. 2 : i = 1 \/ i = 2
    OBVIOUS
  <2>4. u = w
    BY <2>1, <2>2, <2>3
  <2> QED  BY <2>4 DEF u, w
<1> QED  BY <1>1, <1>2, <1>3

(* The segment behind a call takes the status and tests it.                  *)
Taking(bs, cd, sg, c, t, u, h) ==
    \E lab : Knows(bs, cd, Forked(sg, c, t, u), Len(sg) + 1, lab, h)

LEMMA TakeKnown ==
    ASSUME NEW bs, SplitOnly(bs), NEW cd \in Seq(Stmt), NEW p \in 1 .. Len(cd), p = Len(cd), cd[p].op = "use",
           NEW sg \in Seq(Seq(Instr)), NEW c \in 1 .. Len(sg), NEW t \in Seq(Instr),
           NEW a \in Instr, a.op = "take", ~a.shown, a.src = p,
           NEW e \in Instr, e.op = "use", e.shown, e.src = p,
           Taking(bs, cd, sg, c, t, <<>>, p)
    PROVE  Taking(bs, cd, sg, c, t, <<a, e>>, p + 1)
<1> DEFINE n == Len(sg) + 1
           g0 == Forked(sg, c, t, <<>>)
           g1 == Forked(sg, c, t, <<a>>)
           g2 == Forked(sg, c, t, <<a, e>>)
<1>1. PICK lab : Knows(bs, cd, g0, n, lab, p)
  BY DEF Taking
<1>2. /\ <<>> \o <<a>> = <<a>> /\ <<a>> \o <<e>> = <<a, e>> /\ <<a>> \in Seq(Instr)
      /\ <<a, e>> \in Seq(Instr)
  BY PairIs
<1>3. Gains(g0, g1, n, a)
  <2>1. Gains(Forked(sg, c, t, <<>>), Forked(sg, c, t, <<>> \o <<a>>), n, a)
    BY EmptyIs, ForkedGains
  <2> QED  BY <1>2, <2>1
<1>4. Gains(g1, g2, n, e)
  <2>1. Gains(Forked(sg, c, t, <<a>>), Forked(sg, c, t, <<a>> \o <<e>>), n, e)
    BY <1>2, ForkedGains
  <2> QED  BY <1>2, <2>1
<1>5. g0[n] = <<>> /\ g1[n] = <<a>> /\ n \in Nat
  <2>1. IsForked(g0, sg, c, t, <<>>) /\ IsForked(g1, sg, c, t, <<a>>)
    BY <1>2, EmptyIs, ForkedIs
  <2>2. n \in Nat
    OBVIOUS
  <2> HIDE DEF g0, g1
  <2> QED  BY <2>1, <2>2 DEF IsForked
<1>6. ~Ended(<<>>) /\ ~Ended(<<a>>)
  <2>1. ~Ended(<<>>)
    BY DEF Ended
  <2>2. ~Ended(<<>> \o <<a>>)
    BY EmptyIs, LastOfOne DEF Terminal, Transfers, Calls
  <2> QED  BY <1>2, <2>1, <2>2
<1> HIDE DEF g0, g1, g2, n
<1>7. \A u : OpensIn(bs, u)
  BY DEF SplitOnly, OpensIn
<1>8. p \in Nat /\ p # Len(cd) + 1 /\ p \in 1 .. Len(cd) + 1
  OBVIOUS
<1>9. Suits(cd, g0, n, a, lab) /\ Suits(cd, g1, n, e, lab)
  <2>1. Fits(a, g0[n], Len(g0)) /\ Fits(e, g1[n], Len(g1))
    BY FitsAnywhere DEF Calls, Jumps
  <2>2. Stands(cd, a)
    BY <1>8 DEF Stands, Calls, Jumps, AllKinds, Loops
  <2>3. Stands(cd, e)
    BY <1>8 DEF Stands, Calls, Jumps, AllKinds, Loops
  <2>4. Leads(cd, a, lab) /\ Leads(cd, e, lab) /\ a.op \notin {"close"} \cup Jumps
        /\ e.op \notin {"close"} \cup Jumps
    BY DEF Leads, Calls, Jumps
  <2> QED  BY <2>1, <2>2, <2>3, <2>4 DEF Suits
<1>10. a.op \notin AllKinds /\ e.op \notin AllKinds /\ p <= Len(cd)
  BY <1>8 DEF AllKinds, Loops
<1>11. Knows(bs, cd, g1, n, lab, p)
  <2>1. Skips(cd, a.src + Width(a), p)
    <3>1. Width(a) = 0 /\ a.src + 0 = p
      BY <1>8 DEF Width
    <3> QED  BY <3>1, <1>8, SkipsHere
  <2> QED  BY <1>1, <1>3, <1>5, <1>6, <1>7, <1>9, <1>10, <2>1, KnowsGain
<1>12. Knows(bs, cd, g2, n, lab, p + 1)
  <2>1. Skips(cd, e.src + Width(e), p + 1)
    BY <1>8, ShownOn
  <2> QED  BY <1>4, <1>5, <1>6, <1>7, <1>9, <1>10, <1>11, <2>1, KnowsGain
<1> QED  BY <1>12 DEF Taking, g2, n

(* The call, the segment behind it and what that begins with.                *)
LEMMA SuspendKnown ==
    ASSUME Fresh, Suspend PROVE Writes'
<1> DEFINE n == Len(segs) + 1
           a == Later(I("take", "rc", 0))
           e == Later(Visible(I("use", "rc", 0)))
           c0 == I("new", "closed", 0)
           b(call) == [Top EXCEPT !.binds = @ \/ call = "recv"]
           v(call) == Visible(I(call, "rc", n))
           bind(call) == IF call = "recv" THEN <<c0>> ELSE <<>>
           s1(call) == S(call, "rc", 0)
           s2 == S("use", "rc", 0)
<1>1. PICK call \in Calls :
        /\ ~Top.exited /\ Top.split
        /\ bodies' = WithTop(b(call)) /\ code' = code \o <<s1(call), s2>>
        /\ segs' = Append(Extended(bind(call) \o <<v(call)>>), <<a, e>>) /\ cur' = n
  BY DEF Suspend, Writing, Write
<1>2. /\ code \in Seq(Stmt) /\ Shape(bodies, segs, cur) /\ WriteInv(bodies, code, segs, cur)
      /\ bodies \in Seq(Body) /\ bodies # <<>> /\ Stack(bodies, code) /\ Nested(bodies)
  BY DEF Fresh, Ready, Writes, WriteInv, Shape, Lists
<1>3. Top = bodies[Len(bodies)] /\ Top = Last(bodies) /\ Top \in Body /\ Len(bodies) \in DOMAIN bodies
  BY <1>2, TopIs
<1>4. segs \in Seq(Seq(Instr)) /\ cur \in 1 .. Len(segs) /\ Leading(bodies, Len(segs))
      /\ Len(bodies) \in Nat \ {0}
  BY <1>2, ShapeOpens
<1>5. Len(code) \in Nat /\ Here = Len(code) + 1 /\ Here + 1 \in Nat /\ n \in Nat
  BY <1>2, <1>4 DEF Here
<1>6. s1(call) \in Stmt /\ s1(call).op = call
  BY <1>1 DEF S, Stmt, Names
<1>7. s2 \in Stmt /\ s2.op = "use"
  BY DEF S, Stmt, Names
<1>8. c0 \in Instr /\ c0.op = "new" /\ ~c0.shown /\ c0.src = Len(code) + 1
  BY <1>5 DEF I, Instr, Names
<1>9. v(call) \in Instr /\ v(call).op = call /\ v(call).shown /\ v(call).src = Len(code) + 1
      /\ v(call).to = n
  <2> DEFINE i == I(call, "rc", n)
  <2>1. i \in Instr /\ i.op = call /\ i.src = Len(code) + 1 /\ i.to = n
    BY <1>1, <1>5 DEF I, Instr, Names
  <2>2. v(call) = Visible(i)
    OBVIOUS
  <2> HIDE DEF i, v
  <2> QED  BY <2>1, <2>2, VisibleKeeps
<1>10. a \in Instr /\ a.op = "take" /\ ~a.shown /\ a.src = Len(code) + 2
  <2> DEFINE i == I("take", "rc", 0)
  <2>1. i \in Instr /\ i.op = "take" /\ i.src = Len(code) + 1 /\ ~i.shown
    BY <1>5 DEF I, Instr, Names
  <2>2. a = Later(i)
    OBVIOUS
  <2>3. Len(code) + 1 + 1 = Len(code) + 2 /\ Len(code) + 2 \in Nat
    BY <1>5
  <2> HIDE DEF i, a
  <2> QED  BY <2>1, <2>2, <2>3 DEF Later, Instr
<1>11. e \in Instr /\ e.op = "use" /\ e.shown /\ e.src = Len(code) + 2
  <2> DEFINE i == I("use", "rc", 0)
             j == Visible(i)
  <2>1. i \in Instr /\ i.op = "use" /\ i.src = Len(code) + 1
    BY <1>5 DEF I, Instr, Names
  <2>2. e = Later(j)
    OBVIOUS
  <2> HIDE DEF i, e
  <2>3. j \in Instr /\ j.op = "use" /\ j.src = Len(code) + 1 /\ j.shown
    BY <2>1, VisibleKeeps
  <2>4. Len(code) + 1 + 1 = Len(code) + 2 /\ Len(code) + 2 \in Nat
    BY <1>5
  <2> HIDE DEF j
  <2> QED  BY <2>2, <2>3, <2>4 DEF Later, Instr
<1>12. bind(call) = <<>> \/ bind(call) = <<c0>>
  OBVIOUS
<1>13. /\ b(call) \in Body /\ b(call).kind = Top.kind /\ b(call).split = Top.split /\ b(call).at = Top.at
       /\ b(call).open = Top.open /\ b(call).head = Top.head /\ b(call).alt = Top.alt
       /\ b(call).next = Top.next /\ b(call).exited = Top.exited
  BY <1>3 DEF Body
<1> DEFINE bs == WithTop(b(call))
           t == bind(call)
           cd1 == code \o <<s1(call)>>
           cd2 == cd1 \o <<s2>>
<1> HIDE DEF a, e, c0, b, v, bind, s1, s2
<1>14. SameAts(bodies, bs) /\ bs[Len(bs)] = b(call)
  BY <1>2, <1>3, <1>13, SameAtsTop DEF WithTop
<1>15. cd1 \in Seq(Stmt) /\ Adds(code, cd1, s1(call))
  <2>1. cd1 \in Seq(Stmt)
    BY <1>2, <1>6
  <2> QED  BY <1>2, <1>6, <2>1, AddsOne
<1>16. cd2 \in Seq(Stmt) /\ Adds(cd1, cd2, s2)
  <2> HIDE DEF cd1
  <2>1. cd2 \in Seq(Stmt)
    BY <1>7, <1>15
  <2>2. Adds(cd1, cd2, s2)
    BY <1>7, <1>15, <2>1 DEF Adds
  <2> QED  BY <2>1, <2>2
<1>17. code' = cd2 /\ bodies' = bs
  <2>1. code \o <<s1(call), s2>> = (code \o <<s1(call)>>) \o <<s2>>
    BY <1>2, <1>6, <1>7
  <2> QED  BY <1>1, <2>1
<1>18. segs' = Forked(segs, cur, t \o <<v(call)>>, <<a, e>>)
  BY <1>1, ExtendedGrows DEF Forked
<1> HIDE DEF bs, t, cd1, cd2
<1>19. Stacked(bodies, code) /\ Nests(code, Opened(bodies))
  BY <1>2 DEF Stack
<1>20. Stacked(bs, cd1) /\ Opened(bs) = Opened(bodies)
  BY <1>4, <1>14, <1>15, <1>19, SameStack
<1>21. call \notin AllKinds \cup {"close", "else"} \cup Jumps
       /\ "use" \notin AllKinds \cup {"close", "else"} \cup Jumps
  BY <1>1 DEF AllKinds, Loops, Jumps, Calls
<1>22. Nests(cd1, Opened(bs))
  <2>1. FitsIn(code, Opened(bodies), s1(call), Opened(bodies))
    BY <1>6, <1>19, <1>21, FitsPlainly
  <2> QED  BY <1>15, <1>19, <1>20, <2>1, NestsMore
<1>23. Nests(cd2, Opened(bs))
  <2>1. FitsIn(cd1, Opened(bs), s2, Opened(bs))
    BY <1>7, <1>20, <1>21, FitsPlainly
  <2> QED  BY <1>16, <1>22, <2>1, NestsMore
<1>24. Len(bs) \in Nat \ {0} /\ Len(bs) = Len(bodies)
  BY <1>4, <1>14 DEF SameAts
<1>25. Stacked(bs, cd2)
  BY <1>16, <1>20, <1>24, SameAtsSelf, SameStack
<1>26. SplitOnly(bs)
  <2>1. \A i \in DOMAIN bodies : bodies[i].split
    BY <1>1, <1>2, <1>3, AllSplit
  <2>2. \A i \in 2 .. Len(bs) : i \in DOMAIN bodies /\ i \in 1 .. Len(bodies)
    BY <1>2, <1>24
  <2> QED  BY <1>14, <2>1, <2>2 DEF SplitOnly, SameAts
<1>27. Leading(bs, Len(segs))
  <2>1. OpensIn(bodies, <<>>)
    <3>1. \A i \in DOMAIN bodies : bodies[i].split
      BY <1>1, <1>2, <1>3, AllSplit
    <3>2. \A i \in 2 .. Len(bodies) : i \in DOMAIN bodies
      BY <1>2
    <3> QED  BY <3>1, <3>2 DEF OpensIn
  <2> QED  BY <1>4, <1>14, <2>1, SameOpens
<1>28. ~Ended(segs[cur])
  BY <1>1, <1>2, <1>3 DEF WriteInv, ExitKnown
<1>29. \E lab : Knows(bs, cd1, segs, cur, lab, Len(code) + 1)
  <2>1. PICK lab : Knows(bodies, code, segs, cur, lab, Len(code) + 1)
    BY <1>2 DEF WriteInv
  <2>2. s1(call).op # "else"
    BY <1>6, <1>21
  <2>3. Knows(bs, cd1, segs, cur, lab, Len(code) + 1)
    BY <1>4, <1>14, <1>15, <1>19, <1>22, <2>1, <2>2, KnowsOne
  <2> QED  BY <2>3
<1>30. t = <<>> \/ t = <<c0>>
  BY <1>12 DEF t
<1>31. \E lab : Knows(bs, cd1, Forked(segs, cur, t \o <<v(call)>>, <<>>), n, lab, Len(code) + 2)
  <2>1. v(call).op = s1(call).op /\ v(call).op \in Calls
    BY <1>1, <1>6, <1>9
  <2> QED  BY <1>4, <1>8, <1>9, <1>15, <1>26, <1>27, <1>28, <1>29, <1>30, <2>1, CallKnown
<1>32. /\ Len(cd1) = Len(code) + 1 /\ Len(cd2) = Len(code) + 2 /\ Len(cd2) \in 1 .. Len(cd2)
       /\ cd2[Len(cd2)] = s2 /\ Len(cd1) + 1 = Len(cd2)
  BY <1>5, <1>15, <1>16 DEF Adds
<1>33. Taking(bs, cd2, segs, cur, t \o <<v(call)>>, <<>>, Len(cd2))
  <2>1. PICK lab : Knows(bs, cd1, Forked(segs, cur, t \o <<v(call)>>, <<>>), n, lab, Len(cd1) + 1)
    BY <1>31, <1>32
  <2>2. s2.op # "else" /\ Len(bs) \in Nat
    BY <1>7, <1>24
  <2>3. Knows(bs, cd2, Forked(segs, cur, t \o <<v(call)>>, <<>>), n, lab, Len(cd1) + 1)
    BY <1>16, <1>22, <1>23, <2>1, <2>2, SameAtsSelf, KnowsOne
  <2> QED  BY <1>32, <2>3 DEF Taking
<1>34. t \o <<v(call)>> \in Seq(Instr)
  <2>1. t \in Seq(Instr)
    BY <1>8, <1>30, PairIs, EmptyIs
  <2> QED  BY <1>9, <2>1, AppendedIs
<1>35. Taking(bs, cd2, segs, cur, t \o <<v(call)>>, <<a, e>>, Len(cd2) + 1)
  <2>1. cd2[Len(cd2)].op = "use"
    BY <1>7, <1>32
  <2> QED  BY <1>4, <1>10, <1>11, <1>16, <1>26, <1>32, <1>33, <1>34, <2>1, TakeKnown
<1>36. ExitKnown(bs, <<a, e>>)
  <2>1. <<a>> \in Seq(Instr) /\ <<a>> \o <<e>> = <<a, e>>
    BY <1>10, <1>11, PairIs
  <2>2. ~Ended(<<a>> \o <<e>>)
    BY <1>11, <2>1, LastOfOne DEF Terminal, Transfers, Calls
  <2> QED  BY <2>1, <2>2 DEF ExitKnown
<1>37. segs'[n] = <<a, e>>
  <2>1. <<a, e>> \in Seq(Instr)
    BY <1>10, <1>11
  <2>2. IsForked(segs', segs, cur, t \o <<v(call)>>, <<a, e>>)
    BY <1>4, <1>18, <1>34, <2>1, ForkedIs
  <2> QED  BY <2>2 DEF IsForked
<1>38. \E lab : Knows(bs, cd2, segs', n, lab, Len(cd2) + 1)
  BY <1>18, <1>35 DEF Taking
<1>39. Stack(bs, cd2)
  BY <1>23, <1>25 DEF Stack
<1> HIDE DEF n
<1> QED  BY <1>1, <1>17, <1>36, <1>37, <1>38, <1>39 DEF Writes, WriteInv

-----------------------------------------------------------------------------
(* Bodies that are split: the openings in emitIf and emitWhile.              *)

(* Segment c goes on with t, and x and two empty segments are added.         *)
IsThree(g, sg, c, t, x) ==
    /\ g \in Seq(Seq(Instr)) /\ Len(g) = Len(sg) + 3 /\ g[c] = sg[c] \o t
    /\ g[Len(sg) + 1] = x /\ g[Len(sg) + 2] = <<>> /\ g[Len(sg) + 3] = <<>>
    /\ \A k \in 1 .. Len(sg) : k # c => g[k] = sg[k]

LEMMA ThreeIs ==
    ASSUME NEW sg \in Seq(Seq(Instr)), NEW c \in 1 .. Len(sg), NEW t \in Seq(Instr), NEW x \in Seq(Instr)
    PROVE  IsThree(Grown(sg, c, t) \o <<x, <<>>, <<>>>>, sg, c, t, x)
<1> DEFINE g == Grown(sg, c, t)
           more == <<x, <<>>, <<>>>>
           u == g \o more
<1>1. c \in DOMAIN sg /\ DOMAIN sg = 1 .. Len(sg) /\ Len(sg) \in Nat
  OBVIOUS
<1>2. /\ g \in Seq(Seq(Instr)) /\ Len(g) = Len(sg) /\ g[c] = sg[c] \o t
      /\ \A k \in DOMAIN sg : k # c => g[k] = sg[k]
  BY <1>1, GrownIs
<1>3. /\ more \in Seq(Seq(Instr)) /\ Len(more) = 3 /\ DOMAIN more = {1, 2, 3}
      /\ more[1] = x /\ more[2] = <<>> /\ more[3] = <<>>
  BY ThreeMore
<1> HIDE DEF g, more
<1>4. \A k \in {1, 2, 3} : Len(g) + k \in DOMAIN u /\ u[Len(g) + k] = more[k]
  BY <1>2, <1>3, AddedThree
<1> DEFINE T == Seq(Instr)
<1>5. g \in Seq(T) /\ more \in Seq(T)
  BY <1>2, <1>3
<1> HIDE DEF T
<1>6. u \in Seq(T) /\ Len(u) = Len(g) + Len(more) /\ \A k \in 1 .. Len(g) : u[k] = g[k]
  BY <1>5
<1>7. u \in Seq(Seq(Instr))
  BY <1>6 DEF T
<1> HIDE DEF u
<1>8. u[Len(sg) + 1] = x /\ u[Len(sg) + 2] = <<>> /\ u[Len(sg) + 3] = <<>>
  BY <1>2, <1>3, <1>4
<1>9. Len(u) = Len(sg) + 3 /\ u[c] = sg[c] \o t /\ \A k \in 1 .. Len(sg) : k # c => u[k] = sg[k]
  BY <1>1, <1>2, <1>3, <1>6
<1>10. IsThree(u, sg, c, t, x)
  BY <1>7, <1>8, <1>9 DEF IsThree
<1> QED  BY <1>10 DEF u, g, more

LEMMA AppendAdjoins ==
    ASSUME NEW sg \in Seq(Seq(Instr))
    PROVE  Adjoins(sg, Append(sg, <<>>)) /\ Append(sg, <<>>) \in Seq(Seq(Instr))
           /\ Append(sg, <<>>) = sg \o <<<<>>>>
<1> DEFINE T == Seq(Instr)
<1>1. <<>> \in T
  BY EmptyIs
<1> HIDE DEF T
<1>2. ASSUME NEW s \in Seq(T), NEW x \in T
      PROVE  /\ Append(s, x) \in Seq(T) /\ Len(Append(s, x)) = Len(s) + 1 /\ Append(s, x)[Len(s) + 1] = x
             /\ \A k \in 1 .. Len(s) : Append(s, x)[k] = s[k]
  OBVIOUS
<1>3. ASSUME NEW s \in Seq(T), NEW x \in T PROVE Append(s, x) = s \o <<x>>
  OBVIOUS
<1>4. sg \in Seq(T)
  BY DEF T
<1>5. Append(sg, <<>>) = sg \o <<<<>>>>
  BY <1>1, <1>3, <1>4
<1>6. /\ Append(sg, <<>>) \in Seq(T) /\ Len(Append(sg, <<>>)) = Len(sg) + 1
      /\ Append(sg, <<>>)[Len(sg) + 1] = <<>>
      /\ \A k \in 1 .. Len(sg) : Append(sg, <<>>)[k] = sg[k]
  BY <1>1, <1>2, <1>4
<1> QED  BY <1>5, <1>6 DEF Adjoins, T

LEMMA LeadingMore ==
    ASSUME NEW bs, NEW n \in Nat, NEW m \in Nat, n <= m, Leading(bs, n)
    PROVE  Leading(bs, m)
<1>1. \A k : k \in 1 .. n => k \in 1 .. m
  OBVIOUS
<1> QED  BY <1>1 DEF Leading

(* Three new segments may be given any labels.                               *)
LEMMA KnowsThree ==
    ASSUME NEW bs, NEW cd, NEW sg \in Seq(Seq(Instr)), NEW c \in 1 .. Len(sg), NEW lab, NEW h,
           Knows(bs, cd, sg, c, lab, h), Leading(bs, Len(sg)),
           NEW l1 \in Label, NEW l2 \in Label, NEW l3 \in Label,
           NEW g, IsThree(g, sg, c, <<>>, <<>>)
    PROVE  \E lab2 : /\ Knows(bs, cd, g, c, lab2, h) /\ lab2[Len(sg) + 1] = l1
                     /\ lab2[Len(sg) + 2] = l2 /\ lab2[Len(sg) + 3] = l3
<1> DEFINE a == Append(sg, <<>>)
           b == Append(a, <<>>)
           n == Len(sg)
<1>1. Adjoins(sg, a) /\ a \in Seq(Seq(Instr))
  BY AppendAdjoins
<1> HIDE DEF a
<1>2. Adjoins(a, b) /\ b \in Seq(Seq(Instr))
  BY <1>1, AppendAdjoins
<1> HIDE DEF b
<1>3. n \in Nat /\ Len(a) = n + 1 /\ Len(b) = n + 2
  <2>1. n \in Nat
    OBVIOUS
  <2> HIDE DEF n
  <2>2. Len(a) = n + 1 /\ Len(b) = Len(a) + 1
    BY <1>1, <1>2 DEF Adjoins, n
  <2> QED  BY <2>1, <2>2
<1>4. Adjoins(b, g)
  <2>1. sg[c] \o <<>> = sg[c]
    <3>1. sg[c] \in Seq(Instr)
      OBVIOUS
    <3> QED  BY <3>1
  <2>2. \A k \in 1 .. n : g[k] = sg[k]
    BY <2>1 DEF IsThree
  <2>3. \A k \in 1 .. n : k \in 1 .. n + 1 /\ b[k] = sg[k]
    BY <1>1, <1>2, <1>3 DEF Adjoins
  <2>4. b[n + 1] = <<>> /\ b[n + 2] = <<>>
    <3>1. n + 1 \in 1 .. n + 1 /\ n + 1 + 1 = n + 2
      BY <1>3
    <3>2. b[Len(a) + 1] = <<>> /\ a[n + 1] = <<>> /\ b[n + 1] = a[n + 1]
      BY <1>1, <1>2, <1>3, <3>1 DEF Adjoins
    <3> QED  BY <1>3, <3>1, <3>2
  <2>5. g \in Seq(Seq(Instr)) /\ Len(g) = n + 3 /\ g[n + 1] = <<>> /\ g[n + 2] = <<>> /\ g[n + 3] = <<>>
    BY DEF IsThree
  <2> HIDE DEF n
  <2>6. \A k \in 1 .. n + 2 : k \in 1 .. n \/ k = n + 1 \/ k = n + 2
    BY <1>3
  <2>7. \A k \in 1 .. n + 2 : g[k] = b[k]
    BY <2>2, <2>3, <2>4, <2>5, <2>6
  <2>8. Len(g) = Len(b) + 1 /\ Len(b) + 1 = n + 3
    BY <1>3, <2>5
  <2> QED  BY <1>3, <2>5, <2>7, <2>8 DEF Adjoins
<1>5. Leading(bs, Len(a)) /\ Leading(bs, Len(b))
  <2>1. n + 1 \in Nat /\ n + 2 \in Nat /\ n <= n + 1 /\ n <= n + 2
    BY <1>3
  <2> QED  BY <1>3, <2>1, LeadingMore
<1>6. PICK p : Knows(bs, cd, a, c, p, h) /\ p[n + 1] = l1
  BY <1>1, KnowsAdjoin
<1>7. PICK q : Knows(bs, cd, b, c, q, h) /\ SameLabels(p, q, Len(a)) /\ q[Len(a) + 1] = l2
  BY <1>2, <1>5, <1>6, KnowsAdjoin
<1>8. PICK r : Knows(bs, cd, g, c, r, h) /\ SameLabels(q, r, Len(b)) /\ r[Len(b) + 1] = l3
  BY <1>4, <1>5, <1>7, KnowsAdjoin
<1>9. /\ n + 1 \in 1 .. Len(a) /\ n + 1 \in 1 .. Len(b) /\ n + 2 \in 1 .. Len(b)
      /\ Len(a) + 1 = n + 2 /\ Len(b) + 1 = n + 3
  BY <1>3
<1>10. r[n + 1] = l1 /\ r[n + 2] = l2 /\ r[n + 3] = l3
  BY <1>6, <1>7, <1>8, <1>9 DEF SameLabels
<1> QED  BY <1>8, <1>10

LEMMA ThreeGains ==
    ASSUME NEW sg \in Seq(Seq(Instr)), NEW c \in 1 .. Len(sg), NEW e \in Instr, NEW f \in Instr,
           NEW g, IsThree(g, sg, c, <<>>, <<>>), NEW g1, IsThree(g1, sg, c, <<e>>, <<>>)
    PROVE  /\ Gains(g, g1, c, e) /\ g[c] = sg[c]
           /\ \A g2 : IsThree(g2, sg, c, <<e>>, <<f>>) => Gains(g1, g2, Len(sg) + 1, f)
<1> DEFINE n == Len(sg)
<1>1. sg[c] \in Seq(Instr) /\ n \in Nat /\ c \in 1 .. n
  OBVIOUS
<1>2. sg[c] \o <<>> = sg[c] /\ <<>> \o <<f>> = <<f>>
  BY <1>1, PairIs
<1> HIDE DEF n
<1>3. \A k \in 1 .. n + 3 : k \in 1 .. n \/ k = n + 1 \/ k = n + 2 \/ k = n + 3
  BY <1>1
<1>4. c \in 1 .. n + 3 /\ n + 1 \in 1 .. n + 3 /\ c # n + 1
  BY <1>1
<1>5. /\ g \in Seq(Seq(Instr)) /\ Len(g) = n + 3 /\ g[c] = sg[c]
      /\ g[n + 1] = <<>> /\ g[n + 2] = <<>> /\ g[n + 3] = <<>>
      /\ \A k \in 1 .. n : k # c => g[k] = sg[k]
  BY <1>2 DEF IsThree, n
<1>6. /\ g1 \in Seq(Seq(Instr)) /\ Len(g1) = n + 3 /\ g1[c] = sg[c] \o <<e>>
      /\ g1[n + 1] = <<>> /\ g1[n + 2] = <<>> /\ g1[n + 3] = <<>>
      /\ \A k \in 1 .. n : k # c => g1[k] = sg[k]
  BY DEF IsThree, n
<1>7. \A k \in 1 .. n + 3 : k # c => g1[k] = g[k]
  BY <1>3, <1>5, <1>6
<1>8. Gains(g, g1, c, e)
  BY <1>4, <1>5, <1>6, <1>7 DEF Gains
<1>9. ASSUME NEW g2, IsThree(g2, sg, c, <<e>>, <<f>>) PROVE Gains(g1, g2, n + 1, f)
  <2>1. /\ g2 \in Seq(Seq(Instr)) /\ Len(g2) = n + 3 /\ g2[c] = sg[c] \o <<e>>
        /\ g2[n + 1] = <<f>> /\ g2[n + 2] = <<>> /\ g2[n + 3] = <<>>
        /\ \A k \in 1 .. n : k # c => g2[k] = sg[k]
    BY <1>9 DEF IsThree, n
  <2>2. \A k \in 1 .. n + 3 : k # n + 1 => g2[k] = g1[k]
    BY <1>3, <1>6, <2>1
  <2> QED  BY <1>2, <1>4, <1>6, <2>1, <2>2 DEF Gains
<1> QED  BY <1>5, <1>8, <1>9 DEF n

(* A block is passed over.                                                   *)
LEMMA SkipsOver ==
    ASSUME NEW cd, NEW p \in Nat, NEW h \in 1 .. Len(cd), Len(cd) \in Nat, cd[h].op = "block", Skips(cd, p, h)
    PROVE  Skips(cd, p, h + 1)
<1>1. 1 <= p /\ p <= h /\ \A j \in p .. h - 1 : cd[j].op = "block"
  BY DEF Skips
<1>2. \A j \in p .. h + 1 - 1 : j \in p .. h - 1 \/ j = h
  OBVIOUS
<1>3. p <= h + 1
  BY <1>1
<1> QED  BY <1>1, <1>2, <1>3 DEF Skips

LEMMA AheadSkips ==
    ASSUME NEW cd, Len(cd) \in Nat, NEW t \in Seq(Instr), NEW l \in Label, NEW h \in 1 .. Len(cd),
           cd[h].op = "block", Ahead(cd, t, l, h)
    PROVE  Ahead(cd, t, l, h + 1)
<1>1. CASE t = <<>>
  <2>1. Begins(cd, l, h) /\ l.pos \in Nat
    BY <1>1 DEF Ahead, Label
  <2>2. CASE l.kind = "at" /\ Skips(cd, l.pos, h)
    BY <1>1, <2>1, <2>2, SkipsOver DEF Ahead, Begins, HasElse
  <2>3. ASSUME l.kind = "behind", NEW c \in 1 .. Len(cd), Shuts(cd, c, l.pos), Skips(cd, c + 1, h)
        PROVE  Ahead(cd, t, l, h + 1)
    <3>1. Skips(cd, c + 1, h + 1)
      BY <2>3, SkipsOver
    <3> QED  BY <1>1, <2>3, <3>1 DEF Ahead, Begins, HasElse
  <2>4. ASSUME l.kind = "else", NEW e \in 1 .. Len(cd), Turns(cd, e, l.pos), Skips(cd, e + 1, h)
        PROVE  Ahead(cd, t, l, h + 1)
    <3>1. Skips(cd, e + 1, h + 1)
      BY <2>4, SkipsOver
    <3> QED  BY <1>1, <2>4, <3>1 DEF Ahead, Begins, HasElse
  <2>5. ~Shuts(cd, h, l.pos)
    BY DEF Shuts
  <2> QED  BY <2>1, <2>2, <2>3, <2>4, <2>5 DEF Begins, HasElse
<1>2. CASE t # <<>>
  <2>1. t[Len(t)] \in Instr
    BY <1>2
  <2>2. t[Len(t)].src + Width(t[Len(t)]) \in Nat
    <3>1. t[Len(t)].src \in Nat
      BY <2>1 DEF Instr
    <3>2. Width(t[Len(t)]) \in Nat
      BY DEF Width
    <3> QED  BY <3>1, <3>2
  <2> QED  BY <1>2, <2>2, SkipsOver DEF Ahead
<1> QED  BY <1>1, <1>2

(* What every opening of a split body begins with.                           *)
Opening(kind, s, cd, b) ==
    /\ kind \in AllKinds /\ s \in Stmt /\ s.op = kind /\ Adds(code, cd, s)
    /\ b \in Body /\ b.kind = kind /\ b.split /\ ~b.exited /\ b.at = Len(code) + 1

(* What is known when the opening statement is written,                      *)
LEMMA OpeningKnown ==
    ASSUME Fresh, Top.split, ~Top.exited, NEW kind, NEW s, NEW cd, NEW b, Opening(kind, s, cd, b)
    PROVE  /\ Stack(Append(bodies, b), cd) /\ ~Ended(segs[cur]) /\ SplitOnly(bodies)
           /\ \E lab : Knows(bodies, cd, segs, cur, lab, Len(code) + 1)
<1>1. /\ code \in Seq(Stmt) /\ Shape(bodies, segs, cur) /\ WriteInv(bodies, code, segs, cur)
      /\ bodies \in Seq(Body) /\ bodies # <<>> /\ Stack(bodies, code) /\ Nested(bodies)
  BY DEF Fresh, Ready, Writes, WriteInv, Shape, Lists
<1>2. Top = bodies[Len(bodies)] /\ Len(bodies) \in Nat \ {0}
  BY <1>1, TopIs, ShapeOpens
<1>3. Stack(Append(bodies, b), cd)
  BY <1>1, PushStack DEF Opening
<1>4. ~Ended(segs[cur])
  BY <1>1, <1>2 DEF WriteInv, ExitKnown
<1>5. SplitOnly(bodies)
  <2>1. \A i \in DOMAIN bodies : bodies[i].split
    BY <1>1, <1>2, AllSplit
  <2>2. \A i \in 2 .. Len(bodies) : i \in DOMAIN bodies
    BY <1>1
  <2> QED  BY <2>1, <2>2 DEF SplitOnly
<1>6. \E lab : Knows(bodies, cd, segs, cur, lab, Len(code) + 1)
  <2>1. PICK lab : Knows(bodies, code, segs, cur, lab, Len(code) + 1)
    BY <1>1 DEF WriteInv
  <2>2. s.op # "else" /\ Len(bodies) \in Nat
    BY <1>2 DEF Opening, AllKinds, Loops
  <2>3. Nests(code, Opened(bodies)) /\ Nests(cd, Opened(Append(bodies, b))) /\ Adds(code, cd, s)
    BY <1>1, <1>3 DEF Stack, Opening
  <2>4. Knows(bodies, cd, segs, cur, lab, Len(code) + 1)
    BY <2>1, <2>2, <2>3, SameAtsSelf, KnowsOne
  <2> QED  BY <2>4
<1> QED  BY <1>3, <1>4, <1>5, <1>6

(* with the one segment of a block,                                          *)
LEMMA BlockKnown ==
    ASSUME Fresh, Top.split, ~Top.exited, NEW s, NEW cd, NEW b, Opening("block", s, cd, b),
           b.next = Len(segs) + 1, b.alt = 0
    PROVE  WriteInv(Append(bodies, b), cd, segs \o <<<<>>>>, cur)
<1> DEFINE g == segs \o <<<<>>>>
<1>1. /\ bodies \in Seq(Body) /\ b \in Body /\ Shape(bodies, segs, cur) /\ code \in Seq(Stmt)
  BY DEF Fresh, Ready, Shape, Lists, Opening
<1>2. segs \in Seq(Seq(Instr)) /\ cur \in 1 .. Len(segs) /\ Leading(bodies, Len(segs))
  BY <1>1, ShapeOpens
<1>3. Adjoins(segs, g)
  BY <1>2, AppendAdjoins
<1> HIDE DEF g
<1>4. /\ Stack(Append(bodies, b), cd) /\ ~Ended(segs[cur])
      /\ \E lab : Knows(bodies, cd, segs, cur, lab, Len(code) + 1)
  BY OpeningKnown
<1>5. PICK lab0 : Knows(bodies, cd, segs, cur, lab0, Len(code) + 1)
  BY <1>4
<1>6. Len(code) \in Nat /\ Len(code) + 1 \in Nat
  BY <1>1
<1>7. Behind(Len(code) + 1) \in Label
  BY <1>6, LabelIs
<1>8. PICK lab : Knows(bodies, cd, g, cur, lab, Len(code) + 1)
      /\ lab[Len(segs) + 1] = Behind(Len(code) + 1)
  BY <1>2, <1>3, <1>5, <1>7, KnowsAdjoin
<1>9. /\ Midway(cd, g, lab) /\ cur \in 1 .. Len(g) /\ Ahead(cd, g[cur], lab[cur], Len(code) + 1)
  BY <1>8 DEF Knows
<1>10. /\ Len(cd) = Len(code) + 1 /\ Len(code) + 1 \in 1 .. Len(cd) /\ cd[Len(code) + 1].op = "block"
       /\ Len(cd) \in Nat
  BY <1>6, PositionsMore DEF Opening, Adds
<1>11. Ahead(cd, g[cur], lab[cur], Len(cd) + 1)
  <2>1. g[cur] \in Seq(Instr) /\ lab[cur] \in Label
    BY <1>9, MidwayIs
  <2> QED  BY <1>9, <1>10, <2>1, AheadSkips
<1>12. Knows(bodies, cd, g, cur, lab, Len(cd) + 1)
  BY <1>8, <1>11 DEF Knows
<1>13. OweAt(b, cd, g[cur], lab)
  BY <1>8 DEF OweAt, SplitOwes, Opening
<1>14. Knows(Append(bodies, b), cd, g, cur, lab, Len(cd) + 1)
  BY <1>1, <1>12, <1>13, KnowsPush
<1>15. g[cur] = segs[cur]
  BY <1>2, <1>3 DEF Adjoins
<1>16. Append(bodies, b)[Len(Append(bodies, b))] = b
  BY <1>1
<1> QED  BY <1>4, <1>14, <1>15 DEF WriteInv, ExitKnown, g

LEMMA NotEndedEmpty ==
    ASSUME NEW bs PROVE ExitKnown(bs, <<>>)
BY DEF ExitKnown, Ended

(* A segment for statement h that is still empty.                            *)
LEMMA AtAhead ==
    ASSUME NEW cd, NEW h \in Nat, 1 <= h PROVE Ahead(cd, <<>>, At(h), h)
<1>1. Begins(cd, At(h), h)
  BY LabelIs, SkipsHere DEF Begins, HasElse
<1> QED  BY <1>1, EmptyAhead

(* with the three segments of an if,                                         *)
LEMMA IfKnown ==
    ASSUME Fresh, Top.split, ~Top.exited, NEW s, NEW cd, NEW b, Opening("if", s, cd, b),
           b.alt = Len(segs) + 2, b.next = Len(segs) + 3,
           NEW e \in Instr, e.op = "branch", e.shown, e.src = Len(code) + 1,
           e.to = Len(segs) + 1, e.other = Len(segs) + 2
    PROVE  WriteInv(Append(bodies, b), cd, Extended(<<e>>) \o <<<<>>, <<>>, <<>>>>, Len(segs) + 1)
<1> DEFINE n == Len(segs)
           p == Len(code) + 1
           g == Grown(segs, cur, <<>>) \o <<<<>>, <<>>, <<>>>>
           g1 == Grown(segs, cur, <<e>>) \o <<<<>>, <<>>, <<>>>>
<1>1. /\ bodies \in Seq(Body) /\ b \in Body /\ Shape(bodies, segs, cur) /\ code \in Seq(Stmt)
      /\ Nests(code, Opened(bodies)) /\ Adds(code, cd, s) /\ s.op = "if"
  BY DEF Fresh, Ready, Shape, Lists, Opening, Writes, WriteInv, Stack
<1>2. segs \in Seq(Seq(Instr)) /\ cur \in 1 .. n /\ Leading(bodies, n) /\ n \in Nat
  BY <1>1, ShapeOpens
<1>3. IsThree(g, segs, cur, <<>>, <<>>) /\ IsThree(g1, segs, cur, <<e>>, <<>>)
  BY <1>2, EmptyIs, PairIs, ThreeIs
<1> HIDE DEF g, g1
<1>4. /\ Stack(Append(bodies, b), cd) /\ ~Ended(segs[cur]) /\ SplitOnly(bodies)
      /\ \E lab : Knows(bodies, cd, segs, cur, lab, p)
  BY OpeningKnown
<1>5. PICK lab0 : Knows(bodies, cd, segs, cur, lab0, p)
  BY <1>4
<1>6. /\ p \in Nat /\ p + 1 \in Nat /\ 1 <= p /\ 1 <= p + 1 /\ Len(cd) = p /\ p \in 1 .. Len(cd)
      /\ cd[p] = s
      /\ Len(cd) + 1 = p + 1
  BY <1>1, PositionsMore DEF Adds
<1>7. At(p + 1) \in Label /\ Otherwise(p) \in Label /\ Behind(p) \in Label
  BY <1>6, LabelIs
<1> HIDE DEF p
<1>8. PICK lab : /\ Knows(bodies, cd, g, cur, lab, p) /\ lab[n + 1] = At(p + 1)
                 /\ lab[n + 2] = Otherwise(p) /\ lab[n + 3] = Behind(p)
  BY <1>2, <1>3, <1>5, <1>7, KnowsThree
<1>9. Gains(g, g1, cur, e) /\ g[cur] = segs[cur]
  BY <1>2, <1>3, ThreeGains
<1>10. \A u : OpensIn(bodies, u)
  BY <1>4 DEF SplitOnly, OpensIn
<1>11. Suits(cd, g, cur, e, lab)
  <2>1. e.src = p /\ e.op \notin {"close"} \cup Jumps
    BY DEF p, Jumps
  <2>2. Stands(cd, e)
    BY <1>1, StandsLast
  <2>3. Leads(cd, e, lab)
    BY <1>1, <1>6, <1>8, <2>1 DEF Leads, Calls
  <2>4. Len(g) = n + 3 /\ n + 1 \in 1 .. Len(g) /\ n + 2 \in 1 .. Len(g)
    <3>1. \A m \in Nat : m + 1 \in 1 .. m + 3 /\ m + 2 \in 1 .. m + 3
      OBVIOUS
    <3>2. Len(g) = n + 3
      BY <1>3 DEF IsThree
    <3> QED  BY <1>2, <3>1, <3>2
  <2>5. Fits(e, g[cur], Len(g))
    BY <2>1, <2>4 DEF Fits
  <2> QED  BY <2>1, <2>2, <2>3, <2>5 DEF Suits
<1>12. e.op \in Terminal /\ e.op \notin AllKinds /\ e.src = p /\ p <= Len(cd)
  BY <1>6 DEF Terminal, Transfers, AllKinds, Loops, p
<1>13. Knows(bodies, cd, g1, cur, lab, p + 1)
  BY <1>4, <1>8, <1>9, <1>10, <1>11, <1>12, KnowsGain
<1>14. g1[n + 1] = <<>> /\ n + 1 \in 1 .. Len(g1)
  <2>1. \A m \in Nat : m + 1 \in 1 .. m + 3
    OBVIOUS
  <2>2. Len(g1) = n + 3 /\ g1[n + 1] = <<>>
    BY <1>3 DEF IsThree
  <2> QED  BY <1>2, <2>1, <2>2
<1>15. Ahead(cd, g1[n + 1], lab[n + 1], p + 1)
  BY <1>6, <1>8, <1>14, AtAhead
<1>16. Knows(bodies, cd, g1, n + 1, lab, p + 1)
  BY <1>4, <1>13, <1>14, <1>15, KnowsMove DEF SplitOnly
<1>17. OweAt(b, cd, g1[n + 1], lab)
  <2>1. ~HasElse(cd, p)
    BY <1>1, NoElseHere DEF p
  <2> QED  BY <1>8, <2>1 DEF OweAt, SplitOwes, Opening, p
<1>18. Knows(Append(bodies, b), cd, g1, n + 1, lab, Len(cd) + 1)
  BY <1>1, <1>6, <1>16, <1>17, KnowsPush
<1>19. ExitKnown(Append(bodies, b), g1[n + 1])
  BY <1>14, NotEndedEmpty
<1>20. g1 = Extended(<<e>>) \o <<<<>>, <<>>, <<>>>>
  BY ExtendedGrows DEF g1
<1> QED  BY <1>4, <1>18, <1>19, <1>20 DEF WriteInv

(* and with the three of a while loop.                                       *)
LEMMA WhileKnown ==
    ASSUME Fresh, Top.split, ~Top.exited, NEW s, NEW cd, NEW b, Opening("while", s, cd, b),
           b.head = Len(segs) + 1, b.alt = 0, b.next = Len(segs) + 3,
           NEW e \in Instr, e.op = "goto", ~e.shown, e.src = Len(code) + 1, e.to = Len(segs) + 1,
           NEW f \in Instr, f.op = "branch", f.shown, f.src = Len(code) + 1,
           f.to = Len(segs) + 2, f.other = Len(segs) + 3
    PROVE  WriteInv(Append(bodies, b), cd, Extended(<<e>>) \o <<<<f>>, <<>>, <<>>>>, Len(segs) + 2)
<1> DEFINE n == Len(segs)
           p == Len(code) + 1
           g == Grown(segs, cur, <<>>) \o <<<<>>, <<>>, <<>>>>
           g1 == Grown(segs, cur, <<e>>) \o <<<<>>, <<>>, <<>>>>
           g2 == Grown(segs, cur, <<e>>) \o <<<<f>>, <<>>, <<>>>>
<1>1. /\ bodies \in Seq(Body) /\ b \in Body /\ Shape(bodies, segs, cur) /\ code \in Seq(Stmt)
      /\ Nests(code, Opened(bodies)) /\ Adds(code, cd, s) /\ s.op = "while"
  BY DEF Fresh, Ready, Shape, Lists, Opening, Writes, WriteInv, Stack
<1>2. segs \in Seq(Seq(Instr)) /\ cur \in 1 .. n /\ Leading(bodies, n) /\ n \in Nat
  BY <1>1, ShapeOpens
<1>3. /\ IsThree(g, segs, cur, <<>>, <<>>) /\ IsThree(g1, segs, cur, <<e>>, <<>>)
      /\ IsThree(g2, segs, cur, <<e>>, <<f>>)
  BY <1>2, EmptyIs, PairIs, ThreeIs
<1> HIDE DEF g, g1, g2
<1>4. /\ Stack(Append(bodies, b), cd) /\ ~Ended(segs[cur]) /\ SplitOnly(bodies)
      /\ \E lab : Knows(bodies, cd, segs, cur, lab, p)
  BY OpeningKnown
<1>5. PICK lab0 : Knows(bodies, cd, segs, cur, lab0, p)
  BY <1>4
<1>6. /\ p \in Nat /\ p + 1 \in Nat /\ 1 <= p /\ 1 <= p + 1 /\ Len(cd) = p /\ p \in 1 .. Len(cd)
      /\ cd[p] = s
      /\ Len(cd) + 1 = p + 1 /\ p \in 1 .. Len(cd) + 1 /\ p # Len(cd) + 1
  BY <1>1, PositionsMore DEF Adds
<1>7. At(p) \in Label /\ At(p + 1) \in Label /\ Behind(p) \in Label
  BY <1>6, LabelIs
<1>p. e.src = p /\ f.src = p
  OBVIOUS
<1> HIDE DEF p
<1>8. PICK lab : /\ Knows(bodies, cd, g, cur, lab, p) /\ lab[n + 1] = At(p)
                 /\ lab[n + 2] = At(p + 1) /\ lab[n + 3] = Behind(p)
  BY <1>2, <1>3, <1>5, <1>7, KnowsThree
<1>9. Gains(g, g1, cur, e) /\ Gains(g1, g2, n + 1, f) /\ g[cur] = segs[cur]
  <2>1. /\ Gains(g, g1, cur, e) /\ g[cur] = segs[cur]
        /\ \A x : IsThree(x, segs, cur, <<e>>, <<f>>) => Gains(g1, x, n + 1, f)
    BY <1>2, <1>3, ThreeGains
  <2> QED  BY <1>3, <2>1
<1>10. \A u : OpensIn(bodies, u)
  BY <1>4 DEF SplitOnly, OpensIn
<1>11. /\ Len(g) = n + 3 /\ Len(g1) = n + 3 /\ n + 1 \in 1 .. n + 3 /\ n + 2 \in 1 .. n + 3
       /\ n + 3 \in 1 .. n + 3
       /\ g1[n + 1] = <<>> /\ g2[n + 2] = <<>> /\ Len(g2) = n + 3 /\ n + 1 # cur
  <2>1. \A m \in Nat : /\ m + 1 \in 1 .. m + 3 /\ m + 2 \in 1 .. m + 3 /\ m + 3 \in 1 .. m + 3
                       /\ \A k \in 1 .. m : m + 1 # k
    OBVIOUS
  <2>2. Len(g) = n + 3 /\ Len(g1) = n + 3 /\ Len(g2) = n + 3 /\ g1[n + 1] = <<>> /\ g2[n + 2] = <<>>
    BY <1>3 DEF IsThree
  <2> QED  BY <1>2, <2>1, <2>2
<1>12. Suits(cd, g, cur, e, lab)
  <2>1. e.op \notin {"close"} \cup Jumps
    BY DEF Jumps
  <2>2. Stands(cd, e)
    BY <1>1, <1>6, <1>p DEF Stands, Calls, Jumps, AllKinds, Loops
  <2>3. GoesTo(cd, p) = At(p)
    BY <1>1, <1>6 DEF GoesTo
  <2>4. Leads(cd, e, lab)
    BY <1>8, <1>p, <2>3 DEF Leads, Calls
  <2>5. Fits(e, g[cur], Len(g))
    BY <1>11, <2>1 DEF Fits
  <2> QED  BY <2>1, <2>2, <2>4, <2>5 DEF Suits
<1>13. e.op \in Terminal /\ e.op \notin AllKinds /\ f.op \notin AllKinds /\ p <= Len(cd)
  BY <1>6 DEF Terminal, Transfers, AllKinds, Loops
<1>14. Knows(bodies, cd, g1, cur, lab, p + 1)
  BY <1>4, <1>8, <1>9, <1>10, <1>12, <1>13, <1>p, KnowsGain
<1>15. Suits(cd, g1, n + 1, f, lab)
  <2>1. f.op \notin {"close"} \cup Jumps
    BY DEF Jumps
  <2>2. Stands(cd, f)
    BY <1>1, StandsLast
  <2>3. Leads(cd, f, lab)
    BY <1>1, <1>6, <1>8, <1>p DEF Leads, Calls
  <2>4. Fits(f, g1[n + 1], Len(g1))
    BY <1>11, <2>1 DEF Fits
  <2> QED  BY <2>1, <2>2, <2>3, <2>4 DEF Suits
<1>16. Knows(bodies, cd, g2, cur, lab, p + 1)
  <2>1. Ahead(cd, g1[n + 1], lab[n + 1], p)
    BY <1>6, <1>8, <1>11, AtAhead
  <2>2. ~Ended(g1[n + 1])
    BY <1>11 DEF Ended
  <2> QED  BY <1>9, <1>11, <1>13, <1>14, <1>15, <1>p, <2>1, <2>2, KnowsAside
<1>17. Ahead(cd, g2[n + 2], lab[n + 2], p + 1)
  BY <1>6, <1>8, <1>11, AtAhead
<1>18. Knows(bodies, cd, g2, n + 2, lab, p + 1)
  BY <1>4, <1>11, <1>16, <1>17, KnowsMove DEF SplitOnly
<1>19. OweAt(b, cd, g2[n + 2], lab)
  BY <1>8 DEF OweAt, SplitOwes, Opening, p
<1>20. Knows(Append(bodies, b), cd, g2, n + 2, lab, Len(cd) + 1)
  BY <1>1, <1>6, <1>18, <1>19, KnowsPush
<1>21. ExitKnown(Append(bodies, b), g2[n + 2])
  BY <1>11, NotEndedEmpty
<1>22. g2 = Extended(<<e>>) \o <<<<f>>, <<>>, <<>>>>
  BY ExtendedGrows DEF g2
<1> QED  BY <1>4, <1>20, <1>21, <1>22 DEF WriteInv

LEMMA OpeningIs ==
    ASSUME Ready, NEW kind \in AllKinds, NEW b \in Body, b.kind = kind, b.split, ~b.exited, b.at = Here
    PROVE  Opening(kind, S(b.kind, "", 0), code \o <<S(b.kind, "", 0)>>, b)
<1>1. code \in Seq(Stmt)
  BY DEF Ready
<1> DEFINE s == S(b.kind, "", 0)
<1>2. s \in Stmt /\ s.op = kind
  BY DEF S, Stmt
<1> HIDE DEF s
<1>3. Adds(code, code \o <<s>>, s)
  BY <1>1, <1>2, AddsOne
<1>4. Opening(kind, s, code \o <<s>>, b)
  BY <1>2, <1>3 DEF Opening, Here
<1> QED  BY <1>4 DEF s

(* A hidden instruction, and a branch, are for the next statement.           *)
LEMMA HereInstr ==
    ASSUME Here \in Nat, NEW to \in Nat, NEW else \in Nat
    PROVE  LET e == I("goto", "", to)
               f == [Visible(I("branch", "", to)) EXCEPT !.other = else] IN
           /\ e \in Instr /\ e.op = "goto" /\ ~e.shown /\ e.src = Here /\ e.to = to
           /\ f \in Instr /\ f.op = "branch" /\ f.shown /\ f.src = Here /\ f.to = to /\ f.other = else
  BY DEF I, Instr, Visible

(* A body that is split opens.                                               *)
LEMMA OpenSplitKnown ==
    ASSUME Fresh, OpenSplit PROVE Writes'
<1> DEFINE n == Len(segs)
           Cut(kind) == [NewBody(kind) EXCEPT !.split = TRUE]
           Fork(then, else) == [Visible(I("branch", "", then)) EXCEPT !.other = else]
           bb == [Cut("block") EXCEPT !.next = n + 1]
           bi == [Cut("if") EXCEPT !.alt = n + 2, !.next = n + 3]
           bw == [Cut("while") EXCEPT !.head = n + 1, !.next = n + 3]
           e == I("goto", "", n + 1)
           i == Fork(n + 1, n + 2)
           f == Fork(n + 2, n + 3)
<1>1. /\ Ready /\ code \in Seq(Stmt) /\ ~Top.exited /\ Top.split /\ n \in Nat /\ Here \in Nat
      /\ Here = Len(code) + 1
  <2>1. ~Top.exited /\ Top.split /\ Ready /\ code \in Seq(Stmt)
    BY DEF OpenSplit, Writing, Fresh, Ready
  <2>2. n \in Nat /\ Here \in Nat
    BY <2>1, TopIs DEF Ready, Here
  <2> QED BY <2>1, <2>2 DEF Here
<1>2. \/ Open(bb, segs \o <<<<>>>>, cur)
      \/ Open(bi, Extended(<<i>>) \o <<<<>>, <<>>, <<>>>>, n + 1)
      \/ Open(bw, Extended(<<e>>) \o <<<<f>>, <<>>, <<>>>>, n + 2)
  BY DEF OpenSplit
<1>3. /\ n + 1 \in Nat /\ n + 2 \in Nat /\ n + 3 \in Nat
      /\ "block" \in AllKinds /\ "if" \in AllKinds /\ "while" \in AllKinds
  BY <1>1 DEF AllKinds, Loops
<1> HIDE DEF n
<1>4. /\ bb \in Body /\ bb.kind = "block" /\ bb.split /\ ~bb.exited /\ bb.at = Here
      /\ bb.next = n + 1 /\ bb.alt = 0
  BY <1>1, <1>3 DEF NewBody, Body
<1>5. /\ bi \in Body /\ bi.kind = "if" /\ bi.split /\ ~bi.exited /\ bi.at = Here
      /\ bi.alt = n + 2 /\ bi.next = n + 3
  BY <1>1, <1>3 DEF NewBody, Body
<1>6. /\ bw \in Body /\ bw.kind = "while" /\ bw.split /\ ~bw.exited /\ bw.at = Here
      /\ bw.head = n + 1 /\ bw.alt = 0 /\ bw.next = n + 3
  BY <1>1, <1>3 DEF NewBody, Body
<1>7. /\ e \in Instr /\ e.op = "goto" /\ ~e.shown /\ e.src = Here /\ e.to = n + 1
  BY <1>1, <1>3, HereInstr
<1>8. /\ i \in Instr /\ i.op = "branch" /\ i.shown /\ i.src = Here /\ i.to = n + 1 /\ i.other = n + 2
      /\ f \in Instr /\ f.op = "branch" /\ f.shown /\ f.src = Here /\ f.to = n + 2 /\ f.other = n + 3
  <2> HIDE DEF Fork
  <2>1. ASSUME NEW to \in Nat, NEW other \in Nat
        PROVE  /\ Fork(to, other) \in Instr /\ Fork(to, other).op = "branch" /\ Fork(to, other).shown
               /\ Fork(to, other).src = Here /\ Fork(to, other).to = to /\ Fork(to, other).other = other
    BY <1>1 DEF Fork, I, Instr, Visible
  <2> QED BY <1>3, <2>1
<1> HIDE DEF bb, bi, bw, e, i, f
<1>9. CASE Open(bb, segs \o <<<<>>>>, cur)
  <2>1. Opening("block", S(bb.kind, "", 0), code \o <<S(bb.kind, "", 0)>>, bb)
    BY <1>1, <1>3, <1>4, OpeningIs
  <2>2. WriteInv(Append(bodies, bb), code \o <<S(bb.kind, "", 0)>>, segs \o <<<<>>>>, cur)
    BY <1>1, <1>4, <2>1, BlockKnown DEF n
  <2> QED BY <1>9, <2>2 DEF Open, Write, Writes
<1>10. CASE Open(bi, Extended(<<i>>) \o <<<<>>, <<>>, <<>>>>, n + 1)
  <2>1. Opening("if", S(bi.kind, "", 0), code \o <<S(bi.kind, "", 0)>>, bi)
    BY <1>1, <1>3, <1>5, OpeningIs
  <2>2. WriteInv(Append(bodies, bi), code \o <<S(bi.kind, "", 0)>>,
                 Extended(<<i>>) \o <<<<>>, <<>>, <<>>>>, n + 1)
    BY <1>1, <1>5, <1>8, <2>1, IfKnown DEF n
  <2> QED BY <1>10, <2>2 DEF Open, Write, Writes
<1>11. CASE Open(bw, Extended(<<e>>) \o <<<<f>>, <<>>, <<>>>>, n + 2)
  <2>1. Opening("while", S(bw.kind, "", 0), code \o <<S(bw.kind, "", 0)>>, bw)
    BY <1>1, <1>3, <1>6, OpeningIs
  <2>2. WriteInv(Append(bodies, bw), code \o <<S(bw.kind, "", 0)>>,
                 Extended(<<e>>) \o <<<<f>>, <<>>, <<>>>>, n + 2)
    BY <1>1, <1>6, <1>7, <1>8, <2>1, WhileKnown DEF n
  <2> QED BY <1>11, <2>2 DEF Open, Write, Writes
<1> QED BY <1>2, <1>9, <1>10, <1>11

-----------------------------------------------------------------------------
(* Bodies that are split: else, and what emitSeq and emitIf and emitWhile    *)
(* end with.                                                                 *)

(* The innermost body, if it is split, is not closed yet.                    *)
LEMMA StillOpen ==
    ASSUME Fresh, Top.split, Len(bodies) > 1
    PROVE  /\ Top.at \in 1 .. Len(code) /\ Top.at \in Opened(bodies) /\ code[Top.at].op = Top.kind
           /\ Top.kind \in {"if", "block", "while"} /\ ~HasClose(code, Top.at) /\ SplitOnly(bodies)
           /\ ~PlainAt(bodies, code, Top.at) /\ SplitPlaces(Top, segs, cur)
           /\ Top = bodies[Len(bodies)] /\ Len(bodies) \in 2 .. Len(bodies) /\ Top \in Body
<1>1. /\ Shape(bodies, segs, cur) /\ bodies \in Seq(Body) /\ bodies # <<>> /\ Nested(bodies)
      /\ Places(bodies, segs, cur) /\ Stacked(bodies, code) /\ Nests(code, Opened(bodies))
  BY DEF Fresh, Ready, Writes, WriteInv, Stack, Shape, Lists
<1>2. Top = bodies[Len(bodies)] /\ Top \in Body
  BY <1>1, TopIs
<1>3. Len(bodies) \in 2 .. Len(bodies) /\ Len(bodies) \in DOMAIN bodies /\ Len(bodies) > 1
  BY <1>1
<1>4. Top.at \in 1 .. Len(code) /\ code[Top.at].op = Top.kind /\ Top.at \in Opened(bodies)
  BY <1>1, <1>2, <1>3 DEF Stacked, Opened
<1>5. SplitPlaces(Top, segs, cur) /\ Top.kind \in AllKinds
  BY <1>1, <1>2, <1>3 DEF Places, Nested
<1>6. Top.kind \in {"if", "block", "while"}
  BY <1>5 DEF SplitPlaces, AllKinds, Loops
<1>7. ~HasClose(code, Top.at)
  BY <1>1, <1>4 DEF Nests, ClosesMatch, HasClose, Shuts
<1>8. \A i \in DOMAIN bodies : bodies[i].split
  BY <1>1, <1>2, AllSplit
<1>9. \A i \in 1 .. Len(bodies) : i \in DOMAIN bodies
  BY <1>1
<1>10. \A i \in 2 .. Len(bodies) : i \in DOMAIN bodies
  BY <1>1
<1>11. SplitOnly(bodies) /\ ~PlainAt(bodies, code, Top.at)
  BY <1>7, <1>8, <1>9, <1>10 DEF SplitOnly, PlainAt
<1> QED  BY <1>2, <1>3, <1>4, <1>5, <1>6, <1>7, <1>11

(* A split body that ends hands over to what it owes.                        *)
LEMMA FallsThrough ==
    ASSUME Fresh, Top.split, Len(bodies) > 1, NEW cd, NEW s, Adds(code, cd, s), s.op \in {"else", "close"},
           s.at = Top.at, s.op = "else" => Top.kind = "if",
           NEW bs, NEW lab, Knows(bs, cd, segs, cur, lab, Len(code) + 1), SplitOnly(bs),
           lab[Top.next] = Behind(Top.at), Top.kind = "while" => lab[Top.head] = At(Top.at)
    PROVE  /\ Knows(bs, cd, Extended(Fallthrough), cur, lab, Len(code) + 1)
           /\ Extended(Fallthrough) \in Seq(Seq(Instr)) /\ Len(Extended(Fallthrough)) = Len(segs)
           /\ \A k \in 1 .. Len(segs) : k # cur => Extended(Fallthrough)[k] = segs[k]
<1>1. /\ Shape(bodies, segs, cur) /\ code \in Seq(Stmt) /\ WriteInv(bodies, code, segs, cur)
  BY DEF Fresh, Ready, Writes
<1>2. segs \in Seq(Seq(Instr)) /\ cur \in 1 .. Len(segs) /\ DOMAIN segs = 1 .. Len(segs)
  BY <1>1, ShapeOpens
<1>3. /\ Top.at \in 1 .. Len(code) /\ code[Top.at].op = Top.kind /\ Top.kind \in {"if", "block", "while"}
      /\ SplitPlaces(Top, segs, cur) /\ Top = bodies[Len(bodies)] /\ Top \in Body
  BY StillOpen
<1>4. CASE Top.exited
  <2>1. segs[cur] \in Seq(Instr)
    BY <1>2
  <2>2. segs[cur] \o <<>> = segs[cur]
    BY <2>1
  <2>3. Extended(Fallthrough) = segs
    BY <1>2, <1>4, <2>2 DEF Extended, Fallthrough
  <2> QED  BY <1>2, <2>3
<1>5. CASE ~Top.exited
  <2> DEFINE to == IF Top.kind = "while" THEN Top.head ELSE Top.next
             e == I("goto", "", to)
  <2>1. to \in 1 .. Len(segs) /\ to \in Nat
    <3>1. to \in DOMAIN segs
      BY <1>3 DEF SplitPlaces
    <3> QED  BY <1>2, <3>1
  <2>t. lab[to] = IF Top.kind = "while" THEN At(Top.at) ELSE Behind(Top.at)
    OBVIOUS
  <2>2. Fallthrough = <<e>>
    BY <1>5 DEF Fallthrough
  <2> HIDE DEF to
  <2>3. e \in Instr /\ e.op = "goto" /\ ~e.shown /\ e.src = Len(code) + 1 /\ e.to = to
    <3>1. Here \in Nat
      BY <1>1, HereIs
    <3> QED  BY <2>1, <3>1, HereInstr DEF Here
  <2> HIDE DEF e
  <2>4. Gains(segs, Grown(segs, cur, <<e>>), cur, e)
    BY <1>2, <2>3, GrownGains
  <2>5. ~Ended(segs[cur])
    BY <1>1, <1>3, <1>5 DEF WriteInv, ExitKnown
  <2>6. /\ Len(cd) = Len(code) + 1 /\ Len(code) + 1 \in 1 .. Len(cd) /\ cd[Len(code) + 1] = s
        /\ Len(code) + 1 <= Len(cd) /\ Len(code) + 1 \in 1 .. Len(cd) + 1 /\ Len(code) + 1 # Len(cd) + 1
        /\ cd[Top.at] = code[Top.at]
    <3>1. /\ Len(cd) = Len(code) + 1 /\ Len(code) + 1 \in 1 .. Len(cd) /\ cd[Len(code) + 1] = s
          /\ Len(code) \in Nat
          /\ cd[Top.at] = code[Top.at]
      BY <1>3, PositionsMore DEF Adds
    <3>2. \A m \in Nat : m + 1 <= m + 1 /\ m + 1 \in 1 .. m + 1 + 1 /\ m + 1 # m + 1 + 1
      OBVIOUS
    <3> QED  BY <3>1, <3>2
  <2>7. GoesTo(cd, Len(code) + 1) = lab[to]
    <3>1. cd[Len(code) + 1].op = "close" /\ cd[cd[Len(code) + 1].at].op \in Loops <=> Top.kind = "while"
      BY <1>3, <2>6 DEF Loops
    <3>2. cd[Len(code) + 1].op \notin {"while", "continue"} /\ cd[Len(code) + 1].at = Top.at
      BY <2>6
    <3> QED  BY <2>6, <2>t, <3>1, <3>2 DEF GoesTo
  <2>8. Suits(cd, segs, cur, e, lab)
    <3>1. Stands(cd, e)
      BY <2>3, <2>6 DEF Stands, Calls, Jumps, AllKinds, Loops
    <3>2. Leads(cd, e, lab)
      BY <2>3, <2>7 DEF Leads, Calls
    <3>3. Fits(e, segs[cur], Len(segs))
      BY <2>1, <2>3 DEF Fits, Transfers, Jumps, Calls
    <3> QED  BY <2>3, <3>1, <3>2, <3>3 DEF Suits, Jumps
  <2>9. e.op \in Terminal /\ e.op \notin AllKinds
    BY <2>3 DEF Terminal, Transfers, AllKinds, Loops
  <2>10. OpensIn(bs, segs[cur])
    BY DEF SplitOnly, OpensIn
  <2>11. Knows(bs, cd, Grown(segs, cur, <<e>>), cur, lab, Len(code) + 1)
    BY <2>3, <2>4, <2>5, <2>6, <2>8, <2>9, <2>10, KnowsGain
  <2>12. Extended(Fallthrough) = Grown(segs, cur, <<e>>)
    BY <2>2, ExtendedGrows
  <2> QED  BY <2>4, <2>11, <2>12 DEF Gains
<1> QED  BY <1>4, <1>5

(* What the innermost body, if it is split, is owed.                         *)
LEMMA TopOwes ==
    ASSUME Fresh, Top.split, Len(bodies) > 1, NEW lab, Knows(bodies, code, segs, cur, lab, Len(code) + 1)
    PROVE  SplitOwes(Top, code, lab)
<1>1. Top = bodies[Len(bodies)] /\ Len(bodies) \in 2 .. Len(bodies)
  BY StillOpen
<1>2. OweAt(bodies[Len(bodies)], code, segs[cur], lab)
  BY <1>1 DEF Knows, Owes
<1> QED  BY <1>1, <1>2 DEF OweAt

(* The then part ends and the else part begins.                              *)
LEMMA ElseKnown ==
    ASSUME Fresh, Else PROVE Writes'
<1> DEFINE g == Extended(Fallthrough)
           b == [Top EXCEPT !.alt = 0, !.exited = FALSE, !.binds = FALSE]
           bs == WithTop(b)
           s == S("else", "", Top.at)
           cd == Append(code, s)
           p == Len(code) + 1
<1>1. /\ Len(bodies) > 1 /\ Top.alt # 0 /\ Top.kind = "if"
      /\ bodies' = bs /\ code' = cd /\ segs' = g /\ cur' = Top.alt
  BY DEF Else
<1>2. /\ Shape(bodies, segs, cur) /\ code \in Seq(Stmt) /\ Stack(bodies, code) /\ bodies \in Seq(Body)
      /\ bodies # <<>> /\ Top = Last(bodies) /\ Top = bodies[Len(bodies)] /\ Top \in Body
      /\ Len(bodies) \in DOMAIN bodies /\ Stacked(bodies, code) /\ Nests(code, Opened(bodies))
  BY TopIs DEF Fresh, Ready, Writes, WriteInv, Shape, Lists, Stack
<1>3. Top.split
  BY <1>1, <1>2 DEF Shape, Places, PlainPlaces
<1>4. /\ Top.at \in 1 .. Len(code) /\ Top.at \in Opened(bodies) /\ code[Top.at].op = Top.kind
      /\ SplitOnly(bodies) /\ ~PlainAt(bodies, code, Top.at) /\ SplitPlaces(Top, segs, cur)
      /\ Len(bodies) \in 2 .. Len(bodies)
  BY <1>1, <1>3, StillOpen
<1>5. /\ b \in Body /\ b.at = Top.at /\ b.kind = Top.kind /\ b.split = Top.split /\ b.open = Top.open
      /\ b.head = Top.head /\ b.next = Top.next /\ b.alt = 0 /\ ~b.exited
  BY <1>2 DEF Body
<1> HIDE DEF b
<1>6. SameAts(bodies, bs) /\ bs[Len(bs)] = b
  <2>1. /\ b.split = Last(bodies).split /\ b.at = Last(bodies).at /\ b.kind = Last(bodies).kind
        /\ b.open = Last(bodies).open /\ b.head = Last(bodies).head /\ b.next = Last(bodies).next
        /\ b.alt \in {Last(bodies).alt, 0}
    BY <1>2, <1>5
  <2> QED  BY <1>2, <1>5, <2>1, SameAtsTop DEF WithTop
<1>7. s \in Stmt /\ s.op = "else" /\ s.at = Top.at
  BY <1>2 DEF S, Stmt, Body
<1> HIDE DEF bs, s
<1>8. Adds(code, cd, s)
  BY <1>2, <1>7, AddsOne
<1> HIDE DEF cd
<1>9. PICK lab : Knows(bodies, code, segs, cur, lab, p)
  BY DEF Fresh, Writes, WriteInv
<1>10. SplitOwes(Top, code, lab)
  BY <1>1, <1>3, <1>9, TopOwes
<1>11. FitsIn(code, Opened(bodies), s, Opened(bodies))
  <2>1. Opened(bodies) \subseteq 1 .. Len(code)
    BY <1>2 DEF Opened, Stacked
  <2>2. s.op \notin AllKinds \cup {"close"} \cup Jumps
    BY <1>7 DEF AllKinds, Loops, Jumps
  <2>3. ~\E e \in 1 .. Len(code) : Turns(code, e, s.at)
    BY <1>1, <1>7, <1>10 DEF SplitOwes, HasElse
  <2> QED  BY <1>1, <1>4, <1>7, <2>1, <2>2, <2>3 DEF FitsIn
<1>12. Nests(cd, Opened(bodies))
  BY <1>2, <1>8, <1>11, NestsMore
<1>13. Len(bodies) \in Nat \ {0} /\ Len(bs) = Len(bodies)
  BY <1>2, <1>6, ShapeOpens DEF SameAts
<1>14. Stacked(bs, cd) /\ Opened(bs) = Opened(bodies)
  BY <1>2, <1>6, <1>8, <1>13, SameStack
<1>15. \A i \in 2 .. Len(bodies) : bodies[i].at = s.at => bs[i].alt = 0
  <2> SUFFICES ASSUME NEW i \in 2 .. Len(bodies), bodies[i].at = s.at PROVE bs[i].alt = 0
    OBVIOUS
  <2>1. i \in 1 .. Len(bodies) /\ Len(bodies) \in 1 .. Len(bodies) /\ (i < Len(bodies) \/ i = Len(bodies))
    BY <1>13
  <2>2. ~(i < Len(bodies))
    <3>1. Top.at \in Nat
      BY <1>2 DEF Body
    <3> QED  BY <1>2, <1>7, <2>1, <3>1 DEF Stacked
  <2> QED  BY <1>5, <1>6, <1>13, <2>1, <2>2
<1>16. Knows(bs, cd, segs, cur, lab, p)
  BY <1>2, <1>4, <1>6, <1>7, <1>8, <1>9, <1>12, <1>13, <1>15, KnowsOne
<1>17. SplitOnly(bs)
  <2>1. \A i \in 2 .. Len(bs) : i \in 1 .. Len(bodies) /\ i \in 2 .. Len(bodies)
    BY <1>13
  <2> QED  BY <1>4, <1>6, <2>1 DEF SplitOnly, SameAts
<1>18. /\ Knows(bs, cd, g, cur, lab, p) /\ g \in Seq(Seq(Instr)) /\ Len(g) = Len(segs)
       /\ \A k \in 1 .. Len(segs) : k # cur => g[k] = segs[k]
  BY <1>1, <1>3, <1>7, <1>8, <1>10, <1>16, <1>17, FallsThrough DEF SplitOwes
<1> HIDE DEF g
<1>19. Top.alt \in 1 .. Len(segs) /\ g[Top.alt] = <<>>
  <2>1. Top.alt \in DOMAIN segs /\ Top.alt # cur /\ segs[Top.alt] = <<>>
    BY <1>1, <1>4 DEF SplitPlaces, Pending
  <2>2. DOMAIN segs = 1 .. Len(segs)
    BY <1>2 DEF Shape, Lists
  <2> QED  BY <1>18, <2>1, <2>2
<1>20. Len(cd) = p /\ p \in 1 .. Len(cd) /\ cd[p] = s /\ p \in Nat /\ p + 1 \in Nat /\ 1 <= p + 1
  <2>1. Len(cd) = p /\ p \in 1 .. Len(cd) /\ cd[p] = s
    BY <1>8, PositionsMore DEF Adds
  <2>2. p \in Nat /\ p + 1 \in Nat /\ 1 <= p + 1
    BY <1>2
  <2> QED  BY <2>1, <2>2
<1> HIDE DEF p
<1>21. Ahead(cd, g[Top.alt], lab[Top.alt], Len(cd) + 1)
  <2>1. lab[Top.alt] = Otherwise(Top.at) /\ Top.at \in Nat
    BY <1>1, <1>2, <1>10 DEF SplitOwes, Body
  <2>2. Turns(cd, p, Top.at)
    BY <1>7, <1>20 DEF Turns
  <2>3. Skips(cd, p + 1, p + 1)
    BY <1>20, SkipsHere
  <2>4. Begins(cd, lab[Top.alt], p + 1)
    BY <1>20, <2>1, <2>2, <2>3, LabelIs DEF Begins, HasElse
  <2> QED  BY <1>19, <1>20, <2>4, EmptyAhead
<1>22. Knows(bs, cd, g, Top.alt, lab, Len(cd) + 1)
  BY <1>17, <1>18, <1>19, <1>21, KnowsMove DEF SplitOnly
<1>23. ExitKnown(bs, g[Top.alt])
  BY <1>19, NotEndedEmpty
<1>24. Stack(bs, cd)
  BY <1>12, <1>14 DEF Stack
<1> QED  BY <1>1, <1>22, <1>23, <1>24 DEF WriteInv, Writes

(* An empty segment gets its only instruction.                               *)
LEMMA FilledGains ==
    ASSUME NEW g \in Seq(Seq(Instr)), NEW k \in 1 .. Len(g), g[k] = <<>>, NEW e \in Instr
    PROVE  Gains(g, [g EXCEPT ![k] = <<e>>], k, e)
<1>1. <<e>> \in Seq(Instr) /\ <<>> \o <<e>> = <<e>>
  BY PairIs
<1> DEFINE T == Seq(Instr)
           x == <<e>>
<1>2. g \in Seq(T) /\ x \in T
  BY <1>1
<1> HIDE DEF T, x
<1>3. /\ [g EXCEPT ![k] = x] \in Seq(T) /\ Len([g EXCEPT ![k] = x]) = Len(g)
      /\ [g EXCEPT ![k] = x][k] = x /\ \A n \in 1 .. Len(g) : n # k => [g EXCEPT ![k] = x][n] = g[n]
  BY <1>2
<1> QED  BY <1>1, <1>3 DEF Gains, T, x

(* A body that is split ends, and its last segment is taken up.              *)
LEMMA CloseSplitKnown ==
    ASSUME Fresh, CloseSplit PROVE Writes'
<1> DEFINE g == Extended(Fallthrough)
           e == I("goto", "", Top.next)
           g2 == IF Top.alt = 0 THEN g ELSE [g EXCEPT ![Top.alt] = NoElse]
           s == S("close", "", Top.at)
           cd == Append(code, s)
           p == Len(code) + 1
           bs == Front(bodies)
<1>1. /\ Len(bodies) > 1 /\ Top.split
      /\ bodies' = bs /\ code' = cd /\ segs' = g2 /\ cur' = Top.next
  BY DEF CloseSplit
<1>2. /\ Shape(bodies, segs, cur) /\ code \in Seq(Stmt) /\ Stack(bodies, code) /\ bodies \in Seq(Body)
      /\ Top = Last(bodies) /\ Top \in Body /\ Nests(code, Opened(bodies))
      /\ segs \in Seq(Seq(Instr)) /\ DOMAIN segs = 1 .. Len(segs) /\ cur \in 1 .. Len(segs)
  BY TopIs DEF Fresh, Ready, Writes, WriteInv, Shape, Lists, Stack
<1>3. /\ Top.at \in 1 .. Len(code) /\ Top.at \in Opened(bodies) /\ code[Top.at].op = Top.kind
      /\ Top.kind \in {"if", "block", "while"}
      /\ SplitOnly(bodies) /\ SplitPlaces(Top, segs, cur)
  BY <1>1, StillOpen
<1>4. s \in Stmt /\ s.op = "close" /\ s.at = Top.at
  BY <1>2 DEF S, Stmt, Body
<1> HIDE DEF s
<1>5. Adds(code, cd, s)
  BY <1>2, <1>4, AddsOne
<1> HIDE DEF cd
<1>6. Top.next \in 1 .. Len(segs) /\ segs[Top.next] = <<>> /\ Top.next # cur /\ Top.next # Top.alt
      /\ Top.next \in Nat
  BY <1>2, <1>3 DEF SplitPlaces, Body
<1>7. e \in Instr /\ e.op = "goto" /\ ~e.shown /\ e.src = p /\ e.to = Top.next /\ NoElse = <<e>>
  <2>1. Here \in Nat
    BY <1>2, HereIs
  <2> QED  BY <1>6, <2>1, HereInstr DEF Here, NoElse
<1> HIDE DEF e, bs
<1>8. Stack(bs, cd) /\ Nests(cd, Opened(bs))
  <2>1. Top.kind \in AllKinds
    BY <1>3 DEF AllKinds, Loops
  <2> QED  BY <1>1, <1>2, <1>4, <1>5, <2>1, PopStack DEF bs, Stack
<1>9. PICK lab : Knows(bodies, code, segs, cur, lab, p)
  BY DEF Fresh, Writes, WriteInv
<1>10. SplitOwes(Top, code, lab)
  BY <1>1, <1>9, TopOwes
<1>11. Len(bodies) \in Nat
  BY <1>2, ShapeOpens
<1>12. Knows(bodies, cd, segs, cur, lab, p)
  BY <1>2, <1>4, <1>5, <1>8, <1>9, <1>11, SameAtsSelf, KnowsOne
<1>13. /\ Knows(bodies, cd, g, cur, lab, p) /\ g \in Seq(Seq(Instr)) /\ Len(g) = Len(segs)
       /\ \A k \in 1 .. Len(segs) : k # cur => g[k] = segs[k]
  BY <1>1, <1>3, <1>4, <1>5, <1>10, <1>12, FallsThrough DEF SplitOwes
<1> HIDE DEF g
<1>14. /\ Len(cd) = p /\ p \in 1 .. Len(cd) /\ cd[p] = s /\ p \in Nat /\ p + 1 \in Nat /\ 1 <= p
       /\ 1 <= p + 1
       /\ p <= Len(cd) /\ p \in 1 .. Len(cd) + 1 /\ p # Len(cd) + 1 /\ cd[Top.at] = code[Top.at]
  <2>1. Len(cd) = p /\ p \in 1 .. Len(cd) /\ cd[p] = s /\ cd[Top.at] = code[Top.at]
    BY <1>3, <1>5, PositionsMore DEF Adds
  <2>2. p \in Nat /\ p + 1 \in Nat /\ 1 <= p /\ 1 <= p + 1 /\ p <= p /\ p \in 1 .. p + 1 /\ p # p + 1
    BY <1>2
  <2> HIDE DEF p
  <2> QED  BY <2>1, <2>2
<1> HIDE DEF p
<1>15. Shuts(cd, p, Top.at)
  BY <1>4, <1>14 DEF Shuts
<1>16. Skips(cd, p, p) /\ Skips(cd, p + 1, p + 1)
  BY <1>14, SkipsHere
<1>17. /\ Knows(bodies, cd, g2, cur, lab, p) /\ g2 \in Seq(Seq(Instr)) /\ Len(g2) = Len(segs)
       /\ g2[Top.next] = <<>>
  <2>1. CASE Top.alt = 0
    <3>1. g2 = g
      BY <2>1
    <3> QED  BY <1>6, <1>13, <3>1
  <2>2. CASE Top.alt # 0
    <3>1. g2 = [g EXCEPT ![Top.alt] = <<e>>]
      BY <1>7, <2>2
    <3>2. Top.alt \in 1 .. Len(segs) /\ segs[Top.alt] = <<>> /\ Top.alt # cur
      BY <1>2, <1>3, <2>2 DEF SplitPlaces, Pending
    <3>3. g[Top.alt] = <<>> /\ Top.alt \in 1 .. Len(g)
      BY <1>13, <3>2
    <3> HIDE DEF g2
    <3>4. Gains(g, g2, Top.alt, e)
      BY <1>7, <1>13, <3>1, <3>3, FilledGains
    <3>5. /\ lab[Top.alt] = Otherwise(Top.at) /\ Top.kind = "if" /\ ~HasElse(code, Top.at)
          /\ lab[Top.next] = Behind(Top.at)
          /\ Top.at \in Nat
      BY <1>2, <1>10, <2>2 DEF SplitOwes, Body
    <3>6. ~HasElse(cd, Top.at)
      BY <1>4, <1>5, <3>5, HasElseMore
    <3>7. Begins(cd, lab[Top.alt], p)
      BY <1>15, <3>5, <3>6, LabelIs DEF Begins, HasElse
    <3>8. Ahead(cd, g[Top.alt], lab[Top.alt], e.src)
      BY <1>7, <3>3, <3>7, EmptyAhead
    <3>9. Suits(cd, g, Top.alt, e, lab)
      <4>1. Stands(cd, e)
        BY <1>4, <1>7, <1>14 DEF Stands, Calls, Jumps, AllKinds, Loops
      <4>2. GoesTo(cd, p) = Behind(Top.at)
        BY <1>3, <1>4, <1>14, <3>5 DEF GoesTo, Loops
      <4>3. Leads(cd, e, lab)
        BY <1>7, <3>5, <4>2 DEF Leads, Calls
      <4>4. Fits(e, g[Top.alt], Len(g))
        BY <1>6, <1>7, <1>13 DEF Fits, Transfers, Jumps, Calls
      <4> QED  BY <1>7, <4>1, <4>3, <4>4 DEF Suits, Jumps
    <3>10. e.op \notin AllKinds /\ ~Ended(g[Top.alt])
      BY <1>7, <3>3 DEF AllKinds, Loops, Ended
    <3>11. Knows(bodies, cd, g2, cur, lab, p)
      BY <1>7, <1>13, <1>14, <3>2, <3>4, <3>8, <3>9, <3>10, KnowsAside
    <3>12. g2 \in Seq(Seq(Instr)) /\ Len(g2) = Len(segs) /\ g2[Top.next] = <<>>
      BY <1>6, <1>13, <3>4 DEF Gains
    <3> QED  BY <3>11, <3>12
  <2> QED  BY <2>1, <2>2
<1> HIDE DEF g2
<1>18. Ahead(cd, g2[Top.next], lab[Top.next], Len(cd) + 1)
  <2>1. lab[Top.next] = Behind(Top.at) /\ Top.at \in Nat
    BY <1>2, <1>10 DEF SplitOwes, Body
  <2>2. Begins(cd, lab[Top.next], p + 1)
    BY <1>14, <1>15, <1>16, <2>1, LabelIs DEF Begins, HasElse
  <2> QED  BY <1>14, <1>17, <2>2, EmptyAhead
<1>19. Knows(bodies, cd, g2, Top.next, lab, Len(cd) + 1)
  BY <1>3, <1>6, <1>17, <1>18, KnowsMove DEF SplitOnly
<1>20. Knows(bs, cd, g2, Top.next, lab, Len(cd) + 1)
  <2>1. HasClose(cd, Last(bodies).at)
    BY <1>2, <1>14, <1>15 DEF HasClose
  <2> QED  BY <1>1, <1>2, <1>19, <2>1, KnowsPop DEF bs
<1>21. ExitKnown(bs, g2[Top.next])
  BY <1>17, NotEndedEmpty
<1> QED  BY <1>1, <1>8, <1>20, <1>21 DEF WriteInv, Writes

(* The end: what is not split is closed, and the last segment ends the task. *)
LEMMA FinishKnown ==
    ASSUME Fresh, Finish PROVE Final(code', segs')
<1> DEFINE n == Len(segs)
           p == Len(code) + 1
           e == I("goto", "", n + 1)
           i == I("finish", "", 0)
           v == Visible(i)
           t == IF Top.exited THEN <<>> ELSE <<e>>
<1>1. /\ Len(bodies) = 1 /\ code' = code
      /\ segs' = Append(IF Top.exited THEN segs ELSE Extended(<<e>>), <<v>>)
  BY DEF Finish
<1>2. /\ Shape(bodies, segs, cur) /\ code \in Seq(Stmt) /\ Nests(code, Opened(bodies))
      /\ WriteInv(bodies, code, segs, cur) /\ Top = bodies[Len(bodies)]
  BY TopIs DEF Fresh, Ready, Writes, WriteInv, Stack
<1>3. /\ segs \in Seq(Seq(Instr)) /\ cur \in 1 .. n /\ n \in Nat /\ Leading(bodies, n)
  BY <1>2, ShapeOpens
<1>4. Here = p /\ p \in Nat /\ 1 <= p /\ n + 1 \in Nat /\ p \notin 1 .. Len(code)
      /\ p \in 1 .. Len(code) + 1
  BY <1>2, <1>3 DEF Here
<1>5. e \in Instr /\ e.op = "goto" /\ ~e.shown /\ e.src = p /\ e.to = n + 1
  BY <1>4, HereInstr
<1>6. v \in Instr /\ v.op = "finish" /\ v.shown /\ v.src = p
  <2>1. i \in Instr /\ i.op = "finish" /\ i.src = p
    BY <1>4 DEF I, Instr
  <2> HIDE DEF i
  <2> QED  BY <2>1, VisibleKeeps
<1> HIDE DEF e, v
<1>7. segs' = Forked(segs, cur, t, <<v>>)
  <2>1. CASE Top.exited
    <3>1. segs[cur] \in Seq(Instr) /\ cur \in DOMAIN segs
      BY <1>3
    <3>2. Grown(segs, cur, <<>>) = segs
      BY <1>3, <3>1 DEF Grown
    <3> QED  BY <1>1, <2>1, <3>2 DEF Forked
  <2>2. CASE ~Top.exited
    BY <1>1, <2>2, ExtendedGrows DEF Forked
  <2> QED  BY <2>1, <2>2
<1>8. Opened(bodies) = {}
  <2>1. 2 .. 1 = {}
    OBVIOUS
  <2> QED  BY <1>1, <2>1 DEF Opened
<1>9. PICK lab0 : Knows(bodies, code, segs, cur, lab0, p)
  BY <1>2 DEF WriteInv
<1> DEFINE f0 == Forked(segs, cur, <<>>, <<>>)
           f1 == Forked(segs, cur, t, <<>>)
           f2 == Forked(segs, cur, t, <<v>>)
<1>10. Adjoins(segs, f0)
  BY <1>3, ForkedAdjoins
<1>11. At(p) \in Label
  BY <1>4, LabelIs
<1> HIDE DEF p
<1>12. PICK lab : Knows(bodies, code, f0, cur, lab, p) /\ lab[n + 1] = At(p)
  BY <1>3, <1>9, <1>10, <1>11, KnowsAdjoin
<1>13. /\ Midway(code, f0, lab) /\ lab[1] = At(1) /\ Plains(bodies, code, f0)
       /\ Ahead(code, f0[cur], lab[cur], p) /\ f0 \in Seq(Seq(Instr)) /\ lab \in [1 .. Len(f0) -> Label]
  BY <1>12 DEF Knows, Midway
<1>14. GoesTo(code, p) = At(p)
  BY <1>4 DEF GoesTo
<1>15. t \in Seq(Instr) /\ <<>> \in Seq(Instr) /\ <<>> \o <<e>> = <<e>> /\ <<>> \o <<v>> = <<v>>
  BY <1>5, <1>6, EmptyIs, PairIs
<1>16. /\ Len(f0) = n + 1 /\ Len(f1) = n + 1 /\ f1[n + 1] = <<>> /\ f0[cur] = segs[cur]
       /\ n + 1 \in 1 .. n + 1
  <2>1. IsForked(f0, segs, cur, <<>>, <<>>) /\ IsForked(f1, segs, cur, t, <<>>)
    BY <1>3, <1>15, ForkedIs
  <2>2. n + 1 \in 1 .. n + 1
    BY <1>3
  <2>3. segs[cur] \in Seq(Instr)
    BY <1>3
  <2>4. segs[cur] \o <<>> = segs[cur]
    BY <2>3
  <2> HIDE DEF f0, f1, t, n
  <2> QED  BY <2>1, <2>2, <2>4 DEF IsForked, n
<1>17. Midway(code, f1, lab) /\ Plains(bodies, code, f1)
  <2>1. CASE Top.exited
    <3>1. f1 = f0
      BY <2>1
    <3> QED  BY <1>13, <3>1
  <2>2. CASE ~Top.exited
    <3>1. t = <<e>>
      BY <2>2
    <3>2. Gains(f0, Forked(segs, cur, <<>> \o <<e>>, <<>>), cur, e)
      BY <1>3, <1>5, <1>15, ForkedGains
    <3>3. Gains(f0, f1, cur, e)
      BY <1>15, <3>1, <3>2
    <3> HIDE DEF f0, f1, n
    <3>4. Suits(code, f0, cur, e, lab)
      <4>1. Stands(code, e)
        BY <1>4, <1>5 DEF Stands
      <4>2. Leads(code, e, lab)
        BY <1>5, <1>12, <1>14 DEF Leads, Calls
      <4>3. Fits(e, f0[cur], Len(f0))
        BY <1>5, <1>16 DEF Fits, Transfers, Jumps, Calls
      <4> QED  BY <1>5, <4>1, <4>2, <4>3 DEF Suits, Jumps
    <3>5. ~Ended(f0[cur])
      BY <1>2, <1>16, <2>2 DEF WriteInv, ExitKnown
    <3>6. Midway(code, f1, lab)
      BY <1>5, <1>13, <3>3, <3>4, <3>5, Gained
    <3>7. Plains(bodies, code, f1)
      BY <1>5, <1>13, <3>3, PlainsGain DEF AllKinds, Loops
    <3> QED  BY <3>6, <3>7
  <2> QED  BY <2>1, <2>2
<1>18. Gains(f1, f2, n + 1, v)
  <2>1. Gains(f1, Forked(segs, cur, t, <<>> \o <<v>>), n + 1, v)
    BY <1>3, <1>6, <1>15, ForkedGains
  <2> QED  BY <1>15, <2>1
<1> HIDE DEF f0, f1, f2, t, n
<1>19. Midway(code, f2, lab)
  <2>1. Suits(code, f1, n + 1, v, lab)
    <3>1. Stands(code, v)
      BY <1>4, <1>6 DEF Stands
    <3>2. Leads(code, v, lab)
      BY <1>6 DEF Leads, Calls
    <3>3. Fits(v, f1[n + 1], Len(f1))
      BY <1>6 DEF Fits, Transfers, Jumps, Calls
    <3> QED  BY <1>6, <3>1, <3>2, <3>3 DEF Suits, Jumps
  <2>2. ~Ended(f1[n + 1])
    BY <1>16 DEF Ended
  <2>3. Ahead(code, f1[n + 1], lab[n + 1], v.src)
    BY <1>4, <1>6, <1>12, <1>16, AtAhead
  <2> QED  BY <1>6, <1>17, <1>18, <2>1, <2>2, <2>3, Gained
<1>20. Plains(bodies, code, f2)
  <2>1. f1 \in Seq(Seq(Instr))
    BY <1>17 DEF Midway
  <2> QED  BY <1>6, <1>17, <1>18, <2>1, PlainsGain DEF AllKinds, Loops
<1>21. NoElses(code, f2)
  BY <1>20 DEF Plains, PlainAt, NoElses, HasElse
<1>22. Final(code, f2)
  BY <1>2, <1>8, <1>13, <1>19, <1>21 DEF Final, Midway
<1> QED  BY <1>1, <1>7, <1>22 DEF f2

-----------------------------------------------------------------------------
(* The theorem.                                                              *)

(* A step of the splitter keeps the order.                                   *)
LEMMA SplitKnown ==
    ASSUME Fresh, Split
    PROVE  \/ Writes' /\ phase' = phase
           \/ Final(code', segs') /\ phase' = "run" /\ run' = run
           \/ phase' = "refused"
<1>1. CASE New
  BY <1>1, NewKnown DEF New, Write
<1>2. CASE Use
  BY <1>2, UseKnown DEF Use, Write
<1>3. CASE Move
  BY <1>3, MoveKnown DEF Move, Write
<1>4. CASE Spawn
  BY <1>4, SpawnKnown DEF Spawn, Write
<1>5. CASE Suspend
  BY <1>5, SuspendKnown DEF Suspend, Write
<1>6. CASE Return
  BY <1>6, ReturnKnown DEF Return, Write
<1>7. CASE BreakOrContinue
  <2>1. phase = "body" /\ (phase' = phase \/ phase' = "refused")
    BY <1>7 DEF BreakOrContinue, Write, Writing
  <2> QED BY <2>1, <1>7, BreakOrContinueKnown
<1>8. CASE OpenPlain
  BY <1>8, OpenPlainKnown DEF OpenPlain, Open, Write
<1>9. CASE OpenSplit
  BY <1>9, OpenSplitKnown DEF OpenSplit, Open, Write
<1>10. CASE Else
  BY <1>10, ElseKnown DEF Else
<1>11. CASE ClosePlain
  BY <1>11, ClosePlainKnown DEF ClosePlain
<1>12. CASE CloseSplit
  BY <1>12, CloseSplitKnown DEF CloseSplit
<1>13. CASE Finish
  BY <1>13, FinishKnown DEF Finish
<1> QED BY <1>1, <1>2, <1>3, <1>4, <1>5, <1>6, <1>7, <1>8, <1>9, <1>10, <1>11, <1>12,
           <1>13 DEF Split

(* The inductive invariant.                                                  *)
OrderInv ==
    /\ IInv
    /\ phase = "body" => Writes
    /\ phase = "run" => Final(code, segs) /\ OnTrack(run)

LEMMA OrderStarts == ASSUME Init PROVE OrderInv
<1> DEFINE b == [kind |-> "fn", split |-> TRUE, at |-> 0, open |-> 0, head |-> 0,
                 alt |-> 0, next |-> 0, exited |-> FALSE, binds |-> FALSE]
           bs == <<b>>
           sg == <<<<>>>>
           lab == [k \in 1 .. 1 |-> At(1)]
<1>1. IInv
  BY Starts
<1>2. /\ bodies = bs /\ segs = sg /\ cur = 1 /\ code = <<>> /\ phase = "body"
  BY DEF Init
<1>3. bs[1] = b /\ Len(bs) = 1 /\ b.at = 0 /\ b.split
  OBVIOUS
<1>4. sg \in Seq(Seq(Instr)) /\ DOMAIN sg = {1} /\ sg[1] = <<>> /\ Len(sg) = 1
  OBVIOUS
<1>5. Len(<<>>) = 0 /\ 1 .. 0 = {} /\ 2 .. 1 = {} /\ 1 .. 1 = {1} /\ 0 - 1 = -1 /\ 1 .. -1 = {}
  OBVIOUS
<1> HIDE DEF b, bs, sg
<1>6. lab \in [1 .. Len(sg) -> Label] /\ lab[1] = At(1)
  <2>1. At(1) \in Label
    BY LabelIs
  <2> QED BY <1>4, <2>1
<1> HIDE DEF lab
<1>7. Stack(bs, <<>>)
  <2>1. Opened(bs) = {}
    BY <1>3, <1>5 DEF Opened
  <2>2. Nests(<<>>, {})
    BY <1>5 DEF Nests, OpenersClose, HasClose, ClosesMatch, ElsesMatch, JumpsMatch, Once
  <2>3. Stacked(bs, <<>>)
    <3>1. \A i, j \in 1 .. 1 : ~(i < j)
      OBVIOUS
    <3> QED BY <1>3, <1>5, <3>1 DEF Stacked
  <2> QED BY <2>1, <2>2, <2>3 DEF Stack
<1>8. ExitKnown(bs, sg[1])
  BY <1>4, NotEndedEmpty
<1>9. Knows(bs, <<>>, sg, 1, lab, 1)
  <2>1. AllGood(sg)
    BY <1>4 DEF AllGood, Good
  <2>2. \A k \in 1 .. Len(sg) : k = 1 /\ sg[k] = <<>> /\ 1 .. Len(sg[k]) = {} /\ 1 .. Len(sg[k]) - 1 = {}
    BY <1>4, <1>5
  <2>3. Traced(<<>>, sg, lab)
    BY <2>2 DEF Traced, Tells
  <2>4. Past(<<>>, sg) /\ Plains(bs, <<>>, sg)
    BY <2>2 DEF Past, Plains
  <2>5. Ahead(<<>>, sg[1], lab[1], 1)
    BY <1>4, <1>6, AtAhead
  <2>6. Owes(bs, <<>>, sg[1], lab)
    BY <1>3, <1>5 DEF Owes
  <2> QED BY <1>4, <1>5, <1>6, <2>1, <2>3, <2>4, <2>5, <2>6 DEF Knows, Midway
<1>10. Writes
  BY <1>2, <1>5, <1>7, <1>8, <1>9 DEF Writes, WriteInv
<1> QED BY <1>1, <1>2, <1>10 DEF OrderInv

(* The code does not change while it runs.                                   *)
LEMMA SettleSame ==
    ASSUME code' = code PROVE \A i : Settle(i)' = Settle(i)
  BY DEF Settle, CloseOf

LEMMA TrackSame ==
    ASSUME code' = code, segs' = segs PROVE OnTrack(run)' <=> OnTrack(run')
  BY SettleSame DEF OnTrack, Unstarted

LEMMA OrderSteps ==
    ASSUME "plain-return" \notin Shapes, OrderInv, [Next]_vars PROVE OrderInv'
<1>1. IInv /\ IInv'
  BY Steps DEF OrderInv
<1>2. CASE Split
  <2>1. phase = "body"
    BY <1>2 DEF Split, New, Use, Move, Spawn, Suspend, Return, BreakOrContinue, OpenPlain,
                OpenSplit, Else, ClosePlain, CloseSplit, Finish, Writing
  <2>2. Fresh /\ Unstarted(run)
    BY <2>1 DEF OrderInv, IInv, Fresh, Ready
  <2>3. \/ Writes' /\ phase' = phase
        \/ Final(code', segs') /\ phase' = "run" /\ run' = run
        \/ phase' = "refused"
    BY <1>2, <2>2, SplitKnown
  <2>4. CASE Writes' /\ phase' = phase
    BY <1>1, <2>1, <2>4 DEF OrderInv
  <2>5. CASE Final(code', segs') /\ phase' = "run" /\ run' = run
    <3>1. OnTrack(run)'
      BY <2>2, <2>5 DEF OnTrack, Unstarted
    <3> QED BY <1>1, <2>5, <3>1 DEF OrderInv
  <2>6. CASE phase' = "refused"
    BY <1>1, <2>6 DEF OrderInv
  <2> QED BY <2>3, <2>4, <2>5, <2>6
<1>3. CASE Execute
  <2>1. phase = "run"
    BY <1>3 DEF Execute, Start, Reads, RunNew, RunSpawn, RunTake, Completes, Blocks, Wake,
                Goto, Branch, PlainOpen, PlainClose, PlainJump, RunReturn, Step
  <2>2. OnCourse
    BY <2>1 DEF OrderInv, IInv, OnCourse, Kept
  <2>3. phase' \in {"run", "refused"} /\ UNCHANGED source
    BY <1>3, <2>1 DEF Execute, Start, Reads, RunNew, RunSpawn, RunTake, Completes, Blocks, Wake,
                Goto, Branch, PlainOpen, PlainClose, PlainJump, RunReturn, Becomes
  <2>4. code' = code /\ segs' = segs
    BY <2>3 DEF source
  <2>5. CASE phase' = "run"
    <3>1. OnTrack(run')
      BY <1>3, <2>2, <2>5, ExecuteTracks
    <3>2. OnTrack(run)'
      BY <2>4, <3>1, TrackSame
    <3>3. Final(code, segs)'
      BY <2>2, <2>4 DEF OnCourse
    <3> QED BY <1>1, <2>5, <3>2, <3>3 DEF OrderInv
  <2>6. CASE phase' = "refused"
    BY <1>1, <2>6 DEF OrderInv
  <2> QED BY <2>3, <2>5, <2>6
<1>4. CASE UNCHANGED vars
  <2>1. UNCHANGED <<phase, code, bodies, segs, cur, run>>
    BY <1>4 DEF vars, source
  <2>2. Writes => Writes'
    BY <2>1 DEF Writes
  <2>3. OnTrack(run) => OnTrack(run)'
    BY <2>1, TrackSame DEF OnTrack, Unstarted
  <2>4. Final(code, segs) => Final(code, segs)'
    BY <2>1
  <2> QED BY <1>1, <2>1, <2>2, <2>3, <2>4 DEF OrderInv
<1> QED BY <1>2, <1>3, <1>4 DEF Next

(* A run carries out the statements of its source in the source's order, for *)
(* goroutines of any length and nesting and any choice of what blocks: the   *)
(* segments that emitSeq, emitIf, emitWhile and suspendHere cut, the         *)
(* transfers between them and the dispatcher of rewrite take a run from each *)
(* statement to the one the source comes to next.  The hypothesis leaves out *)
(* a return in a body that is copied, which emitPlainInner (1997-2000) does  *)
(* not rewrite.                                                              *)
THEOREM RunsInOrder ==
    ASSUME "plain-return" \notin Shapes PROVE Spec => []SourceOrder
<1>1. Init => OrderInv
  BY OrderStarts
<1>2. OrderInv /\ [Next]_vars => OrderInv'
  BY OrderSteps
<1>3. OrderInv => SourceOrder
  <2> SUFFICES ASSUME OrderInv PROVE SourceOrder
    OBVIOUS
  <2>1. CASE phase = "run"
    <3>1. OnCourse
      BY <2>1 DEF OrderInv, IInv, OnCourse, Kept
    <3> QED BY <2>1, <3>1, TracksInOrder
  <2>2. CASE phase # "run"
    BY <2>2 DEF SourceOrder, InSegment
  <2> QED BY <2>1, <2>2
<1> QED BY <1>1, <1>2, <1>3, PTL DEF Spec

=============================================================================
