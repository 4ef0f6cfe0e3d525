-------------------------- MODULE CoopValueProofs --------------------------
(* The proofs that the state of CoopTask has its types and that what a run   *)
(* reads are the values of its source, for goroutines of any length and any  *)
(* nesting.                                                                  *)
(*                                                                           *)
(* Values are in three places: registers, frame and source. What the frame   *)
(* holds of a name is right unless the segment may have set it (MaySet),     *)
(* which is read off the copied bodies around an instruction; so segments    *)
(* are tidy (Tidy): bodies nest, jumps stay in their loops, none moves what  *)
(* it assigns.                                                               *)
EXTENDS CoopTaskProofs

-----------------------------------------------------------------------------
(* Types.  The compiler's liveness is a loop until nothing changes; Live is  *)
(* its fixed point, and that there is one has to be shown before anything is *)
(* known of the fields of the frame: the names live before each statement    *)
(* only grow, from none, and there are finitely many.                        *)

(* Every assignment, read and wait has a name.                               *)
Named(cd) == \A i \in 1 .. Len(cd) : cd[i].op \in {"new", "use", "move", "wait"} => cd[i].name \in Names

Lives == [DOMAIN code -> SUBSET Names]

(* What the recursive function in Live maps its argument to,                 *)
LiveBehind(live, i) == UNION {live[j] : j \in LiveNext(i) \cap DOMAIN code}
Flow(live) == [i \in DOMAIN code |-> Uses(i) \cup (LiveBehind(live, i) \ Defs(i))]

(* and what it comes to from live, in any number of steps.                   *)
Steady(s) == \A live \in s : Flow(live) \in s
Reach(x)  == {y \in Lives : \A s \in SUBSET Lives : x \in s /\ Steady(s) => y \in s}
Fixed(x)  == {y \in Reach(x) : Flow(y) = y}

LEMMA FlowTyped ==
    ASSUME code \in Seq(Stmt), Named(code), NEW x \in Lives PROVE Flow(x) \in Lives
<1>1. ASSUME NEW i \in DOMAIN code PROVE Uses(i) \cup (LiveBehind(x, i) \ Defs(i)) \in SUBSET Names
  <2>1. Uses(i) \in SUBSET Names
    BY DEF Uses, Named
  <2>2. LiveBehind(x, i) \in SUBSET Names
    BY DEF LiveBehind, Lives
  <2> QED  BY <2>1, <2>2
<1> QED  BY <1>1 DEF Flow, Lives

LEMMA FlowGrows ==
    ASSUME NEW x \in Lives, NEW y \in Lives, NEW i \in DOMAIN code,
           \A j \in DOMAIN code : x[j] \subseteq y[j]
    PROVE  Flow(x)[i] \subseteq Flow(y)[i]
<1>1. LiveBehind(x, i) \subseteq LiveBehind(y, i)
  BY DEF LiveBehind
<1> QED  BY <1>1 DEF Flow

LEMMA ReachSelf == ASSUME NEW x \in Lives PROVE x \in Reach(x)
  BY DEF Reach

LEMMA ReachOn ==
    ASSUME code \in Seq(Stmt), Named(code), NEW x \in Lives, NEW y \in Reach(x)
    PROVE  y \in Lives /\ Flow(y) \in Reach(x)
<1>1. y \in Lives /\ Flow(y) \in Lives
  BY FlowTyped DEF Reach
<1>2. ASSUME NEW s \in SUBSET Lives, x \in s, Steady(s) PROVE Flow(y) \in s
  BY <1>2 DEF Reach, Steady
<1> QED  BY <1>1, <1>2 DEF Reach

(* A fixed point is where it is; otherwise the fixed points are the next     *)
(* step's.                                                                   *)
LEMMA FixedHere ==
    ASSUME NEW x \in Lives, Flow(x) = x PROVE Fixed(x) = {x}
<1>1. {x} \in SUBSET Lives /\ Steady({x})
  BY DEF Steady
<1>2. ASSUME NEW y \in Reach(x) PROVE y = x
  BY <1>1 DEF Reach
<1> QED  BY <1>2, ReachSelf DEF Fixed

LEMMA FixedOn ==
    ASSUME code \in Seq(Stmt), Named(code), NEW x \in Lives, Flow(x) # x
    PROVE  Fixed(Flow(x)) = Fixed(x)
<1>0. Flow(x) \in Lives
  BY FlowTyped
<1>1. ASSUME NEW y \in Reach(Flow(x)) PROVE y \in Reach(x)
  <2>1. ASSUME NEW s \in SUBSET Lives, x \in s, Steady(s) PROVE y \in s
    <3>1. Flow(x) \in s
      BY <2>1 DEF Steady
    <3> QED  BY <2>1, <3>1 DEF Reach
  <2> QED  BY <2>1 DEF Reach
<1>2. ASSUME NEW y \in Reach(x), y # x PROVE y \in Reach(Flow(x))
  <2>1. ASSUME NEW s \in SUBSET Lives, Flow(x) \in s, Steady(s) PROVE y \in s
    <3>1. s \cup {x} \in SUBSET Lives /\ Steady(s \cup {x})
      BY <2>1 DEF Steady
    <3>2. y \in s \cup {x}
      BY <3>1 DEF Reach
    <3> QED  BY <1>2, <3>2
  <2> QED  BY <2>1 DEF Reach
<1> QED  BY <1>1, <1>2 DEF Fixed

(* The pairs of a statement and a name live before it.                       *)
Pairs(x) == {p \in (DOMAIN code) \X Names : p[2] \in x[p[1]]}

LEMMA PairsFinite ==
    ASSUME code \in Seq(Stmt)
    PROVE  IsFiniteSet((DOMAIN code) \X Names)
<1>1. IsFiniteSet({}) /\ IsFiniteSet({"x"})
  BY FS_EmptySet, FS_Singleton
<1>2. IsFiniteSet({"x"} \cup {"chan"})
  BY <1>1, FS_AddElement
<1>3. IsFiniteSet(({"x"} \cup {"chan"}) \cup {"closed"})
  BY <1>2, FS_AddElement
<1>4. IsFiniteSet((({"x"} \cup {"chan"}) \cup {"closed"}) \cup {"rc"})
  BY <1>3, FS_AddElement
<1>5. Names = (({"x"} \cup {"chan"}) \cup {"closed"}) \cup {"rc"}
  BY DEF Names, Locals
<1>6. DOMAIN code = 1 .. Len(code) /\ Len(code) \in Int /\ 1 \in Int
  OBVIOUS
<1>7. IsFiniteSet(1 .. Len(code))
  BY <1>6, FS_Interval
<1> QED  BY <1>4, <1>5, <1>6, <1>7, FS_Product

(* Nothing that is live is dropped on the way from nothing,                  *)
LEMMA ReachRises ==
    ASSUME code \in Seq(Stmt), Named(code), NEW x \in Lives, \A i \in DOMAIN code : x[i] = {},
           NEW y \in Reach(x)
    PROVE  \A i \in DOMAIN code : y[i] \subseteq Flow(y)[i]
<1> DEFINE s == {z \in Lives : \A i \in DOMAIN code : z[i] \subseteq Flow(z)[i]}
<1>1. s \in SUBSET Lives /\ x \in s
  OBVIOUS
<1>2. ASSUME NEW z \in s PROVE Flow(z) \in s
  <2>1. z \in Lives /\ Flow(z) \in Lives
    BY FlowTyped
  <2>2. \A i \in DOMAIN code : Flow(z)[i] \subseteq Flow(Flow(z))[i]
    BY <2>1, FlowGrows
  <2> QED  BY <2>1, <2>2
<1>3. Steady(s)
  BY <1>2 DEF Steady
<1>4. y \in s
  BY <1>1, <1>3 DEF Reach
<1> QED  BY <1>4

(* so a way from nothing has an end.                                         *)
LEMMA FixedFound ==
    ASSUME code \in Seq(Stmt), Named(code), NEW x \in Lives, \A i \in DOMAIN code : x[i] = {}
    PROVE  \E z \in Reach(x) : Flow(z) = z
<1> DEFINE all == (DOMAIN code) \X Names
           top == Cardinality(all)
           T == {n \in Nat : \E y \in Reach(x) : n = top - Cardinality(Pairs(y))}
<1>1. ASSUME NEW y \in Reach(x)
      PROVE  /\ Pairs(y) \in SUBSET all /\ IsFiniteSet(Pairs(y)) /\ Cardinality(Pairs(y)) \in Nat
             /\ top \in Nat /\ Cardinality(Pairs(y)) <= top
  <2>1. Pairs(y) \in SUBSET all
    BY DEF Pairs
  <2>2. IsFiniteSet(all)
    BY PairsFinite
  <2> HIDE DEF all
  <2> QED  BY <2>1, <2>2, FS_Subset, FS_CardinalityType
<1>2. x \in Reach(x)
  BY ReachSelf
<1> HIDE DEF all, top
<1>3. \A y \in Reach(x) : top - Cardinality(Pairs(y)) \in T
  BY <1>1
<1>4. PICK n \in T : \A m \in T : n <= m
  <2>1. T \in SUBSET Nat /\ T # {}
    BY <1>2, <1>3
  <2> HIDE DEF T
  <2> QED  BY <2>1, LeastNumber
<1>5. PICK y \in Reach(x) : n = top - Cardinality(Pairs(y))
  BY <1>4
<1> HIDE DEF T
<1>6. ASSUME Flow(y) # y PROVE FALSE
  <2>1. y \in Lives /\ Flow(y) \in Reach(x) /\ Flow(y) \in Lives
    BY ReachOn, FlowTyped
  <2>2. \A i \in DOMAIN code : y[i] \subseteq Flow(y)[i]
    BY ReachRises
  <2>3. Pairs(y) \subseteq Pairs(Flow(y))
    BY <2>2 DEF Pairs
  <2>4. PICK i \in DOMAIN code : y[i] # Flow(y)[i]
    BY <1>6, <2>1 DEF Lives
  <2>5. PICK name \in Names : name \in Flow(y)[i] /\ name \notin y[i]
    BY <2>1, <2>2, <2>4 DEF Lives
  <2>6. <<i, name>> \in Pairs(Flow(y)) /\ <<i, name>> \notin Pairs(y)
    BY <2>5 DEF Pairs
  <2>7. Cardinality(Pairs(y)) # Cardinality(Pairs(Flow(y)))
    BY <1>1, <2>1, <2>3, <2>6, FS_Subset
  <2>8. Cardinality(Pairs(y)) <= Cardinality(Pairs(Flow(y)))
    BY <1>1, <2>1, <2>3, FS_Subset
  <2>9. n <= top - Cardinality(Pairs(Flow(y)))
    BY <1>3, <1>4, <2>1
  <2>10. \A a, b, c \in Nat : a # b /\ a <= b => ~(c - a <= c - b)
    OBVIOUS
  <2> QED  BY <1>1, <1>5, <2>1, <2>7, <2>8, <2>9, <2>10
<1> QED  BY <1>6

(* The recursion has a solution,                                             *)
GrowStep(f, live) == IF Flow(live) = live THEN live ELSE f[Flow(live)]

LEMMA GrowExists ==
    ASSUME code \in Seq(Stmt), Named(code)
    PROVE  \E f : f = [live \in Lives |-> GrowStep(f, live)]
<1> DEFINE g == [live \in Lives |-> CHOOSE y : y \in Fixed(live)]
<1>1. ASSUME NEW x \in Lives PROVE g[x] = GrowStep(g, x)
  <2>1. CASE Flow(x) = x
    <3>1. g[x] = CHOOSE y : y \in {x}
      BY <2>1, FixedHere
    <3>2. g[x] = x
      BY <3>1
    <3> QED  BY <2>1, <3>2 DEF GrowStep
  <2>2. CASE Flow(x) # x
    <3>1. Flow(x) \in Lives /\ Fixed(Flow(x)) = Fixed(x)
      BY <2>2, FlowTyped, FixedOn
    <3>2. g[x] = g[Flow(x)]
      BY <3>1
    <3> QED  BY <2>2, <3>2 DEF GrowStep
  <2> QED  BY <2>1, <2>2
<1>2. g = [live \in Lives |-> GrowStep(g, live)]
  BY <1>1
<1> QED  BY <1>2

(* and every one ends where the way from nothing does.                       *)
LEMMA GrowEnds ==
    ASSUME code \in Seq(Stmt), Named(code), NEW f, f = [live \in Lives |-> GrowStep(f, live)],
           NEW x \in Lives, \A i \in DOMAIN code : x[i] = {}
    PROVE  f[x] \in Lives
<1> DEFINE s == {y \in Lives : f[y] = f[x]}
<1>1. \A y \in Lives : f[y] = GrowStep(f, y)
  OBVIOUS
<1>2. ASSUME NEW y \in s PROVE Flow(y) \in s
  <2>1. y \in Lives /\ Flow(y) \in Lives /\ f[y] = f[x]
    BY FlowTyped
  <2>2. f[Flow(y)] = f[y]
    BY <1>1, <2>1 DEF GrowStep
  <2> QED  BY <2>1, <2>2
<1>3. s \in SUBSET Lives /\ x \in s /\ Steady(s)
  BY <1>2 DEF Steady
<1>4. PICK z \in Reach(x) : Flow(z) = z
  BY FixedFound
<1>5. z \in s
  BY <1>3 DEF Reach
<1>6. f[z] = z
  BY <1>1, <1>4, <1>5 DEF GrowStep
<1> QED  BY <1>5, <1>6

LEMMA LiveTyped ==
    ASSUME code \in Seq(Stmt), Named(code) PROVE Live \in Lives
<1> DEFINE f == CHOOSE g : g = [live \in Lives |-> GrowStep(g, live)]
           x == [i \in DOMAIN code |-> {}]
<1>1. Live = f[x]
  BY DEF Live, GrowStep, Flow, Lives, LiveBehind
<1>2. f = [live \in Lives |-> GrowStep(f, live)]
  BY GrowExists
<1>3. x \in Lives /\ \A i \in DOMAIN code : x[i] = {}
  BY DEF Lives
<1> HIDE DEF f, x
<1> QED  BY <1>1, <1>2, <1>3, GrowEnds

LEMMA WorthyTyped ==
    ASSUME code \in Seq(Stmt), Named(code) PROVE Worthy(Live) \subseteq Names
<1>1. \A j \in DOMAIN code : Live[j] \subseteq Names
  BY LiveTyped DEF Lives
<1>2. \A i \in Blocking : Defs(i) \subseteq Names
  BY DEF Blocking, Defs, Named, Names, Calls
<1> QED  BY <1>1, <1>2 DEF Worthy

-----------------------------------------------------------------------------
(* The types of a run.                                                       *)

(* Instructions made for one of the first m statements, and those of code    *)
(* that is ready to run.                                                     *)
Made(m)  == {i \in Instr : i.src \in 1 .. m}
RunCode(m) == {i \in Instr : i.src \in 1 .. m \/ i.op = "finish" \/ (i.op = "goto" /\ ~i.shown)}

(* All there is to say of a run but where in the code it is.                 *)
Typed(r) ==
    /\ IsRun(r)
    /\ r.regs \in [Names -> Value] /\ r.frame \in [Names -> Value] /\ r.env \in [Names -> Value]
    /\ r.at \in {"segment", "waiting", "stopped"} /\ r.pend \in {0, None}
    /\ r.call \in Calls \cup {""} /\ r.rounds \in 0 .. MaxRounds /\ r.src \in Nat
    /\ r.ends \in {0, 1} /\ (r.at # "stopped" => r.ends = 0)
    /\ r.at # "segment" => r.state \in Nat /\ r.pc \in Nat \ {0}

LEMMA TypedMachine ==
    ASSUME NEW r, NEW sg, Typed(r), sg \in Seq(Seq(Instr)), InCode(r, sg)
    PROVE  r \in Machine
<1>1. r.state \in Nat /\ r.pc \in Nat \ {0}
  <2>1. CASE r.at = "segment"
    <3>1. r.state \in 1 .. Len(sg) /\ sg[r.state] \in Seq(Instr) /\ r.pc \in DOMAIN sg[r.state]
      BY <2>1 DEF InCode
    <3>2. r.pc \in 1 .. Len(sg[r.state])
      BY <3>1
    <3> QED  BY <3>1, <3>2
  <2> QED  BY <2>1 DEF Typed
<1>2. r.ends \in 0 .. 2
  <2>1. r.ends = 0 \/ r.ends = 1
    BY DEF Typed
  <2>2. 0 \in 0 .. 2 /\ 1 \in 0 .. 2
    OBVIOUS
  <2> QED  BY <2>1, <2>2
<1> QED  BY <1>1, <1>2 DEF Typed, IsRun, Machine

(* The code that is ready to run, and the run in it.                         *)
Running ==
    /\ code \in Seq(Stmt) /\ Nests(code, {}) /\ segs \in Seq(Seq(RunCode(Len(code))))
    /\ InCode(run, segs) /\ Typed(run)

LEMMA FollowTyped ==
    ASSUME Running, NEW r, Typed(r), NEW taken \in BOOLEAN, Current.src \in 1 .. Len(code)
    PROVE  Typed(Follow(r, taken)) /\ Follow(r, taken).at = r.at
<1>1. SourceNext(Current.src, taken) \in Nat
  BY SourceNextTyped DEF Running
<1> QED  BY <1>1 DEF Follow, Typed, IsRun

LEMMA WriteBackTyped ==
    ASSUME NEW r, Typed(r), NEW names
    PROVE  Typed(WriteBack(r, names)) /\ WriteBack(r, names).at = r.at /\ WriteBack(r, names).rounds = r.rounds
<1>1. [n \in Names |-> IF n \in names \cap fields THEN r.regs[n] ELSE r.frame[n]] \in [Names -> Value]
  BY DEF Typed
<1> QED  BY <1>1 DEF WriteBack, Typed, IsRun

LEMMA FlushedTyped ==
    ASSUME NEW r, Typed(r)
    PROVE  Typed(Flushed(r)) /\ Flushed(r).at = r.at /\ Flushed(r).rounds = r.rounds
  BY WriteBackTyped DEF Flushed

LEMMA DeliverTyped ==
    ASSUME NEW r, Typed(r), NEW call, NEW bit \in Bit
    PROVE  Typed(Deliver(r, call, bit)) /\ Deliver(r, call, bit).at = r.at
<1>1. 0 \in Value /\ bit \in Value
  BY DEF Value, Bit
<1>2. ASSUME NEW f \in [Names -> Value], NEW n, NEW v \in Value PROVE [f EXCEPT ![n] = v] \in [Names -> Value]
  OBVIOUS
<1> DEFINE e == [r.env EXCEPT !["rc"] = 0]
           e2 == IF call = "recv" THEN [e EXCEPT !["closed"] = bit] ELSE e
           f2 == IF call = "recv" THEN [r.frame EXCEPT !["closed"] = bit] ELSE r.frame
<1>3. e \in [Names -> Value] /\ r.frame \in [Names -> Value]
  BY <1>1, <1>2 DEF Typed
<1> HIDE DEF e
<1>4. e2 \in [Names -> Value] /\ f2 \in [Names -> Value]
  BY <1>1, <1>2, <1>3
<1>5. /\ Deliver(r, call, bit).env = e2 /\ Deliver(r, call, bit).frame = f2
      /\ IsRun(Deliver(r, call, bit))
      /\ Deliver(r, call, bit).regs = r.regs /\ Deliver(r, call, bit).at = r.at
      /\ Deliver(r, call, bit).pend = r.pend /\ Deliver(r, call, bit).call = r.call
      /\ Deliver(r, call, bit).rounds = r.rounds /\ Deliver(r, call, bit).src = r.src
      /\ Deliver(r, call, bit).ends = r.ends /\ Deliver(r, call, bit).state = r.state
      /\ Deliver(r, call, bit).pc = r.pc
  BY <1>3 DEF Deliver, Typed, IsRun, e
<1> HIDE DEF e2, f2
<1> QED  BY <1>4, <1>5 DEF Typed

LEMMA DispatchTyped ==
    ASSUME NEW r, Typed(r), r.ends = 0, NEW id
    PROVE  Typed(Dispatch(r, id)) /\ Dispatch(r, id).rounds = r.rounds /\ Dispatch(r, id).at = "segment"
<1> DEFINE g == [n \in Names |-> IF n \in fields THEN r.frame[n]
                                 ELSE IF id = 1 /\ n \in Locals THEN 0 ELSE None]
<1>1. g \in [Names -> Value]
  BY DEF Typed, Value, Bit, None
<1> HIDE DEF g
<1>2. Dispatch(r, id) = [r EXCEPT !.state = id, !.pc = 1, !.at = "segment", !.regs = g]
  BY DEF Dispatch, g
<1> QED  BY <1>1, <1>2 DEF Typed, IsRun

LEMMA AfterTyped ==
    ASSUME NEW r, Typed(r), r.at = "segment", NEW rc \in Value, NEW to \in Nat
    PROVE  Typed(After(r, rc, to))
<1> DEFINE q == [r EXCEPT !.regs["rc"] = rc]
<1>1. Typed(q) /\ q.at = "segment"
  <2>1. [r.regs EXCEPT !["rc"] = rc] \in [Names -> Value]
    BY DEF Typed
  <2> QED  BY <2>1 DEF Typed, IsRun
<1> HIDE DEF q
<1> DEFINE back == WriteBack(q, Touched(r.pc))
<1>2. Typed(back) /\ back.at = "segment" /\ back.ends = 0
  <2>1. Typed(back) /\ back.at = "segment"
    BY <1>1, WriteBackTyped
  <2> QED  BY <2>1 DEF Typed
<1>3. After(r, rc, to) = IF Verdict(rc) = 1 THEN [back EXCEPT !.state = to, !.pc = 1, !.at = "waiting"]
                         ELSE Dispatch(back, to)
  BY DEF After, q
<1> HIDE DEF back
<1>4. Typed([back EXCEPT !.state = to, !.pc = 1, !.at = "waiting"])
  <2> DEFINE q2 == [back EXCEPT !.state = to, !.pc = 1, !.at = "waiting"]
  <2>1. /\ IsRun(q2) /\ q2.state = to /\ q2.pc = 1 /\ q2.at = "waiting" /\ q2.regs = back.regs
        /\ q2.frame = back.frame /\ q2.env = back.env /\ q2.pend = back.pend /\ q2.call = back.call
        /\ q2.rounds = back.rounds /\ q2.src = back.src /\ q2.ends = back.ends
    BY <1>2 DEF Typed, IsRun
  <2> HIDE DEF q2
  <2>2. 1 \in Nat \ {0}
    OBVIOUS
  <2>3. Typed(q2)
    BY <1>2, <2>1, <2>2 DEF Typed
  <2> QED  BY <2>3 DEF q2
<1> QED  BY <1>2, <1>3, <1>4, DispatchTyped

(* The instruction at hand.                                                  *)
LEMMA CurrentTyped ==
    ASSUME Running, run.at = "segment"
    PROVE  Current \in RunCode(Len(code)) /\ run.ends = 0 /\ run.pc \in Nat \ {0}
           /\ (Current.op \notin {"finish", "goto"} => Current.src \in 1 .. Len(code))
           /\ (Current.op = "goto" /\ Current.shown => Current.src \in 1 .. Len(code))
<1> DEFINE T == RunCode(Len(code))
<1>1. run.state \in DOMAIN segs /\ run.pc \in DOMAIN segs[run.state] /\ segs \in Seq(Seq(T))
  BY DEF Running, InCode
<1>2. Current \in T /\ run.pc \in Nat \ {0}
  <2> HIDE DEF T
  <2>1. segs[run.state] \in Seq(T)
    BY <1>1
  <2>2. run.pc \in 1 .. Len(segs[run.state])
    BY <1>1, <2>1
  <2> QED  BY <2>1, <2>2 DEF Current, Segment
<1> QED  BY <1>2 DEF Running, Typed, RunCode

(* A step of a run keeps its types.                                          *)
Moves == \E q : Becomes(q) /\ Typed(q)

LEMMA StartTypes ==
    ASSUME Running, Start PROVE Moves
<1> DEFINE d == Dispatch(run, 1)
           q == [d EXCEPT !.src = Settle(1)]
<1>1. Becomes(q) /\ run.src = 0
  BY DEF Start
<1>2. run.ends = 0 /\ Typed(run)
  BY <1>1 DEF Running, InCode, Typed
<1>3. Typed(d) /\ d.at = "segment"
  BY <1>2, DispatchTyped
<1>4. Settle(1) \in Nat
  <2>1. 1 \in 1 .. Len(code) + 1 /\ 1 .. Len(code) + 1 \subseteq Nat
    BY DEF Running
  <2> QED  BY <2>1, SettleTyped DEF Running
<1> HIDE DEF d
<1>5. Typed(q)
  BY <1>3, <1>4 DEF Typed, IsRun
<1> QED  BY <1>1, <1>5 DEF Moves

(* A register gets a value, then the next instruction.                       *)
LEMMA StepTypes ==
    ASSUME NEW r, Typed(r), r.at = "segment", NEW pc
    PROVE  Typed([r EXCEPT !.pc = pc]) /\ [r EXCEPT !.pc = pc].at = "segment"
           /\ [r EXCEPT !.pc = pc].rounds = r.rounds
  BY DEF Typed, IsRun

LEMMA SetTypes ==
    ASSUME NEW r, Typed(r), NEW name, NEW v \in Value
    PROVE  /\ Typed([r EXCEPT !.env[name] = v]) /\ [r EXCEPT !.env[name] = v].at = r.at
           /\ Typed([r EXCEPT !.regs[name] = v]) /\ [r EXCEPT !.regs[name] = v].at = r.at
<1>1. ASSUME NEW f \in [Names -> Value] PROVE [f EXCEPT ![name] = v] \in [Names -> Value]
  OBVIOUS
<1>2. [r.env EXCEPT ![name] = v] \in [Names -> Value] /\ [r.regs EXCEPT ![name] = v] \in [Names -> Value]
  BY <1>1 DEF Typed
<1> QED  BY <1>2 DEF Typed, IsRun

LEMMA RoundTypes ==
    ASSUME NEW r, Typed(r), NEW taken, Entering(taken) => r.rounds > 0
    PROVE  LET q == [r EXCEPT !.rounds = IF Entering(taken) THEN @ - 1 ELSE @] IN
           Typed(q) /\ q.at = r.at
<1>1. (IF Entering(taken) THEN r.rounds - 1 ELSE r.rounds) \in 0 .. MaxRounds
  <2>1. r.rounds \in 0 .. MaxRounds /\ MaxRounds \in Nat
    BY CoopAssumption DEF Typed
  <2> QED  BY <2>1
<1> QED  BY <1>1 DEF Typed, IsRun

LEMMA ReadsTypes ==
    ASSUME Running, Reads PROVE Moves \/ UNCHANGED <<source, run>>
<1>1. CASE UNCHANGED <<source, run>>
  BY <1>1
<1>2. CASE ~UNCHANGED <<source, run>>
  <2> DEFINE name == Current.name
             a == [Flushed(run) EXCEPT !.pc = @ + 1]
             v == IF Current.op = "move" THEN None ELSE Flushed(run).env[name]
             b == [Flushed(run) EXCEPT !.pc = @ + 1,
                      !.env[name] = IF Current.op = "move" THEN None ELSE @]
  <2>1. run.at = "segment" /\ Current.op \in {"use", "move"} /\ Becomes(Follow(b, TRUE))
    BY <1>2 DEF Reads, Step
  <2>2. Current.src \in 1 .. Len(code) /\ Typed(run)
    BY <2>1, CurrentTyped DEF Running
  <2>3. Typed(Flushed(run)) /\ Flushed(run).at = "segment"
    BY <2>1, <2>2, FlushedTyped
  <2>4. Typed(a) /\ a.at = "segment"
    BY <2>3, StepTypes
  <2>5. /\ Flushed(run).env \in [Names -> Value] /\ IsRun(Flushed(run))
    BY <2>3 DEF Typed
  <2>6. [Flushed(run).env EXCEPT ![name] = IF Current.op = "move" THEN None ELSE @] \in [Names -> Value]
    <3>1. None \in Value
      BY DEF Value
    <3> QED  BY <2>5, <3>1
  <2>7. Typed(b)
    BY <2>3, <2>6 DEF Typed, IsRun
  <2> HIDE DEF b
  <2> QED  BY <2>1, <2>2, <2>7, FollowTyped DEF Moves
<1> QED  BY <1>1, <1>2

LEMMA RunNewTypes ==
    ASSUME Running, RunNew PROVE Moves
<1> DEFINE value == IF Current.shown THEN Other(Current.name) ELSE 0
           a == [run EXCEPT !.pc = @ + 1, !.regs[Current.name] = value]
           b == [a EXCEPT !.env[Current.name] = value]
<1>1. run.at = "segment" /\ Current.op = "new" /\ Becomes(IF Current.shown THEN Follow(b, TRUE) ELSE a)
  BY DEF RunNew, Step
<1>2. Current.src \in 1 .. Len(code) /\ Typed(run)
  BY <1>1, CurrentTyped DEF Running
<1>3. value \in Value
  BY DEF Other, Value, Bit
<1> HIDE DEF value
<1>4. Typed(a)
  <2>1. [run.regs EXCEPT ![Current.name] = value] \in [Names -> Value]
    BY <1>2, <1>3 DEF Typed
  <2> QED  BY <1>1, <1>2, <2>1 DEF Typed, IsRun
<1> HIDE DEF a
<1>5. Typed(b)
  BY <1>3, <1>4, SetTypes
<1> HIDE DEF b
<1>6. Typed(Follow(b, TRUE))
  BY <1>2, <1>5, FollowTyped
<1> QED  BY <1>1, <1>4, <1>6 DEF Moves

LEMMA RunSpawnTypes ==
    ASSUME Running, RunSpawn PROVE Moves
<1> DEFINE a == [run EXCEPT !.pc = @ + 1]
<1>1. run.at = "segment" /\ Current.op = "spawn" /\ Becomes(Follow(a, TRUE))
  BY DEF RunSpawn, Step
<1>2. Current.src \in 1 .. Len(code) /\ Typed(run)
  BY <1>1, CurrentTyped DEF Running
<1>3. Typed(a)
  BY <1>1, <1>2, StepTypes
<1> HIDE DEF a
<1> QED  BY <1>1, <1>2, <1>3, FollowTyped DEF Moves

LEMMA RunTakeTypes ==
    ASSUME Running, RunTake PROVE Moves
<1> DEFINE a == [run EXCEPT !.pc = @ + 1, !.pend = None,
                            !.regs["rc"] = IF run.pend = None THEN @ ELSE run.pend]
<1>1. run.at = "segment" /\ Becomes(a) /\ Typed(run)
  BY DEF RunTake, Step, Running
<1>2. [run.regs EXCEPT !["rc"] = IF run.pend = None THEN @ ELSE run.pend] \in [Names -> Value]
  <2>1. run.pend = None \/ run.pend \in Value
    BY <1>1 DEF Typed, Value, Bit
  <2> QED  BY <1>1, <2>1 DEF Typed
<1>3. Typed(a)
  BY <1>1, <1>2 DEF Typed, IsRun
<1> QED  BY <1>1, <1>3 DEF Moves

LEMMA CompletesTypes ==
    ASSUME Running, Completes PROVE Moves
<1>1. PICK bit \in Bit :
        /\ run.at = "segment" /\ Current.op \in Calls
        /\ Becomes(Follow(After(Deliver(run, Current.op, bit), 0, Current.to), TRUE))
  BY DEF Completes, Step
<1>2. Current.src \in 1 .. Len(code) /\ Typed(run) /\ Current.to \in Nat
  BY <1>1, CurrentTyped DEF Running, Calls, RunCode, Instr
<1> DEFINE d == Deliver(run, Current.op, bit)
           a == After(d, 0, Current.to)
<1>3. Typed(d) /\ d.at = "segment"
  BY <1>1, <1>2, DeliverTyped
<1> HIDE DEF d
<1>4. Typed(a)
  BY <1>2, <1>3, AfterTyped DEF Value, Bit
<1> HIDE DEF a
<1>5. Typed(Follow(a, TRUE))
  BY <1>2, <1>4, FollowTyped
<1> QED  BY <1>1, <1>5 DEF Moves, a, d

LEMMA BlocksTypes ==
    ASSUME Running, Blocks PROVE Moves
<1> DEFINE a == After(run, Blocked, Current.to)
           b == [a EXCEPT !.call = Current.op]
<1>1. run.at = "segment" /\ Current.op \in Calls /\ Becomes(Follow(b, TRUE))
  BY DEF Blocks, Step
<1>2. Current.src \in 1 .. Len(code) /\ Typed(run) /\ Current.to \in Nat
  BY <1>1, CurrentTyped DEF Running, Calls, RunCode, Instr
<1>3. Typed(a)
  BY <1>1, <1>2, AfterTyped DEF Value, Blocked
<1> HIDE DEF a
<1>4. Typed(b)
  BY <1>1, <1>3 DEF Typed, IsRun
<1> HIDE DEF b
<1> QED  BY <1>1, <1>2, <1>4, FollowTyped DEF Moves

LEMMA WakeTypes ==
    ASSUME Running, Wake PROVE Moves
<1>1. PICK bit \in Bit :
        /\ run.at = "waiting"
        /\ Becomes(Dispatch([Deliver(run, run.call, bit) EXCEPT !.pend = 0, !.call = ""], run.state))
  BY DEF Wake
<1> DEFINE d == Deliver(run, run.call, bit)
           e == [d EXCEPT !.pend = 0, !.call = ""]
<1>2. Typed(d) /\ d.at = "waiting"
  BY <1>1, DeliverTyped DEF Running
<1> HIDE DEF d
<1>3. Typed(e) /\ e.at = "waiting" /\ e.ends = 0
  BY <1>2 DEF Typed, IsRun
<1> HIDE DEF e
<1>4. Typed(Dispatch(e, run.state))
  BY <1>3, DispatchTyped
<1> QED  BY <1>1, <1>4 DEF Moves, e, d

LEMMA GotoTypes ==
    ASSUME Running, Goto PROVE Moves
<1> DEFINE w == WriteBack(run, Touched(run.pc))
           there == Dispatch(w, Current.to)
<1>1. /\ run.at = "segment" /\ Current.op = "goto"
      /\ Becomes(IF Current.shown THEN Follow(there, TRUE) ELSE there)
  BY DEF Goto, Step
<1>2. (Current.shown => Current.src \in 1 .. Len(code)) /\ Typed(run)
  BY <1>1, CurrentTyped DEF Running
<1>3. Typed(w) /\ w.at = "segment" /\ w.ends = 0
  <2>1. Typed(w) /\ w.at = "segment"
    BY <1>1, <1>2, WriteBackTyped
  <2> QED  BY <2>1 DEF Typed
<1> HIDE DEF w
<1>4. Typed(there)
  BY <1>3, DispatchTyped
<1> HIDE DEF there
<1> QED  BY <1>1, <1>2, <1>4, FollowTyped DEF Moves

LEMMA BranchTypes ==
    ASSUME Running, Branch PROVE Moves
<1> DEFINE w == WriteBack(run, Touched(run.pc))
           d(taken) == Dispatch(w, IF taken THEN Current.to ELSE Current.other)
           e(taken) == [d(taken) EXCEPT !.rounds = IF Entering(taken) THEN @ - 1 ELSE @]
<1>1. PICK taken \in BOOLEAN :
        /\ run.at = "segment" /\ Current.op = "branch"
        /\ Entering(taken) => run.rounds > 0
        /\ Becomes(Follow(e(taken), taken))
  BY DEF Branch, Step
<1>2. Current.src \in 1 .. Len(code) /\ Typed(run)
  BY <1>1, CurrentTyped DEF Running
<1>3. Typed(w) /\ w.at = "segment" /\ w.ends = 0 /\ w.rounds = run.rounds
  <2>1. Typed(w) /\ w.at = "segment" /\ w.rounds = run.rounds
    BY <1>1, <1>2, WriteBackTyped
  <2> QED  BY <2>1 DEF Typed
<1> HIDE DEF w
<1>4. Typed(d(taken)) /\ d(taken).rounds = run.rounds
  BY <1>3, DispatchTyped
<1> HIDE DEF d
<1>5. Typed(e(taken))
  BY <1>1, <1>4, RoundTypes
<1> HIDE DEF e
<1>6. Typed(Follow(e(taken), taken))
  BY <1>2, <1>5, FollowTyped
<1> QED  BY <1>1, <1>6 DEF Moves

LEMMA PlainOpenTypes ==
    ASSUME Running, PlainOpen PROVE Moves
<1> DEFINE f == Flushed(run)
           there(taken) == [f EXCEPT !.pc = IF taken THEN @ + 1 ELSE CloseIn(Segment, @) + 1]
           e(taken) == [there(taken) EXCEPT !.rounds = IF Entering(taken) THEN @ - 1 ELSE @]
<1>1. PICK taken \in BOOLEAN :
        /\ run.at = "segment" /\ Current.op \in AllKinds
        /\ Current.op # "block" /\ Entering(taken) => run.rounds > 0
        /\ Becomes(IF Current.op = "block" THEN there(taken) ELSE Follow(e(taken), taken))
  BY DEF PlainOpen, Step
<1>2. Current.src \in 1 .. Len(code) /\ Typed(run)
  BY <1>1, CurrentTyped DEF Running, AllKinds, Loops
<1>3. Typed(f) /\ f.at = "segment" /\ f.rounds = run.rounds
  BY <1>1, <1>2, FlushedTyped
<1> HIDE DEF f
<1>4. Typed(there(taken)) /\ there(taken).rounds = run.rounds
  BY <1>3, StepTypes
<1> HIDE DEF there
<1>5. CASE Current.op = "block"
  BY <1>1, <1>4, <1>5 DEF Moves
<1>6. CASE Current.op # "block"
  <2>1. Typed(e(taken))
    BY <1>1, <1>4, <1>6, RoundTypes
  <2> HIDE DEF e
  <2>2. Typed(Follow(e(taken), taken))
    BY <1>2, <2>1, FollowTyped
  <2> QED  BY <1>1, <1>6, <2>2 DEF Moves
<1> QED  BY <1>5, <1>6

LEMMA PlainCloseTypes ==
    ASSUME Running, PlainClose PROVE Moves
<1>1. /\ run.at = "segment" /\ Typed(run)
      /\ \E pc : Becomes([run EXCEPT !.pc = pc])
  BY DEF PlainClose, Step, Running
<1> QED  BY <1>1, StepTypes DEF Moves

LEMMA PlainJumpTypes ==
    ASSUME Running, PlainJump PROVE Moves
<1>1. PICK pc : /\ run.at = "segment" /\ Current.op \in Jumps
                /\ Becomes(Follow([run EXCEPT !.pc = pc], TRUE))
  BY DEF PlainJump, Step
<1>2. Current.src \in 1 .. Len(code) /\ Typed(run)
  BY <1>1, CurrentTyped DEF Running, Jumps
<1> DEFINE q == [run EXCEPT !.pc = pc]
<1>3. Typed(q)
  BY <1>1, <1>2, StepTypes
<1> HIDE DEF q
<1>4. Typed(Follow(q, TRUE))
  BY <1>2, <1>3, FollowTyped
<1> QED  BY <1>1, <1>4 DEF Moves, q

LEMMA RunReturnTypes ==
    ASSUME Running, RunReturn PROVE Moves
<1> DEFINE ended == [run EXCEPT !.ends = IF Current.op = "finish" THEN @ + 1 ELSE @,
                                !.src = Len(code) + 1]
<1>1. PICK verdict \in Bit :
        /\ run.at = "segment" /\ Current.op \in {"finish", "return"}
        /\ Current.op = "finish" => verdict = 1
        /\ Becomes(IF verdict = 1 THEN [ended EXCEPT !.at = "stopped"] ELSE Dispatch(ended, run.state))
  BY DEF RunReturn, Step
<1>2. Typed(run) /\ run.ends = 0 /\ Len(code) + 1 \in Nat /\ run.pc \in Nat \ {0} /\ run.state \in Nat
  <2>1. Typed(run) /\ run.ends = 0 /\ run.pc \in Nat \ {0}
    BY <1>1, CurrentTyped DEF Running
  <2>2. Len(code) + 1 \in Nat
    BY DEF Running
  <2>3. run.state \in Nat
    <3>1. segs \in Seq(Seq(RunCode(Len(code)))) /\ run.state \in DOMAIN segs
      BY <1>1 DEF Running, InCode
    <3> QED  BY <3>1
  <2> QED  BY <2>1, <2>2, <2>3
<1>3. CASE verdict = 1
  <2> DEFINE q == [ended EXCEPT !.at = "stopped"]
  <2>1. /\ IsRun(q) /\ q.at = "stopped" /\ q.state = run.state /\ q.pc = run.pc /\ q.regs = run.regs
        /\ q.frame = run.frame /\ q.env = run.env /\ q.pend = run.pend /\ q.call = run.call
        /\ q.rounds = run.rounds /\ q.src = Len(code) + 1
        /\ q.ends = IF Current.op = "finish" THEN run.ends + 1 ELSE run.ends
    BY <1>2 DEF Typed, IsRun
  <2> HIDE DEF q
  <2>2. q.ends \in {0, 1}
    BY <1>2, <2>1
  <2>3. Typed(q)
    BY <1>2, <2>1, <2>2 DEF Typed
  <2> QED  BY <1>1, <1>3, <2>3 DEF Moves, q
<1>4. CASE verdict # 1
  <2>1. Typed(ended) /\ ended.ends = 0
    BY <1>1, <1>2, <1>4 DEF Typed, IsRun
  <2> HIDE DEF ended
  <2>2. Typed(Dispatch(ended, run.state))
    BY <2>1, DispatchTyped
  <2> QED  BY <1>1, <1>4, <2>2 DEF Moves
<1> QED  BY <1>3, <1>4

LEMMA ExecuteTypes ==
    ASSUME Running, Execute PROVE Moves \/ UNCHANGED <<source, run>>
  BY StartTypes, ReadsTypes, RunNewTypes, RunSpawnTypes, RunTakeTypes, CompletesTypes, BlocksTypes, WakeTypes,
     GotoTypes, BranchTypes, PlainOpenTypes, PlainCloseTypes, PlainJumpTypes, RunReturnTypes DEF Execute

-----------------------------------------------------------------------------
(* The types of what is written.                                             *)

LEMMA SeqMore == ASSUME NEW A, NEW B, A \subseteq B, NEW s \in Seq(A) PROVE s \in Seq(B)
  OBVIOUS

LEMMA SeqsMore ==
    ASSUME NEW A, NEW B, A \subseteq B, NEW s \in Seq(Seq(A)) PROVE s \in Seq(Seq(B))
<1>1. Seq(A) \subseteq Seq(B)
  BY SeqMore
<1> DEFINE a == Seq(A)
           b == Seq(B)
<1>2. a \subseteq b /\ s \in Seq(a)
  BY <1>1
<1> HIDE DEF a, b
<1>3. s \in Seq(b)
  BY <1>2, SeqMore
<1> QED  BY <1>3 DEF b

LEMMA GrownSeqs ==
    ASSUME NEW A, NEW s \in Seq(Seq(A)), NEW c \in DOMAIN s, NEW t \in Seq(A)
    PROVE  Grown(s, c, t) \in Seq(Seq(A))
<1> DEFINE a == Seq(A)
<1>0. s \in Seq(a) /\ t \in a
  OBVIOUS
<1>a. s[c] \in a
  <2> HIDE DEF a
  <2> QED  BY <1>0
<1>1. s \in Seq(a) /\ s[c] \o t \in a
  BY <1>0, <1>a
<1> HIDE DEF a
<1>2. ASSUME NEW x \in a PROVE [s EXCEPT ![c] = x] \in Seq(a)
  BY <1>1
<1>3. [s EXCEPT ![c] = s[c] \o t] \in Seq(a)
  BY <1>1, <1>2
<1> QED  BY <1>3 DEF a, Grown

(* What has been written so far: its bodies nest, an if whose else is still  *)
(* to come has none, what needs a name has one, and the instructions are for *)
(* its statements.                                                           *)
Elseless(bs, cd) == \A i \in 1 .. Len(bs) : bs[i].alt # 0 => ~HasElse(cd, bs[i].at)
WriteTypes(bs, cd, sg) ==
    Stack(bs, cd) /\ Elseless(bs, cd) /\ Named(cd) /\ sg \in Seq(Seq(Made(Len(cd))))

NamedStmt(s) == s.op \in {"new", "use", "move", "wait"} => s.name \in Names

LEMMA NamedMore ==
    ASSUME NEW cd, NEW cd2, NEW s, Adds(cd, cd2, s), Named(cd), NamedStmt(s)
    PROVE  Named(cd2)
<1> SUFFICES ASSUME NEW i \in 1 .. Len(cd2) PROVE NamedStmt(cd2[i])
  BY DEF Named, NamedStmt
<1>1. CASE i \in 1 .. Len(cd)
  BY <1>1 DEF Adds, Named, NamedStmt
<1>2. CASE i = Len(cd) + 1
  BY <1>2 DEF Adds
<1> QED  BY <1>1, <1>2, PositionsMore

LEMMA MadeMore ==
    ASSUME NEW m \in Nat, NEW n \in Nat, m <= n, NEW sg \in Seq(Seq(Made(m)))
    PROVE  sg \in Seq(Seq(Made(n)))
<1>1. Made(m) \subseteq Made(n)
  BY DEF Made
<1> QED  BY <1>1, SeqsMore

LEMMA MadeIs ==
    ASSUME NEW m \in Nat, NEW i \in Instr, i.src \in 1 .. m PROVE <<i>> \in Seq(Made(m)) /\ i \in Made(m)
<1>1. i \in Made(m)
  BY DEF Made
<1> QED  BY <1>1

LEMMA ElselessMore ==
    ASSUME NEW bs, NEW bs2, SameAts(bs, bs2), NEW cd, NEW cd2, NEW s, Adds(cd, cd2, s), s.op # "else",
           Elseless(bs, cd)
    PROVE  Elseless(bs2, cd2)
<1> SUFFICES ASSUME NEW i \in 1 .. Len(bs2), bs2[i].alt # 0 PROVE ~HasElse(cd2, bs2[i].at)
  BY DEF Elseless
<1>1. i \in 1 .. Len(bs) /\ bs[i].alt # 0 /\ bs2[i].at = bs[i].at
  BY DEF SameAts
<1> QED  BY <1>1, HasElseMore DEF Elseless

(* One more statement, which opens and closes nothing.                       *)
LEMMA StmtTypes ==
    ASSUME NEW bs, NEW bs2, NEW cd, NEW cd2, NEW s, NEW sg, Len(bs) \in Nat \ {0}, SameAts(bs, bs2),
           Adds(cd, cd2, s), NamedStmt(s), WriteTypes(bs, cd, sg), FitsIn(cd, Opened(bs), s, Opened(bs)),
           s.op = "else" => Elseless(bs2, cd2)
    PROVE  WriteTypes(bs2, cd2, sg)
<1>1. Stacked(bs2, cd2) /\ Opened(bs2) = Opened(bs)
  BY SameStack DEF WriteTypes, Stack
<1>2. Nests(cd2, Opened(bs2))
  BY <1>1, NestsMore DEF WriteTypes, Stack
<1>3. Len(cd) \in Nat /\ Len(cd2) \in Nat /\ Len(cd) <= Len(cd2)
  BY DEF Adds
<1>4. sg \in Seq(Seq(Made(Len(cd2))))
  BY <1>3, MadeMore DEF WriteTypes
<1>5. Elseless(bs2, cd2)
  BY ElselessMore DEF WriteTypes
<1> QED  BY <1>1, <1>2, <1>4, <1>5, NamedMore DEF WriteTypes, Stack

LEMMA PushTypes ==
    ASSUME NEW bs \in Seq(Body), bs # <<>>, NEW b \in Body, NEW cd, NEW cd2, NEW s, Adds(cd, cd2, s),
           s.op = b.kind, b.kind \in AllKinds, b.at = Len(cd) + 1, NEW sg, WriteTypes(bs, cd, sg)
    PROVE  WriteTypes(Append(bs, b), cd2, sg)
<1>1. Stack(Append(bs, b), cd2)
  BY PushStack DEF WriteTypes
<1>2. NamedStmt(s)
  BY DEF NamedStmt, AllKinds, Loops
<1>3. Len(cd) \in Nat /\ Len(cd2) \in Nat /\ Len(cd) <= Len(cd2)
  BY DEF Adds
<1>4. sg \in Seq(Seq(Made(Len(cd2))))
  BY <1>3, MadeMore DEF WriteTypes
<1>5. Elseless(Append(bs, b), cd2)
  <2>0. s.op # "else"
    BY DEF AllKinds, Loops
  <2>1. Elseless(bs, cd2)
    BY <2>0, SameAtsSelf, ElselessMore DEF WriteTypes
  <2>2. ~HasElse(cd2, b.at)
    BY <2>0, NoElseHere DEF WriteTypes, Stack
  <2> DEFINE n == Append(bs, b)
  <2>3. /\ Len(n) = Len(bs) + 1 /\ n[Len(bs) + 1] = b /\ Len(bs) \in Nat /\ \A i \in 1 .. Len(bs) : n[i] = bs[i]
    BY PushIs
  <2> HIDE DEF n
  <2>4. \A i \in 1 .. Len(n) : (i \in 1 .. Len(bs) /\ n[i] = bs[i]) \/ n[i] = b
    BY <2>3
  <2>5. Elseless(n, cd2)
    BY <2>1, <2>2, <2>4 DEF Elseless
  <2> QED  BY <2>5 DEF n
<1> QED  BY <1>1, <1>2, <1>4, <1>5, NamedMore DEF WriteTypes

LEMMA PopTypes ==
    ASSUME NEW bs \in Seq(Body), Len(bs) > 1, NEW cd, NEW cd2, NEW s, Adds(cd, cd2, s),
           s.op = "close", s.at = Last(bs).at, Last(bs).kind \in AllKinds, NEW sg, WriteTypes(bs, cd, sg)
    PROVE  WriteTypes(Front(bs), cd2, sg)
<1>1. Stack(Front(bs), cd2)
  BY PopStack DEF WriteTypes
<1>2. NamedStmt(s)
  BY DEF NamedStmt
<1>3. Len(cd) \in Nat /\ Len(cd2) \in Nat /\ Len(cd) <= Len(cd2)
  BY DEF Adds
<1>4. sg \in Seq(Seq(Made(Len(cd2))))
  BY <1>3, MadeMore DEF WriteTypes
<1>5. Elseless(Front(bs), cd2)
  <2>1. Elseless(bs, cd2)
    BY SameAtsSelf, ElselessMore DEF WriteTypes
  <2>2. \A i \in 1 .. Len(Front(bs)) : i \in 1 .. Len(bs) /\ Front(bs)[i] = bs[i]
    BY PopIs
  <2> QED  BY <2>1, <2>2 DEF Elseless
<1> QED  BY <1>1, <1>2, <1>4, <1>5, NamedMore DEF WriteTypes

(* An instruction for a statement that is written.                           *)
LEMMA GrownTypes ==
    ASSUME NEW bs, NEW cd \in Seq(Stmt), NEW sg, WriteTypes(bs, cd, sg), NEW c \in DOMAIN sg, NEW i \in Instr,
           i.src \in 1 .. Len(cd)
    PROVE  WriteTypes(bs, cd, Grown(sg, c, <<i>>))
<1>1. <<i>> \in Seq(Made(Len(cd)))
  BY MadeIs
<1>2. Grown(sg, c, <<i>>) \in Seq(Seq(Made(Len(cd))))
  BY <1>1, GrownSeqs DEF WriteTypes
<1> QED  BY <1>2 DEF WriteTypes

(* What the splitter has before each of its steps.                           *)
Typing == Ready /\ WriteTypes(bodies, code, segs)

LEMMA TypingIs ==
    ASSUME Typing
    PROVE  /\ bodies \in Seq(Body) /\ bodies # <<>> /\ Len(bodies) \in Nat \ {0} /\ Stacked(bodies, code)
           /\ code \in Seq(Stmt) /\ segs \in Seq(Seq(Instr)) /\ cur \in DOMAIN segs
           /\ Here = Len(code) + 1 /\ Here \in Nat
BY HereIs DEF Typing, Ready, Shape, Lists, WriteTypes, Stack, Here

(* A statement and its instruction, in the same bodies.                      *)
LEMMA OneTypes ==
    ASSUME Typing, NEW bs2, SameAts(bodies, bs2), NEW s \in Stmt, NamedStmt(s), NEW i \in Instr, i.src = Here,
           \/ s.op \notin AllKinds \cup {"close", "else"} \cup Jumps
           \/ s.op \in Jumps /\ s.at \in 1 .. Len(code) /\ code[s.at].op \in Loops
    PROVE  WriteTypes(bs2, code \o <<s>>, Extended(<<i>>))
<1>1. /\ Len(bodies) \in Nat \ {0} /\ Stacked(bodies, code) /\ code \in Seq(Stmt) /\ cur \in DOMAIN segs
      /\ Here = Len(code) + 1
  BY TypingIs
<1>2. Adds(code, code \o <<s>>, s)
  BY <1>1, AddsOne
<1>3. FitsIn(code, Opened(bodies), s, Opened(bodies))
  <2>1. CASE s.op \notin AllKinds \cup {"close", "else"} \cup Jumps
    BY <1>1, <2>1, FitsPlainly
  <2>2. CASE s.op \in Jumps /\ s.at \in 1 .. Len(code) /\ code[s.at].op \in Loops
    <3>1. Opened(bodies) \subseteq 1 .. Len(code)
      BY <1>1 DEF Opened, Stacked
    <3>2. s.op \notin AllKinds \cup {"close", "else"}
      BY <2>2 DEF AllKinds, Loops, Jumps
    <3> QED  BY <2>2, <3>1, <3>2 DEF FitsIn
  <2> QED  BY <2>1, <2>2
<1>4. WriteTypes(bs2, code \o <<s>>, segs)
  <2>1. s.op # "else"
    BY DEF Jumps, AllKinds, Loops
  <2> QED  BY <1>1, <1>2, <1>3, <2>1, StmtTypes DEF Typing
<1>5. code \o <<s>> \in Seq(Stmt) /\ i.src \in 1 .. Len(code \o <<s>>)
  BY <1>1
<1> QED  BY <1>1, <1>4, <1>5, GrownTypes, ExtendedGrows

MayBe(op, name) == op \in Ops \cup Calls \cup Jumps \cup AllKinds /\ name \in Names \cup {""}

LEMMA InstrMade ==
    ASSUME Typing, NEW op, NEW name, NEW to \in Nat, MayBe(op, name)
    PROVE  /\ I(op, name, to) \in Instr /\ I(op, name, to).src = Here /\ I(op, name, to).op = op
           /\ Visible(I(op, name, to)) \in Instr /\ Visible(I(op, name, to)).src = Here
           /\ Visible(I(op, name, to)).op = op
<1>1. I(op, name, to) \in Instr /\ I(op, name, to).src = Here /\ I(op, name, to).op = op
  BY TypingIs DEF I, Instr, Ops, MayBe
<1> QED  BY <1>1, VisibleKeeps

LEMMA InstrIs ==
    ASSUME Typing, NEW op \in Ops \cup Calls \cup Jumps \cup AllKinds, NEW name \in Names \cup {""},
           NEW to \in Nat
    PROVE  /\ I(op, name, to) \in Instr /\ I(op, name, to).src = Here /\ I(op, name, to).op = op
           /\ Visible(I(op, name, to)) \in Instr /\ Visible(I(op, name, to)).src = Here
           /\ Visible(I(op, name, to)).op = op
  BY InstrMade DEF MayBe

LEMMA NewTypes ==
    ASSUME Typing, New PROVE WriteTypes(bodies', code', segs')
<1>1. PICK name \in Locals : Write(bodies, <<S("new", name, 0)>>, Extended(<<Visible(I("new", name, 0))>>), cur)
  BY DEF New
<1> DEFINE s == S("new", name, 0)
           i == Visible(I("new", name, 0))
<1>2. s \in Stmt /\ s.op = "new" /\ NamedStmt(s)
  BY <1>1 DEF S, Stmt, NamedStmt, Names
<1>3. i \in Instr /\ i.src = Here
  <2>1. "new" \in Ops /\ name \in Names \cup {""} /\ 0 \in Nat
    BY <1>1 DEF Ops, Names
  <2> QED  BY <2>1, InstrIs
<1>4. bodies' = bodies /\ code' = code \o <<s>> /\ segs' = Extended(<<i>>)
  BY <1>1 DEF Write
<1> HIDE DEF s, i
<1> QED  BY <1>2, <1>3, <1>4, OneTypes, SameAtsSelf DEF AllKinds, Loops, Jumps

LEMMA UseTypes ==
    ASSUME Typing, Use PROVE WriteTypes(bodies', code', segs')
<1>1. PICK name \in Names : Write(bodies, <<S("use", name, 0)>>, Extended(<<Visible(I("use", name, 0))>>), cur)
  BY DEF Use, Names
<1> DEFINE s == S("use", name, 0)
           i == Visible(I("use", name, 0))
<1>2. s \in Stmt /\ s.op = "use" /\ NamedStmt(s)
  BY <1>1 DEF S, Stmt, NamedStmt
<1>3. i \in Instr /\ i.src = Here
  <2>1. "use" \in Ops /\ name \in Names \cup {""} /\ 0 \in Nat
    BY <1>1 DEF Ops
  <2> QED  BY <2>1, InstrIs
<1>4. bodies' = bodies /\ code' = code \o <<s>> /\ segs' = Extended(<<i>>)
  BY <1>1 DEF Write
<1> HIDE DEF s, i
<1> QED  BY <1>2, <1>3, <1>4, OneTypes, SameAtsSelf DEF AllKinds, Loops, Jumps

LEMMA MoveTypes ==
    ASSUME Typing, Move PROVE WriteTypes(bodies', code', segs')
<1> DEFINE s == S("move", "chan", 0)
           i == Visible(I("move", "chan", 0))
<1>2. s \in Stmt /\ s.op = "move" /\ NamedStmt(s)
  BY DEF S, Stmt, NamedStmt, Names, Locals
<1>3. i \in Instr /\ i.src = Here
  <2>1. "move" \in Ops /\ "chan" \in Names \cup {""} /\ 0 \in Nat
    BY DEF Ops, Names, Locals
  <2> QED  BY <2>1, InstrIs
<1>4. bodies' = bodies /\ code' = code \o <<s>> /\ segs' = Extended(<<i>>)
  BY DEF Move, Write
<1> HIDE DEF s, i
<1> QED  BY <1>2, <1>3, <1>4, OneTypes, SameAtsSelf DEF AllKinds, Loops, Jumps

LEMMA SpawnTypes ==
    ASSUME Typing, Spawn PROVE WriteTypes(bodies', code', segs')
<1> DEFINE s == S("spawn", "", 0)
           i == Visible(I("spawn", "", 0))
<1>2. s \in Stmt /\ s.op = "spawn" /\ NamedStmt(s)
  BY DEF S, Stmt, NamedStmt
<1>3. i \in Instr /\ i.src = Here
  <2>1. "spawn" \in Ops /\ "" \in Names \cup {""} /\ 0 \in Nat
    BY DEF Ops
  <2> QED  BY <2>1, InstrIs
<1>4. bodies' = bodies /\ code' = code \o <<s>> /\ segs' = Extended(<<i>>)
  BY DEF Spawn, Write
<1> HIDE DEF s, i
<1> QED  BY <1>2, <1>3, <1>4, OneTypes, SameAtsSelf DEF AllKinds, Loops, Jumps

(* The innermost body changes in what its statements do not depend on.       *)
LEMMA TopKept ==
    ASSUME Typing, NEW b, b = [Top EXCEPT !.exited = TRUE] \/ \E v \in BOOLEAN : b = [Top EXCEPT !.binds = v]
    PROVE  SameAts(bodies, WithTop(b))
<1>1. Top \in Body /\ bodies \in Seq(Body) /\ bodies # <<>> /\ Top = Last(bodies)
  BY TypingIs, TopIs DEF Typing, Ready
<1>2. /\ b \in Body /\ b.split = Top.split /\ b.at = Top.at /\ b.kind = Top.kind /\ b.open = Top.open
      /\ b.head = Top.head /\ b.next = Top.next /\ b.alt = Top.alt
  BY <1>1 DEF Body
<1>3. b.alt \in {Last(bodies).alt, 0}
  BY <1>1, <1>2
<1>4. SameAts(bodies, Append(Front(bodies), b))
  BY <1>1, <1>2, <1>3, SameAtsTop
<1> QED  BY <1>4 DEF WithTop

LEMMA ReturnTypes ==
    ASSUME Typing, Return PROVE WriteTypes(bodies', code', segs')
<1> DEFINE s == S("return", "", 0)
           i == Visible(I(IF Top.split THEN "finish" ELSE "return", "", 0))
           b == [Top EXCEPT !.exited = TRUE]
<1>2. s \in Stmt /\ s.op = "return" /\ NamedStmt(s)
  BY DEF S, Stmt, NamedStmt
<1>3. i \in Instr /\ i.src = Here
  <2>1. "finish" \in Ops /\ "return" \in Ops /\ "" \in Names \cup {""} /\ 0 \in Nat
    BY DEF Ops
  <2>2. (IF Top.split THEN "finish" ELSE "return") \in Ops
    BY <2>1
  <2> QED  BY <2>1, <2>2, InstrIs
<1>4. bodies' = WithTop(b) /\ code' = code \o <<s>> /\ segs' = Extended(<<i>>)
  BY DEF Return, Write
<1>5. SameAts(bodies, WithTop(b))
  BY TopKept
<1> HIDE DEF s, i, b
<1> QED  BY <1>2, <1>3, <1>4, <1>5, OneTypes DEF AllKinds, Loops, Jumps

LEMMA JumpTypes ==
    ASSUME Typing, BreakOrContinue
    PROVE  WriteTypes(bodies', code', segs') \/ (phase' = "refused" /\ UNCHANGED <<source, run>>)
<1>1. PICK op \in Jumps :
        /\ Writing /\ LoopBodies # {}
        /\ IF Innermost.split /\ ~Top.split
           THEN phase' = "refused" /\ UNCHANGED <<source, run>>
           ELSE Write(WithTop([Top EXCEPT !.exited = TRUE]), <<S(op, "", Innermost.at)>>,
                      Extended(<<Visible(IF Top.split THEN I("goto", "", Target(op))
                                         ELSE I(op, "", Innermost.open))>>), cur)
  BY DEF BreakOrContinue
<1>2. CASE Innermost.split /\ ~Top.split
  BY <1>1, <1>2
<1>3. CASE ~(Innermost.split /\ ~Top.split)
  <2> DEFINE s == S(op, "", Innermost.at)
             to == IF Top.split THEN Target(op) ELSE Innermost.open
             i == Visible(I(IF Top.split THEN "goto" ELSE op, "", to))
             b == [Top EXCEPT !.exited = TRUE]
  <2>1. Innermost \in Body /\ Innermost.at \in 1 .. Len(code) /\ code[Innermost.at].op \in Loops
    <3>1. PICK k \in 2 .. Len(bodies) : Innermost = bodies[k] /\ bodies[k].kind \in Loops
      <4>1. PICK m \in LoopBodies : Innermost = bodies[m]
        BY <1>1, InnermostIs DEF Typing, Ready, LoopBodies
      <4>2. m \in DOMAIN bodies /\ bodies[m].kind \in Loops /\ m # 1
        BY <4>1 DEF LoopBodies, Loops, Typing, Ready, Shape, Nested
      <4>3. m \in 2 .. Len(bodies)
        BY <4>2, TypingIs
      <4> QED  BY <4>1, <4>2, <4>3
    <3>2. bodies[k] \in Body
      BY TypingIs
    <3> QED  BY <3>1, <3>2, TypingIs DEF Stacked
  <2>2. s \in Stmt /\ s.op = op /\ s.at = Innermost.at /\ NamedStmt(s)
    <3>1. Innermost.at \in Nat
      BY <2>1 DEF Body
    <3>2. s.op = op /\ s.at = Innermost.at /\ s \in Stmt
      BY <3>1 DEF S, Stmt
    <3> QED  BY <3>2 DEF NamedStmt, Jumps
  <2>3. i \in Instr /\ i.src = Here
    <3>1. to \in Nat
      BY <2>1 DEF Target, Body
    <3>2. (IF Top.split THEN "goto" ELSE op) \in Ops \cup Calls \cup Jumps \cup AllKinds
      BY <1>1 DEF Ops
    <3>3. "" \in Names \cup {""}
      OBVIOUS
    <3> HIDE DEF to
    <3> QED  BY <3>1, <3>2, <3>3, InstrIs
  <2>4. bodies' = WithTop(b) /\ code' = code \o <<s>> /\ segs' = Extended(<<i>>)
    BY <1>1, <1>3 DEF Write
  <2>5. SameAts(bodies, WithTop(b))
    BY TopKept
  <2> HIDE DEF s, i, b
  <2> QED  BY <1>1, <2>1, <2>2, <2>3, <2>4, <2>5, OneTypes
<1> QED  BY <1>2, <1>3

(* A call and the check of its status, in two segments.                      *)
LEMMA SuspendTypes ==
    ASSUME Typing, Suspend PROVE WriteTypes(bodies', code', segs')
<1> DEFINE n == Len(segs) + 1
           p == Len(code) + 1
           a == Later(I("take", "rc", 0))
           e == Later(Visible(I("use", "rc", 0)))
           c0 == I("new", "closed", 0)
           b(call) == [Top EXCEPT !.binds = @ \/ call = "recv"]
           v(call) == Visible(I(call, "rc", n))
           bind(call) == IF call = "recv" THEN <<c0>> ELSE <<>>
           s1(call) == S(call, "rc", 0)
           s2 == S("use", "rc", 0)
<1>1. PICK call \in Calls :
        /\ bodies' = WithTop(b(call)) /\ code' = code \o <<s1(call), s2>>
        /\ segs' = Append(Extended(bind(call) \o <<v(call)>>), <<a, e>>)
  BY DEF Suspend, Writing, Write
<1>2. /\ code \in Seq(Stmt) /\ cur \in DOMAIN segs /\ segs \in Seq(Seq(Instr)) /\ Here = p /\ p \in Nat
      /\ Len(bodies) \in Nat \ {0} /\ Top \in Body /\ n \in Nat
  <2>1. Len(segs) + 1 \in Nat
    BY TypingIs
  <2> QED  BY <2>1, TypingIs, TopIs DEF Typing, Ready
<1>3. s1(call) \in Stmt /\ s1(call).op = call /\ NamedStmt(s1(call))
  BY <1>1 DEF S, Stmt, Names, NamedStmt
<1>4. s2 \in Stmt /\ s2.op = "use" /\ NamedStmt(s2)
  BY DEF S, Stmt, Names, NamedStmt
<1>5. c0 \in Instr /\ c0.src = p /\ v(call) \in Instr /\ v(call).src = p
  <2>1. MayBe("new", "closed") /\ MayBe(call, "rc") /\ 0 \in Nat
    BY <1>1 DEF Ops, Names, MayBe
  <2>2. I("new", "closed", 0) \in Instr /\ I("new", "closed", 0).src = Here
    BY <2>1, InstrMade
  <2> HIDE DEF n
  <2>3. Visible(I(call, "rc", n)) \in Instr /\ Visible(I(call, "rc", n)).src = Here
    BY <1>2, <2>1, InstrMade
  <2> QED  BY <1>2, <2>2, <2>3
<1>6. a \in Instr /\ a.src = p + 1 /\ e \in Instr /\ e.src = p + 1
  <2>1. MayBe("take", "rc") /\ MayBe("use", "rc") /\ 0 \in Nat
    BY DEF Ops, Names, MayBe
  <2>2. /\ I("take", "rc", 0) \in Instr /\ I("take", "rc", 0).src = p
        /\ Visible(I("use", "rc", 0)) \in Instr /\ Visible(I("use", "rc", 0)).src = p
    BY <1>2, <2>1, InstrMade
  <2>3. ASSUME NEW i \in Instr, i.src = p PROVE Later(i) \in Instr /\ Later(i).src = p + 1
    <3>1. p + 1 \in Nat
      BY <1>2
    <3> HIDE DEF p
    <3> QED  BY <2>3, <3>1 DEF Later, Instr
  <2> QED  BY <2>2, <2>3
<1>7. SameAts(bodies, WithTop(b(call)))
  <2>1. b(call) = [Top EXCEPT !.binds = Top.binds \/ call = "recv"]
    OBVIOUS
  <2>2. (Top.binds \/ call = "recv") \in BOOLEAN
    OBVIOUS
  <2> HIDE DEF b
  <2> QED  BY <2>1, <2>2, TopKept
<1> DEFINE bs == WithTop(b(call))
           cd1 == code \o <<s1(call)>>
           cd2 == cd1 \o <<s2>>
           t == bind(call) \o <<v(call)>>
<1> HIDE DEF b, a, e, c0, v, s1, s2
<1>8. cd1 \in Seq(Stmt) /\ Adds(code, cd1, s1(call)) /\ Len(cd1) = p
  <2>1. cd1 \in Seq(Stmt) /\ Len(cd1) = p
    BY <1>2, <1>3
  <2> QED  BY <1>2, <1>3, <2>1, AddsOne
<1>9. cd2 \in Seq(Stmt) /\ Adds(cd1, cd2, s2) /\ Len(cd2) = p + 1
  <2> HIDE DEF cd1
  <2>1. cd2 \in Seq(Stmt) /\ Len(cd2) = p + 1
    BY <1>4, <1>8
  <2> QED  BY <1>4, <1>8, <2>1 DEF Adds
<1>10. code' = cd2
  <2>1. code \o <<s1(call), s2>> = (code \o <<s1(call)>>) \o <<s2>>
    BY <1>2, <1>3, <1>4
  <2> QED  BY <1>1, <2>1
<1>11. Len(bs) = Len(bodies)
  BY <1>7 DEF SameAts
<1> HIDE DEF bs, cd1, cd2
<1>12. WriteTypes(bs, cd1, segs)
  <2>1. s1(call).op \notin AllKinds \cup {"close", "else"} \cup Jumps
    BY <1>1, <1>3 DEF AllKinds, Loops, Jumps, Calls
  <2>2. FitsIn(code, Opened(bodies), s1(call), Opened(bodies))
    BY <2>1, TypingIs, FitsPlainly
  <2>3. s1(call).op # "else"
    BY <2>1
  <2> QED  BY <1>2, <1>3, <1>7, <1>8, <2>2, <2>3, StmtTypes DEF Typing, bs
<1>13. WriteTypes(bs, cd2, segs)
  <2>1. s2.op \notin AllKinds \cup {"close", "else"} \cup Jumps
    BY <1>4 DEF AllKinds, Loops, Jumps
  <2>2. FitsIn(cd1, Opened(bs), s2, Opened(bs))
    BY <1>12, <2>1, FitsPlainly DEF WriteTypes, Stack
  <2>3. s2.op # "else"
    BY <2>1
  <2> QED  BY <1>2, <1>4, <1>9, <1>11, <1>12, <2>2, <2>3, SameAtsSelf, StmtTypes
<1> DEFINE M == Made(Len(cd2))
<1>14. a \in M /\ e \in M /\ c0 \in M /\ v(call) \in M
  <2>1. p \in 1 .. p + 1 /\ p + 1 \in 1 .. p + 1
    BY <1>2
  <2> HIDE DEF p
  <2> QED  BY <1>5, <1>6, <1>9, <2>1 DEF Made
<1>15. segs \in Seq(Seq(M))
  BY <1>13 DEF WriteTypes
<1> HIDE DEF M
<1>16. bind(call) \o <<v(call)>> \in Seq(M) /\ <<a, e>> \in Seq(M)
  BY <1>14
<1> HIDE DEF bind
<1>17. Grown(segs, cur, bind(call) \o <<v(call)>>) \in Seq(Seq(M))
  BY <1>2, <1>15, <1>16, GrownSeqs
<1>18. segs' = Append(Grown(segs, cur, bind(call) \o <<v(call)>>), <<a, e>>)
  BY <1>1 DEF Extended, Grown
<1>19. segs' \in Seq(Seq(M))
  <2> DEFINE T == Seq(M)
             g == Grown(segs, cur, bind(call) \o <<v(call)>>)
  <2>1. g \in Seq(T) /\ <<a, e>> \in T
    BY <1>16, <1>17
  <2> HIDE DEF T, g
  <2>2. Append(g, <<a, e>>) \in Seq(T)
    BY <2>1
  <2> QED  BY <1>18, <2>2 DEF T, g
<1> QED  BY <1>1, <1>10, <1>13, <1>19 DEF WriteTypes, M, bs

(* A body that is copied opens and closes.                                   *)
LEMMA OpenPlainTypes ==
    ASSUME Typing, OpenPlain PROVE WriteTypes(bodies', code', segs')
<1> DEFINE i(kind) == IF kind = "block" THEN I(kind, "", 0) ELSE Visible(I(kind, "", 0))
           b(kind) == [NewBody(kind) EXCEPT !.open = Len(segs[cur]) + 1]
           s(kind) == S(kind, "", 0)
<1>1. PICK kind \in AllKinds :
        /\ bodies' = Append(bodies, b(kind)) /\ code' = code \o <<s(kind)>>
        /\ segs' = Extended(<<i(kind)>>)
  <2>1. PICK kind \in Kinds : Open(b(kind), Extended(<<i(kind)>>), cur)
    BY DEF OpenPlain
  <2>2. b(kind).kind = kind
    BY DEF NewBody
  <2>3. kind \in AllKinds
    BY <2>1, CoopAssumption
  <2> QED  BY <2>1, <2>2, <2>3 DEF Open, Write
<1>2. /\ code \in Seq(Stmt) /\ cur \in DOMAIN segs /\ segs \in Seq(Seq(Instr)) /\ Here = Len(code) + 1
      /\ Here \in Nat /\ bodies \in Seq(Body) /\ bodies # <<>>
  BY TypingIs
<1>3. s(kind) \in Stmt /\ s(kind).op = kind
  BY <1>1 DEF S, Stmt
<1>4. i(kind) \in Instr /\ i(kind).src = Here
  <2>1. /\ I(kind, "", 0) \in Instr /\ I(kind, "", 0).src = Here
        /\ Visible(I(kind, "", 0)) \in Instr /\ Visible(I(kind, "", 0)).src = Here
    <3>1. "" \in Names \cup {""} /\ 0 \in Nat
      OBVIOUS
    <3> QED  BY <1>1, <3>1, InstrIs
  <2> QED  BY <2>1
<1>5. b(kind) \in Body /\ b(kind).kind = kind /\ b(kind).at = Here
  <2>1. Len(segs[cur]) + 1 \in Nat
    <3>1. segs[cur] \in Seq(Instr)
      BY <1>2
    <3> QED  BY <3>1
  <2> QED  BY <1>1, <1>2, <2>1 DEF NewBody, Body
<1> HIDE DEF i, b, s
<1>6. Adds(code, code \o <<s(kind)>>, s(kind))
  BY <1>2, <1>3, AddsOne
<1>7. WriteTypes(Append(bodies, b(kind)), code \o <<s(kind)>>, segs)
  BY <1>1, <1>2, <1>3, <1>5, <1>6, PushTypes DEF Typing
<1>8. code \o <<s(kind)>> \in Seq(Stmt) /\ i(kind).src \in 1 .. Len(code \o <<s(kind)>>)
  BY <1>2, <1>3, <1>4
<1> QED  BY <1>1, <1>2, <1>4, <1>7, <1>8, GrownTypes, ExtendedGrows

LEMMA ClosePlainTypes ==
    ASSUME Typing, ClosePlain PROVE WriteTypes(bodies', code', segs')
<1> DEFINE e == I("close", "", Top.open)
           s == S("close", "", Top.at)
           cd == Append(code, s)
<1>1. Len(bodies) > 1 /\ bodies' = Front(bodies) /\ code' = cd /\ segs' = Extended(<<e>>)
  BY DEF ClosePlain
<1>2. /\ code \in Seq(Stmt) /\ cur \in DOMAIN segs /\ segs \in Seq(Seq(Instr)) /\ Here = Len(code) + 1
      /\ Here \in Nat /\ bodies \in Seq(Body) /\ bodies # <<>>
  BY TypingIs
<1>3. Top = bodies[Len(bodies)] /\ Top = Last(bodies) /\ Top \in Body /\ Len(bodies) \in DOMAIN bodies
  BY <1>2, TopIs DEF Typing, Ready
<1>4. s \in Stmt /\ s.op = "close" /\ s.at = Top.at
  BY <1>3 DEF S, Stmt, Body
<1>5. e \in Instr /\ e.src = Here
  <2>1. "" \in Names \cup {""} /\ Top.open \in Nat /\ "close" \in Ops
    BY <1>3 DEF Body, Ops
  <2> QED  BY <2>1, InstrIs
<1>6. Top.kind \in AllKinds
  BY <1>1, <1>3 DEF Typing, Ready, Shape, Nested
<1> HIDE DEF e, s
<1>7. Adds(code, cd, s)
  BY <1>2, <1>4, AddsOne
<1>8. cd \in Seq(Stmt) /\ e.src \in 1 .. Len(cd)
  BY <1>2, <1>4, <1>5
<1> HIDE DEF cd
<1>9. WriteTypes(Front(bodies), cd, segs)
  BY <1>1, <1>2, <1>3, <1>4, <1>6, <1>7, PopTypes DEF Typing
<1> QED  BY <1>1, <1>2, <1>5, <1>8, <1>9, GrownTypes, ExtendedGrows

(* The rest of a body that is split.                                         *)
LEMMA FallthroughTypes ==
    ASSUME Typing PROVE Fallthrough \in Seq(Made(Here)) /\ Extended(Fallthrough) \in Seq(Seq(Made(Here)))
                        /\ Here \in Nat /\ Len(code) <= Here
<1>1. /\ code \in Seq(Stmt) /\ cur \in DOMAIN segs /\ segs \in Seq(Seq(Instr)) /\ Here = Len(code) + 1
      /\ Here \in Nat
  BY TypingIs
<1>2. Top \in Body
  BY TypingIs, TopIs DEF Typing, Ready
<1> DEFINE to == IF Top.kind = "while" THEN Top.head ELSE Top.next
           e == I("goto", "", to)
<1>3. e \in Instr /\ e.src = Here
  <2>1. "" \in Names \cup {""} /\ to \in Nat /\ "goto" \in Ops
    BY <1>2 DEF Body, Ops
  <2> HIDE DEF to
  <2> QED  BY <2>1, InstrIs
<1>4. e \in Made(Here)
  <2>1. Here \in 1 .. Here
    BY <1>1
  <2> HIDE DEF e
  <2> QED  BY <1>3, <2>1 DEF Made
<1>5. Fallthrough = <<>> \/ Fallthrough = <<e>>
  BY DEF Fallthrough
<1> HIDE DEF e
<1>6. Fallthrough \in Seq(Made(Here))
  <2> DEFINE M == Made(Here)
  <2> HIDE DEF M
  <2>1. e \in M
    BY <1>4 DEF M
  <2>2. <<>> \in Seq(M) /\ <<e>> \in Seq(M)
    BY <2>1
  <2> QED  BY <1>5, <2>2 DEF M
<1>7. Len(code) \in Nat /\ Len(code) <= Here
  BY <1>1
<1>8. segs \in Seq(Seq(Made(Here)))
  BY <1>1, <1>7, MadeMore DEF Typing, WriteTypes
<1>9. Grown(segs, cur, Fallthrough) \in Seq(Seq(Made(Here)))
  BY <1>1, <1>6, <1>8, GrownSeqs
<1> QED  BY <1>1, <1>6, <1>7, <1>9 DEF Extended, Grown

LEMMA ElseTypes ==
    ASSUME Typing, Else PROVE WriteTypes(bodies', code', segs')
<1> DEFINE b == [Top EXCEPT !.alt = 0, !.exited = FALSE, !.binds = FALSE]
           s == S("else", "", Top.at)
           cd == Append(code, s)
<1>1. /\ Len(bodies) > 1 /\ Top.alt # 0 /\ Top.kind = "if"
      /\ bodies' = WithTop(b) /\ code' = cd /\ segs' = Extended(Fallthrough)
  BY DEF Else
<1>2. /\ code \in Seq(Stmt) /\ Here = Len(code) + 1 /\ Here \in Nat /\ bodies \in Seq(Body) /\ bodies # <<>>
      /\ Len(bodies) \in Nat \ {0} /\ Stacked(bodies, code)
  BY TypingIs
<1>3. Top = bodies[Len(bodies)] /\ Top = Last(bodies) /\ Top \in Body
  BY <1>2, TopIs DEF Typing, Ready
<1>4. Len(bodies) \in 2 .. Len(bodies) /\ Len(bodies) \in 1 .. Len(bodies)
  <2>1. \A m \in Nat : m > 1 => m \in 2 .. m /\ m \in 1 .. m
    OBVIOUS
  <2> QED  BY <1>1, <1>2, <2>1
<1>5. Top.at \in 1 .. Len(code) /\ code[Top.at].op = "if" /\ Top.at \in Opened(bodies)
  BY <1>1, <1>2, <1>3, <1>4 DEF Stacked, Opened
<1>6. s \in Stmt /\ s.op = "else" /\ s.at = Top.at /\ NamedStmt(s)
  BY <1>3 DEF S, Stmt, Body, NamedStmt
<1>7. /\ b \in Body /\ b.at = Top.at /\ b.kind = Top.kind /\ b.split = Top.split /\ b.open = Top.open
      /\ b.head = Top.head /\ b.next = Top.next /\ b.alt = 0
  BY <1>3 DEF Body
<1> HIDE DEF b, s
<1>8. SameAts(bodies, WithTop(b)) /\ WithTop(b)[Len(WithTop(b))] = b
  <2>1. /\ b.split = Last(bodies).split /\ b.at = Last(bodies).at /\ b.kind = Last(bodies).kind
        /\ b.open = Last(bodies).open /\ b.head = Last(bodies).head /\ b.next = Last(bodies).next
        /\ b.alt \in {Last(bodies).alt, 0}
    BY <1>3, <1>7
  <2> QED  BY <1>2, <1>7, <2>1, SameAtsTop DEF WithTop
<1>9. Adds(code, cd, s)
  BY <1>2, <1>6, AddsOne
<1>10. Len(cd) = Here
  BY <1>2
<1> HIDE DEF cd
<1>11. ~HasElse(code, Top.at)
  BY <1>1, <1>3, <1>4 DEF Typing, WriteTypes, Elseless
<1>12. FitsIn(code, Opened(bodies), s, Opened(bodies))
  <2>1. Opened(bodies) \subseteq 1 .. Len(code)
    BY <1>2 DEF Opened, Stacked
  <2>2. s.op \notin AllKinds \cup {"close"} \cup Jumps
    BY <1>6 DEF AllKinds, Loops, Jumps
  <2>3. ~\E e \in 1 .. Len(code) : Turns(code, e, s.at)
    BY <1>6, <1>11 DEF HasElse
  <2> QED  BY <1>5, <1>6, <2>1, <2>2, <2>3 DEF FitsIn
<1>13. Elseless(WithTop(b), cd)
  <2> SUFFICES ASSUME NEW k \in 1 .. Len(WithTop(b)), WithTop(b)[k].alt # 0 PROVE ~HasElse(cd, WithTop(b)[k].at)
    BY DEF Elseless
  <2>1. /\ k \in 1 .. Len(bodies) /\ bodies[k].alt # 0 /\ WithTop(b)[k].at = bodies[k].at
        /\ Len(WithTop(b)) = Len(bodies)
    BY <1>8 DEF SameAts
  <2>2. k # Len(bodies)
    BY <1>7, <1>8, <2>1
  <2>3. k < Len(bodies)
    BY <1>2, <2>1, <2>2
  <2>4. bodies[k].at < Top.at
    BY <1>2, <1>3, <1>4, <2>1, <2>3 DEF Stacked
  <2>5. bodies[k].at # s.at
    <3>1. Top.at \in Nat
      BY <1>3 DEF Body
    <3> QED  BY <1>6, <2>4, <3>1
  <2>6. ~HasElse(code, bodies[k].at)
    BY <2>1 DEF Typing, WriteTypes, Elseless
  <2> QED  BY <1>9, <2>1, <2>5, <2>6, HasElseMore
<1>14. WriteTypes(WithTop(b), cd, segs)
  BY <1>2, <1>6, <1>8, <1>9, <1>12, <1>13, StmtTypes DEF Typing
<1>15. Extended(Fallthrough) \in Seq(Seq(Made(Len(cd))))
  BY <1>10, FallthroughTypes
<1> QED  BY <1>1, <1>14, <1>15 DEF WriteTypes

LEMMA CloseSplitTypes ==
    ASSUME Typing, CloseSplit PROVE WriteTypes(bodies', code', segs')
<1> DEFINE g == Extended(Fallthrough)
           e == I("goto", "", Top.next)
           g2 == IF Top.alt = 0 THEN g ELSE [g EXCEPT ![Top.alt] = NoElse]
           s == S("close", "", Top.at)
           cd == Append(code, s)
<1>1. Len(bodies) > 1 /\ bodies' = Front(bodies) /\ code' = cd /\ segs' = g2
  BY DEF CloseSplit
<1>2. /\ code \in Seq(Stmt) /\ Here = Len(code) + 1 /\ Here \in Nat /\ bodies \in Seq(Body) /\ bodies # <<>>
  BY TypingIs
<1>3. Top = bodies[Len(bodies)] /\ Top = Last(bodies) /\ Top \in Body /\ Len(bodies) \in DOMAIN bodies
  BY <1>2, TopIs DEF Typing, Ready
<1>4. s \in Stmt /\ s.op = "close" /\ s.at = Top.at
  BY <1>3 DEF S, Stmt, Body
<1>5. e \in Instr /\ e.src = Here /\ NoElse = <<e>>
  <2>1. "" \in Names \cup {""} /\ Top.next \in Nat /\ "goto" \in Ops
    BY <1>3 DEF Body, Ops
  <2> QED  BY <2>1, InstrIs DEF NoElse
<1>6. Top.kind \in AllKinds
  BY <1>1, <1>3 DEF Typing, Ready, Shape, Nested
<1> HIDE DEF e, s
<1>7. Adds(code, cd, s)
  BY <1>2, <1>4, AddsOne
<1>8. Len(cd) = Here
  BY <1>2
<1> HIDE DEF cd
<1>9. WriteTypes(Front(bodies), cd, segs)
  BY <1>1, <1>2, <1>3, <1>4, <1>6, <1>7, PopTypes DEF Typing
<1> DEFINE T == Seq(Made(Here))
<1>10. g \in Seq(T) /\ NoElse \in T
  <2>1. Here \in 1 .. Here
    BY <1>2
  <2> QED  BY <1>2, <1>5, <2>1, FallthroughTypes, MadeIs
<1> HIDE DEF T, g
<1>11. g2 \in Seq(T)
  <2>1. CASE Top.alt = 0
    BY <1>10, <2>1
  <2>2. CASE Top.alt # 0
    <3>1. CASE Top.alt \in DOMAIN g
      BY <1>10, <2>2, <3>1
    <3>2. CASE Top.alt \notin DOMAIN g
      <4>1. [g EXCEPT ![Top.alt] = NoElse] = g
        BY <1>10, <3>2
      <4> QED  BY <1>10, <2>2, <4>1
    <3> QED  BY <3>1, <3>2
  <2> QED  BY <2>1, <2>2
<1> HIDE DEF g2
<1> QED  BY <1>1, <1>8, <1>9, <1>11 DEF WriteTypes, T

LEMMA ThreeSeqs ==
    ASSUME NEW T, NEW g \in Seq(T), NEW x \in T, NEW y \in T
    PROVE  g \o <<x>> \in Seq(T) /\ g \o <<x, y, y>> \in Seq(T)
  OBVIOUS

(* A body that is split opens.                                               *)
LEMMA OpenedTypes ==
    ASSUME Typing, NEW b \in Body, b.kind \in AllKinds, b.at = Here, NEW sg \in Seq(Seq(Made(Here))), NEW at,
           Open(b, sg, at)
    PROVE  WriteTypes(bodies', code', segs')
<1> DEFINE s == S(b.kind, "", 0)
<1>1. bodies' = Append(bodies, b) /\ code' = code \o <<s>> /\ segs' = sg
  BY DEF Open, Write
<1>2. code \in Seq(Stmt) /\ Here = Len(code) + 1 /\ bodies \in Seq(Body) /\ bodies # <<>>
  BY TypingIs
<1>3. s \in Stmt /\ s.op = b.kind
  BY DEF S, Stmt
<1> HIDE DEF s
<1>4. Adds(code, code \o <<s>>, s) /\ Len(code \o <<s>>) = Here
  BY <1>2, <1>3, AddsOne
<1>5. WriteTypes(Append(bodies, b), code \o <<s>>, segs)
  BY <1>2, <1>3, <1>4, PushTypes DEF Typing
<1> QED  BY <1>1, <1>4, <1>5 DEF WriteTypes

LEMMA OpenSplitTypes ==
    ASSUME Typing, OpenSplit PROVE WriteTypes(bodies', code', segs')
<1> DEFINE n == Len(segs)
           Cut(kind) == [NewBody(kind) EXCEPT !.split = TRUE]
           Fork(then, else) == [Visible(I("branch", "", then)) EXCEPT !.other = else]
           bb == [Cut("block") EXCEPT !.next = n + 1]
           bi == [Cut("if") EXCEPT !.alt = n + 2, !.next = n + 3]
           bw == [Cut("while") EXCEPT !.head = n + 1, !.next = n + 3]
           e == I("goto", "", n + 1)
           i == Fork(n + 1, n + 2)
           f == Fork(n + 2, n + 3)
           T == Seq(Made(Here))
<1>1. /\ code \in Seq(Stmt) /\ n \in Nat /\ Here \in Nat /\ Here = Len(code) + 1
      /\ segs \in Seq(Seq(Instr)) /\ cur \in DOMAIN segs
  <2>1. segs \in Seq(Seq(Instr))
    BY TypingIs
  <2>2. n \in Nat
    BY <2>1
  <2> QED  BY <2>2, TypingIs
<1>2. \/ Open(bb, segs \o <<<<>>>>, cur)
      \/ Open(bi, Extended(<<i>>) \o <<<<>>, <<>>, <<>>>>, n + 1)
      \/ Open(bw, Extended(<<e>>) \o <<<<f>>, <<>>, <<>>>>, n + 2)
  BY DEF OpenSplit
<1>3. /\ n + 1 \in Nat /\ n + 2 \in Nat /\ n + 3 \in Nat
      /\ "block" \in AllKinds /\ "if" \in AllKinds /\ "while" \in AllKinds
  BY <1>1 DEF AllKinds, Loops
<1> HIDE DEF n
<1>4. bb \in Body /\ bb.kind = "block" /\ bb.at = Here
  BY <1>1, <1>3 DEF NewBody, Body
<1>5. bi \in Body /\ bi.kind = "if" /\ bi.at = Here
  BY <1>1, <1>3 DEF NewBody, Body
<1>6. bw \in Body /\ bw.kind = "while" /\ bw.at = Here
  BY <1>1, <1>3 DEF NewBody, Body
<1>7. e \in Instr /\ e.src = Here
  BY <1>1, <1>3, HereInstr
<1>8. i \in Instr /\ i.src = Here /\ f \in Instr /\ f.src = Here
  <2>1. ASSUME NEW to \in Nat, NEW other \in Nat
        PROVE  Fork(to, other) \in Instr /\ Fork(to, other).src = Here
    BY <1>1 DEF I, Visible, Instr, Ops
  <2> HIDE DEF Fork
  <2> QED  BY <1>3, <2>1
<1> HIDE DEF bb, bi, bw, e, i, f
<1>9. <<>> \in T /\ <<e>> \in T /\ <<i>> \in T /\ <<f>> \in T
  <2>1. Here \in 1 .. Here
    BY <1>1
  <2>2. <<>> \in T
    OBVIOUS
  <2> QED  BY <1>1, <1>7, <1>8, <2>1, <2>2, MadeIs
<1>10. segs \in Seq(T)
  <2>1. Len(code) \in Nat /\ Len(code) <= Here
    BY <1>1
  <2> QED  BY <1>1, <2>1, MadeMore DEF Typing, WriteTypes
<1>11. Extended(<<e>>) \in Seq(T) /\ Extended(<<i>>) \in Seq(T)
  BY <1>1, <1>9, <1>10, GrownSeqs DEF Extended, Grown
<1> HIDE DEF T
<1>12. /\ segs \o <<<<>>>> \in Seq(T) /\ Extended(<<i>>) \o <<<<>>, <<>>, <<>>>> \in Seq(T)
       /\ Extended(<<e>>) \o <<<<f>>, <<>>, <<>>>> \in Seq(T)
  BY <1>9, <1>10, <1>11, ThreeSeqs
<1>13. CASE Open(bb, segs \o <<<<>>>>, cur)
  BY <1>3, <1>4, <1>12, <1>13, OpenedTypes DEF T
<1>14. CASE Open(bi, Extended(<<i>>) \o <<<<>>, <<>>, <<>>>>, n + 1)
  BY <1>3, <1>5, <1>12, <1>14, OpenedTypes DEF T
<1>15. CASE Open(bw, Extended(<<e>>) \o <<<<f>>, <<>>, <<>>>>, n + 2)
  BY <1>3, <1>6, <1>12, <1>15, OpenedTypes DEF T
<1> QED  BY <1>2, <1>13, <1>14, <1>15

(* A step of the splitter that is not the last.                              *)
LEMMA SplitTypes ==
    ASSUME Typing, Split, ~Finish
    PROVE  WriteTypes(bodies', code', segs') \/ (phase' = "refused" /\ UNCHANGED <<source, run>>)
  BY NewTypes, UseTypes, MoveTypes, SpawnTypes, SuspendTypes, ReturnTypes, JumpTypes, OpenPlainTypes,
     OpenSplitTypes, ElseTypes, ClosePlainTypes, CloseSplitTypes DEF Split

(* The last one leaves code that is ready to run.                            *)
LEMMA FinishTypes ==
    ASSUME Typing, Finish
    PROVE  /\ fields' \subseteq Names /\ Nests(code, {}) /\ segs' \in Seq(Seq(RunCode(Len(code))))
           /\ cur \in DOMAIN segs' /\ code' = code /\ UNCHANGED <<bodies, cur, left, run>>
<1> DEFINE e == I("goto", "", Len(segs) + 1)
           i == I("finish", "", 0)
           v == Visible(i)
           sg == IF Top.exited THEN segs ELSE Extended(<<e>>)
           T == Seq(RunCode(Len(code)))
<1>1. /\ segs' = Append(sg, <<v>>) /\ fields' = Worthy(Live) /\ Len(bodies) = 1
      /\ code' = code /\ UNCHANGED <<bodies, cur, left, run>>
  BY DEF Finish
<1>2. /\ code \in Seq(Stmt) /\ Here = Len(code) + 1 /\ Here \in Nat /\ segs \in Seq(Seq(Instr))
      /\ cur \in DOMAIN segs
  BY TypingIs
<1>3. fields' \subseteq Names
  BY <1>1, <1>2, WorthyTyped DEF Typing, WriteTypes
<1>4. Nests(code, {})
  <2>1. 2 .. 1 = {}
    OBVIOUS
  <2>2. Opened(bodies) = {}
    BY <1>1, <2>1 DEF Opened
  <2> QED  BY <2>2 DEF Typing, WriteTypes, Stack
<1>5. e \in RunCode(Len(code)) /\ v \in RunCode(Len(code))
  <2>1. "" \in Names \cup {""} /\ Len(segs) + 1 \in Nat /\ 0 \in Nat /\ "goto" \in Ops /\ "finish" \in Ops
    BY <1>2 DEF Ops
  <2>2. e \in Instr /\ e.op = "goto" /\ v \in Instr /\ v.op = "finish"
    BY <2>1, InstrIs
  <2>3. ~e.shown
    BY DEF I
  <2> HIDE DEF e, v
  <2> QED  BY <2>2, <2>3 DEF RunCode
<1>6. segs \in Seq(T)
  <2>1. Made(Len(code)) \subseteq RunCode(Len(code))
    BY DEF Made, RunCode
  <2> QED  BY <2>1, SeqsMore DEF Typing, WriteTypes
<1> HIDE DEF e, v
<1>7. <<e>> \in T /\ <<v>> \in T
  <2> DEFINE R == RunCode(Len(code))
  <2>1. e \in R /\ v \in R
    BY <1>5
  <2> HIDE DEF R
  <2>2. <<e>> \in Seq(R) /\ <<v>> \in Seq(R)
    BY <2>1
  <2> QED  BY <2>2 DEF R
<1>8. sg \in Seq(T) /\ cur \in DOMAIN sg
  <2>1. Grown(segs, cur, <<e>>) \in Seq(T)
    BY <1>2, <1>6, <1>7, GrownSeqs
  <2>2. Extended(<<e>>) = Grown(segs, cur, <<e>>) /\ DOMAIN Extended(<<e>>) = DOMAIN segs
    BY DEF Extended, Grown
  <2> QED  BY <1>2, <1>6, <2>1, <2>2
<1> HIDE DEF T, sg
<1>9. Append(sg, <<v>>) \in Seq(T) /\ cur \in DOMAIN Append(sg, <<v>>)
  BY <1>7, <1>8
<1> QED  BY <1>1, <1>3, <1>4, <1>9 DEF T

-----------------------------------------------------------------------------
(* The invariant that gives the types.                                       *)

TypeInv ==
    /\ IInv
    /\ bodies \in Seq(Body) /\ bodies # <<>> /\ segs \in Seq(Seq(Instr)) /\ cur \in DOMAIN segs
    /\ fields \subseteq Names /\ left \in 0 .. MaxStmts /\ Typed(run)
    /\ phase = "body" => WriteTypes(bodies, code, segs)
    /\ phase = "run" => Nests(code, {}) /\ segs \in Seq(Seq(RunCode(Len(code))))
    /\ phase = "refused" => run \in Machine

LEMMA TypesStart == ASSUME Init PROVE TypeInv
<1>1. IInv
  BY Starts
<1>2. phase = "body" /\ code = <<>> /\ segs = <<<<>>>> /\ fields = {} /\ left = MaxStmts
  BY DEF Init
<1>3. Shape(bodies, segs, cur)
  BY <1>1, <1>2 DEF IInv
<1>4. bodies \in Seq(Body) /\ bodies # <<>> /\ segs \in Seq(Seq(Instr)) /\ cur \in DOMAIN segs
  BY <1>3 DEF Shape, Lists
<1>5. Typed(run)
  <2>1. [n \in Names |-> None] \in [Names -> Value] /\ [n \in Names |-> 0] \in [Names -> Value]
    BY DEF Value, Bit, None
  <2>2. MaxRounds \in 0 .. MaxRounds
    BY CoopAssumption
  <2>3. IsRun(run)
    BY <1>1 DEF IInv
  <2>4. /\ run.regs = [n \in Names |-> None] /\ run.frame = [n \in Names |-> 0]
        /\ run.env = [n \in Names |-> 0]
    BY DEF Init
  <2>5. /\ run.at = "waiting" /\ run.pend = None /\ run.call = "" /\ run.rounds = MaxRounds
        /\ run.src = 0 /\ run.ends = 0 /\ run.state = 1 /\ run.pc = 1
    BY DEF Init
  <2>6. run.regs \in [Names -> Value] /\ run.frame \in [Names -> Value] /\ run.env \in [Names -> Value]
    BY <2>1, <2>4
  <2>7. run.rounds \in 0 .. MaxRounds
    BY <2>2, <2>5
  <2>8. run.at \in {"segment", "waiting", "stopped"} /\ run.pend \in {0, None} /\ run.call \in Calls \cup {""}
    BY <2>5
  <2>9. /\ run.src \in Nat /\ run.ends \in {0, 1} /\ run.ends = 0
        /\ run.state \in Nat /\ run.pc \in Nat \ {0}
    <3>1. 0 \in Nat /\ 1 \in Nat /\ 1 \in Nat \ {0} /\ 0 \in {0, 1}
      OBVIOUS
    <3> QED  BY <2>5, <3>1, Zenon
  <2> QED  BY <2>3, <2>6, <2>7, <2>8, <2>9 DEF Typed
<1>6. Len(code) = 0 /\ 1 .. 0 = {} /\ Len(bodies) = 1 /\ bodies[1].at = 0 /\ bodies[1].alt = 0
  <2>1. \A x : <<x>>[1] = x /\ Len(<<x>>) = 1
    OBVIOUS
  <2> DEFINE f == [kind |-> "fn", split |-> TRUE, at |-> 0, open |-> 0, head |-> 0,
                   alt |-> 0, next |-> 0, exited |-> FALSE, binds |-> FALSE]
  <2>5. f.at = 0 /\ f.alt = 0
    OBVIOUS
  <2>6. bodies = <<f>>
    BY DEF Init
  <2> HIDE DEF f
  <2>2. PICK b : bodies = <<b>> /\ b.at = 0 /\ b.alt = 0
    BY <2>5, <2>6
  <2>3. bodies[1] = b /\ Len(bodies) = 1
    BY <2>1, <2>2
  <2>4. Len(code) = 0 /\ 1 .. 0 = {}
    BY <1>2
  <2> QED  BY <2>2, <2>3, <2>4
<1>7. Nests(code, Opened(bodies))
  BY <1>6 DEF Nests, OpenersClose, ClosesMatch, ElsesMatch, JumpsMatch, Once
<1>8. Stacked(bodies, code)
  <2>1. 2 .. 1 = {} /\ \A i, j \in 1 .. 1 : ~(i < j)
    OBVIOUS
  <2> QED  BY <1>6, <2>1 DEF Stacked
<1>9. Elseless(bodies, code) /\ Named(code)
  BY <1>6 DEF Elseless, Named, HasElse
<1>10. segs \in Seq(Seq(Made(Len(code))))
  <2>1. <<>> \in Seq(Made(Len(code)))
    OBVIOUS
  <2> DEFINE T == Seq(Made(Len(code)))
  <2>2. <<>> \in T
    OBVIOUS
  <2> HIDE DEF T
  <2>3. <<<<>>>> \in Seq(T)
    BY <2>2
  <2> QED  BY <1>2, <2>3 DEF T
<1>11. left \in 0 .. MaxStmts
  BY <1>2, CoopAssumption
<1> QED  BY <1>1, <1>2, <1>4, <1>5, <1>7, <1>8, <1>9, <1>10, <1>11 DEF TypeInv, WriteTypes, Stack

LEMMA TypesStep == ASSUME TypeInv, [Next]_vars PROVE TypeInv'
<1>1. IInv /\ IInv'
  BY Steps DEF TypeInv
<1>2. CASE Split
  <2>1. phase = "body"
    BY <1>2 DEF Split, New, Use, Move, Spawn, Suspend, Return, BreakOrContinue, OpenPlain,
                OpenSplit, Else, ClosePlain, CloseSplit, Finish, Writing
  <2>2. Typing /\ Unstarted(run) /\ left \in 0 .. MaxStmts
    BY <1>1, <2>1 DEF IInv, TypeInv, Typing, Ready
  <2>3. CASE Finish
    <3>1. /\ fields' \subseteq Names /\ Nests(code, {}) /\ segs' \in Seq(Seq(RunCode(Len(code))))
          /\ cur \in DOMAIN segs' /\ code' = code /\ UNCHANGED <<bodies, cur, left, run>>
      BY <2>2, <2>3, FinishTypes
    <3>2. phase' = "run"
      BY <2>3 DEF Finish
    <3>3. segs' \in Seq(Seq(Instr))
      BY <1>1, <3>2 DEF IInv, Sealed
    <3> QED  BY <1>1, <3>1, <3>2, <3>3 DEF TypeInv, Typed, IsRun
  <2>4. CASE phase' = "refused" /\ UNCHANGED <<source, run>>
    <3>1. InCode(run, segs)
      BY <2>2 DEF Unstarted, InCode
    <3>2. run \in Machine
      BY <3>1, TypedMachine DEF TypeInv
    <3> QED  BY <1>1, <2>4, <3>2 DEF TypeInv, source, Typed, IsRun
  <2>5. CASE ~Finish /\ phase' # "refused"
    <3>1. WriteTypes(bodies', code', segs')
      BY <1>2, <2>2, <2>5, SplitTypes
    <3>2. phase' = "body" /\ UNCHANGED <<fields, run>> /\ (left' = left \/ (left > 0 /\ left' = left - 1))
      BY <1>2, <2>1, <2>5 DEF Split, New, Use, Move, Spawn, Suspend, Return, BreakOrContinue, OpenPlain,
                OpenSplit, Else, ClosePlain, CloseSplit, Writing, Write, Open
    <3>3. Shape(bodies, segs, cur)'
      BY <1>1, <3>2 DEF IInv
    <3>4. left' \in 0 .. MaxStmts
      BY <2>2, <3>2, CoopAssumption
    <3> QED  BY <1>1, <3>1, <3>2, <3>3, <3>4 DEF TypeInv, Shape, Lists, Typed, IsRun
  <2>6. ~Finish /\ phase' = "refused" => UNCHANGED <<source, run>>
    BY <1>2, <2>1 DEF Split, New, Use, Move, Spawn, Suspend, Return, BreakOrContinue, OpenPlain,
                OpenSplit, Else, ClosePlain, CloseSplit, Writing, Write, Open
  <2> QED  BY <2>3, <2>4, <2>5, <2>6
<1>3. CASE Execute
  <2>1. phase = "run"
    BY <1>3 DEF Execute, Start, Reads, RunNew, RunSpawn, RunTake, Completes, Blocks, Wake,
                Goto, Branch, PlainOpen, PlainClose, PlainJump, RunReturn, Step
  <2>2. Running
    BY <1>1, <2>1 DEF IInv, TypeInv, Running
  <2>3. UNCHANGED source /\ phase' \in {"run", "refused"} /\ (phase' = "refused" => run' = run)
    BY <1>3, <2>1 DEF Execute, Start, Reads, RunNew, RunSpawn, RunTake, Completes, Blocks, Wake,
                Goto, Branch, PlainOpen, PlainClose, PlainJump, RunReturn, Becomes
  <2>4. Typed(run')
    <3>1. CASE Moves
      BY <3>1 DEF Moves, Becomes
    <3>2. CASE UNCHANGED <<source, run>>
      BY <2>2, <3>2 DEF Running
    <3> QED  BY <1>3, <2>2, <3>1, <3>2, ExecuteTypes
  <2>5. phase' = "refused" => run' \in Machine
    <3>1. run \in Machine
      BY <2>2, TypedMachine DEF Running, TypeInv
    <3> QED  BY <2>3, <3>1
  <2> QED  BY <1>1, <2>1, <2>3, <2>4, <2>5 DEF TypeInv, source, Typed, IsRun
<1>4. CASE UNCHANGED vars
  BY <1>1, <1>4 DEF TypeInv, vars, source, Typed, IsRun
<1> QED  BY <1>2, <1>3, <1>4 DEF Next

LEMMA TypesHold == ASSUME TypeInv PROVE TypeOK
<1>1. phase = "run" => InCode(run, segs)
  BY DEF TypeInv, IInv
<1>2. run \in Machine
  <2>1. CASE phase = "body"
    <3>1. InCode(run, segs)
      BY <2>1 DEF TypeInv, IInv, Unstarted, InCode
    <3> QED  BY <3>1, TypedMachine DEF TypeInv
  <2>2. CASE phase = "run"
    BY <1>1, <2>2, TypedMachine DEF TypeInv
  <2> QED  BY <2>1, <2>2 DEF TypeInv, IInv
<1>3. phase = "run" /\ run.at = "segment" => run.pc \in DOMAIN Segment
  BY <1>1 DEF InCode, Segment
<1> QED  BY <1>2, <1>3 DEF TypeInv, TypeOK, IInv

(* Whatever goroutine is split and whatever blocks, what buildFrameInfo and  *)
(* rewrite build and what runs of it are well formed: the frame has fields   *)
(* for names of the source only, every state has a sequence of instructions, *)
(* registers, frame and source hold values, the task is in one of the calls  *)
(* that block or in none, and while it runs it is at an instruction: no      *)
(* segment is run off its end.                                               *)
THEOREM CoopTypes == Spec => []TypeOK
<1>1. Init => TypeInv
  BY TypesStart
<1>2. TypeInv /\ [Next]_vars => TypeInv'
  BY TypesStep
<1>3. TypeInv => TypeOK
  BY TypesHold
<1> QED  BY <1>1, <1>2, <1>3, PTL DEF Spec

-----------------------------------------------------------------------------
(* A segment while the splitter fills it.  s, t and u are segments, i the    *)
(* instruction that opens a copied body, c the close that belongs to it; the *)
(* bodies open have no close yet.                                            *)
Brackets(s, i, c) == c \in DOMAIN s /\ s[c].op = "close" /\ s[c].to = i
Openings(s)       == {i \in DOMAIN s : s[i].op \in AllKinds}
Within(s, i, k)   == i <= k /\ \A c \in DOMAIN s : Brackets(s, i, c) => k <= c

(* Each opening is open or closed once, behind it.                           *)
Bracketed(s, open) ==
    /\ open \subseteq Openings(s)
    /\ \A i \in Openings(s) : i \in open \/ \E c \in DOMAIN s : Brackets(s, i, c)
    /\ \A c \in DOMAIN s : s[c].op = "close" =>
            /\ s[c].to \in Openings(s) /\ s[c].to < c /\ s[c].to \notin open
            /\ \A d \in DOMAIN s : Brackets(s, s[c].to, d) => d = c

(* A body that begins inside another one ends inside it.                     *)
Laminar(s) ==
    \A i, j \in Openings(s) : \A c \in DOMAIN s :
        i < j /\ j <= c /\ Brackets(s, i, c) => \E d \in DOMAIN s : Brackets(s, j, d) /\ d < c

(* A jump that was copied stays in its loop.                                 *)
JumpsWithin(s) ==
    \A k \in DOMAIN s :
        s[k].op \in Jumps => s[k].to \in Openings(s) /\ s[k].to < k /\ Within(s, s[k].to, k)

(* A copied body does not move a name that it assigns.                       *)
Pure(s) ==
    \A i \in Openings(s) : \A j, k \in DOMAIN s :
        Within(s, i, j) /\ Within(s, i, k) /\ s[j].op = "new" /\ s[k].op = "move" => s[j].name # s[k].name

(* An instruction that leaves the segment is its last one.                   *)
EndsLast(s) == \A k \in DOMAIN s : s[k].op \in Terminal => k = Len(s)

Neat(s, open) == Bracketed(s, open) /\ Laminar(s) /\ JumpsWithin(s) /\ Pure(s) /\ EndsLast(s)

(* A receive and the binding of its flag come together; a call and the       *)
(* prologue bind rc, and nothing moves it; a read is of a name.              *)
Hidden(i)    == i.op = "new" /\ ~i.shown
NameKnown(i) == i.op \in {"use", "move"} => i.name \in Names
Binds(s) ==
    \A k \in DOMAIN s :
        /\ s[k].op = "recv" => k - 1 \in DOMAIN s /\ Hidden(s[k - 1])
        /\ Hidden(s[k]) => s[k].name = "closed" /\ k + 1 \in DOMAIN s /\ s[k + 1].op = "recv"
        /\ s[k].op \in Calls \cup {"take"} => s[k].name = "rc"
        /\ s[k].op = "move" => s[k].name # "rc"
        /\ NameKnown(s[k])

(* u is t and the instruction e.                                             *)
Longer(t, u, e) ==
    /\ t \in Seq(Instr) /\ u \in Seq(Instr) /\ e \in Instr
    /\ Len(u) = Len(t) + 1 /\ u[Len(t) + 1] = e /\ \A j \in 1 .. Len(t) : u[j] = t[j]

LEMMA LongerIs ==
    ASSUME NEW t \in Seq(Instr), NEW e \in Instr PROVE Longer(t, t \o <<e>>, e)
<1> DEFINE u == t \o <<e>>
<1>1. u \in Seq(Instr) /\ Len(u) = Len(t) + 1
  OBVIOUS
<1>2. u[Len(t) + 1] = e /\ \A j \in 1 .. Len(t) : u[j] = t[j]
  OBVIOUS
<1> QED  BY <1>1, <1>2 DEF Longer

(* What an instruction more changes.                                         *)
LEMMA LongerHas ==
    ASSUME NEW t, NEW u, NEW e, Longer(t, u, e)
    PROVE  /\ Len(t) \in Nat /\ DOMAIN t = 1 .. Len(t) /\ DOMAIN u = 1 .. Len(t) + 1
           /\ \A j \in DOMAIN u : IF j = Len(t) + 1 THEN u[j] = e /\ j \notin DOMAIN t
                                  ELSE j \in DOMAIN t /\ u[j] = t[j] /\ j <= Len(t) /\ j < Len(t) + 1
           /\ \A j \in DOMAIN t : j \in DOMAIN u /\ j <= Len(t) /\ j # Len(t) + 1 /\ u[j] = t[j]
           /\ \A j \in DOMAIN u : j \in Nat
           /\ Len(t) + 1 \in DOMAIN u /\ Len(t) + 1 \in Nat
<1>1. Len(t) \in Nat /\ DOMAIN t = 1 .. Len(t) /\ DOMAIN u = 1 .. Len(t) + 1
  BY DEF Longer
<1>2. \A j \in 1 .. Len(t) : u[j] = t[j]
  BY DEF Longer
<1>3. u[Len(t) + 1] = e
  BY DEF Longer
<1> QED  BY <1>1, <1>2, <1>3

LEMMA LongerBrackets ==
    ASSUME NEW t, NEW u, NEW e, Longer(t, u, e), NEW i, NEW c
    PROVE  Brackets(u, i, c) <=> Brackets(t, i, c) \/ (c = Len(t) + 1 /\ e.op = "close" /\ e.to = i)
  BY LongerHas DEF Brackets

LEMMA LongerOpenings ==
    ASSUME NEW t, NEW u, NEW e, Longer(t, u, e)
    PROVE  Openings(u) = Openings(t) \cup (IF e.op \in AllKinds THEN {Len(t) + 1} ELSE {})
  BY LongerHas DEF Openings

(* An instruction that neither opens nor closes.                             *)
LEMMA NeatOn ==
    ASSUME NEW t, NEW u, NEW e, Longer(t, u, e), NEW open, Neat(t, open), ~Ended(t),
           e.op \notin AllKinds, e.op # "close", e.op \in Jumps => e.to \in open,
           \A i \in open : \A k \in DOMAIN t : i <= k /\ t[k].name = e.name =>
                /\ ~(t[k].op = "new" /\ e.op = "move")
                /\ ~(t[k].op = "move" /\ e.op = "new")
    PROVE  Neat(u, open)
<1>0. /\ Len(t) \in Nat /\ DOMAIN t = 1 .. Len(t) /\ DOMAIN u = 1 .. Len(t) + 1
      /\ \A j \in DOMAIN u : IF j = Len(t) + 1 THEN u[j] = e /\ j \notin DOMAIN t
                             ELSE j \in DOMAIN t /\ u[j] = t[j] /\ j <= Len(t) /\ j < Len(t) + 1
      /\ \A j \in DOMAIN t : j \in DOMAIN u /\ j <= Len(t) /\ j # Len(t) + 1 /\ u[j] = t[j]
      /\ \A j \in DOMAIN u : j \in Nat
      /\ Len(t) + 1 \in DOMAIN u /\ Len(t) + 1 \in Nat
  BY LongerHas
<1> USE <1>0
<1>1. Openings(u) = Openings(t) /\ \A i, c : Brackets(u, i, c) <=> Brackets(t, i, c)
  <2>1. Openings(u) = Openings(t)
    BY LongerOpenings
  <2>2. \A i, c : Brackets(u, i, c) <=> Brackets(t, i, c)
    BY LongerBrackets
  <2> QED  BY <2>1, <2>2
<1>2. Bracketed(u, open)
  <2>1. Bracketed(t, open)
    BY DEF Neat
  <2>2. \A i \in Openings(u) : i \in open \/ \E c \in DOMAIN u : Brackets(u, i, c)
    BY <1>1, <2>1 DEF Bracketed
  <2>3. ASSUME NEW c \in DOMAIN u, u[c].op = "close"
        PROVE  /\ u[c].to \in Openings(u) /\ u[c].to < c /\ u[c].to \notin open
               /\ \A d \in DOMAIN u : Brackets(u, u[c].to, d) => d = c
    <3>1. c \in DOMAIN t /\ t[c] = u[c]
      BY <2>3
    <3>2. \A d : Brackets(t, t[c].to, d) => d = c
      BY <2>1, <2>3, <3>1 DEF Bracketed, Brackets
    <3> QED  BY <1>1, <2>1, <2>3, <3>1, <3>2 DEF Bracketed
  <2> QED  BY <1>1, <2>1, <2>2, <2>3 DEF Bracketed
<1>3. Laminar(u)
  <2>1. Laminar(t)
    BY DEF Neat
  <2> SUFFICES ASSUME NEW i \in Openings(u), NEW j \in Openings(u), NEW c \in DOMAIN u,
                      i < j, j <= c, Brackets(u, i, c)
               PROVE  \E d \in DOMAIN u : Brackets(u, j, d) /\ d < c
    BY DEF Laminar
  <2>2. Brackets(t, i, c) /\ c \in DOMAIN t
    BY <1>1 DEF Brackets
  <2>3. \E d \in DOMAIN t : Brackets(t, j, d) /\ d < c
    BY <1>1, <2>1, <2>2 DEF Laminar
  <2> QED  BY <1>1, <2>3
<1>4. ASSUME NEW i \in Openings(t), NEW k PROVE Within(u, i, k) <=> Within(t, i, k)
  BY <1>1 DEF Within, Brackets
<1>5. JumpsWithin(u)
  <2> SUFFICES ASSUME NEW k \in DOMAIN u, u[k].op \in Jumps
               PROVE  u[k].to \in Openings(u) /\ u[k].to < k /\ Within(u, u[k].to, k)
    BY DEF JumpsWithin
  <2>1. CASE k \in DOMAIN t
    <3>1. t[k] = u[k]
      BY <2>1
    <3>2. t[k].to \in Openings(t) /\ t[k].to < k /\ Within(t, t[k].to, k)
      BY <2>1, <3>1 DEF Neat, JumpsWithin
    <3> QED  BY <1>1, <1>4, <3>1, <3>2
  <2>2. CASE k \notin DOMAIN t
    <3>1. k = Len(t) + 1 /\ u[k] = e /\ e.to \in open
      BY <2>2
    <3>2. e.to \in Openings(t) /\ \A c : ~Brackets(t, e.to, c)
      BY <3>1 DEF Neat, Bracketed, Brackets
    <3>3. e.to \in DOMAIN t /\ e.to < k /\ e.to <= k
      BY <3>1, <3>2 DEF Openings
    <3> QED  BY <1>1, <3>1, <3>2, <3>3 DEF Within
  <2> QED  BY <2>1, <2>2
<1>6. Pure(u)
  <2> SUFFICES ASSUME NEW i \in Openings(u), NEW j \in DOMAIN u, NEW k \in DOMAIN u,
                      Within(u, i, j), Within(u, i, k), u[j].op = "new", u[k].op = "move",
                      u[j].name = u[k].name
               PROVE  FALSE
    BY DEF Pure
  <2>1. i \in Openings(t) /\ Within(t, i, j) /\ Within(t, i, k)
    BY <1>1, <1>4
  <2>2. CASE j \in DOMAIN t /\ k \in DOMAIN t
    BY <2>1, <2>2 DEF Neat, Pure
  <2>3. CASE ~(j \in DOMAIN t /\ k \in DOMAIN t)
    <3>1. PICK l \in DOMAIN t : /\ l = j \/ l = k
                                /\ Within(t, i, l) /\ t[l].name = e.name
                                /\ (t[l].op = "new" /\ e.op = "move") \/ (t[l].op = "move" /\ e.op = "new")
      BY <2>1, <2>3
    <3>2. i \in open
      <4>1. Within(t, i, Len(t) + 1)
        BY <2>1, <2>3
      <4>2. ASSUME NEW c \in DOMAIN t, Brackets(t, i, c) PROVE FALSE
        <5>1. Len(t) + 1 <= c
          BY <4>1, <4>2 DEF Within
        <5> QED  BY <5>1
      <4> QED  BY <2>1, <4>2 DEF Neat, Bracketed
    <3>3. i <= l
      BY <3>1 DEF Within
    <3> QED  BY <3>1, <3>2, <3>3
  <2> QED  BY <2>2, <2>3
<1>7. EndsLast(u)
  <2> SUFFICES ASSUME NEW k \in DOMAIN u, u[k].op \in Terminal PROVE k = Len(u)
    BY DEF EndsLast
  <2>1. Len(u) = Len(t) + 1
    BY DEF Longer
  <2>2. CASE k \in DOMAIN t
    <3>1. k = Len(t)
      BY <2>2 DEF Neat, EndsLast
    <3>2. Ended(t)
      BY <2>2, <3>1 DEF Ended
    <3> QED  BY <3>2
  <2> QED  BY <2>1, <2>2
<1> QED  BY <1>2, <1>3, <1>5, <1>6, <1>7 DEF Neat

LEMMA NeatEmpty == Neat(<<>>, {}) /\ Binds(<<>>)
  BY DEF Neat, Bracketed, Openings, Laminar, JumpsWithin, Pure, EndsLast, Binds

(* An instruction that opens a copied body, and one that closes it.          *)
LEMMA NeatOpen ==
    ASSUME NEW t, NEW u, NEW e, Longer(t, u, e), NEW open, Neat(t, open), ~Ended(t), e.op \in AllKinds
    PROVE  Neat(u, open \cup {Len(t) + 1})
<1>0. /\ Len(t) \in Nat /\ DOMAIN t = 1 .. Len(t) /\ DOMAIN u = 1 .. Len(t) + 1
      /\ \A j \in DOMAIN u : IF j = Len(t) + 1 THEN u[j] = e /\ j \notin DOMAIN t
                             ELSE j \in DOMAIN t /\ u[j] = t[j] /\ j <= Len(t) /\ j < Len(t) + 1
      /\ \A j \in DOMAIN t : j \in DOMAIN u /\ j <= Len(t) /\ j # Len(t) + 1 /\ u[j] = t[j]
      /\ \A j \in DOMAIN u : j \in Nat
      /\ Len(t) + 1 \in DOMAIN u /\ Len(t) + 1 \in Nat
  BY LongerHas
<1> DEFINE l == Len(t) + 1
<1>e. e.op # "close" /\ e.op \notin Jumps /\ e.op # "new" /\ e.op # "move" /\ e.op \notin Terminal
  BY DEF AllKinds, Loops, Jumps, Terminal, Transfers, Calls
<1>1. Openings(u) = Openings(t) \cup {l} /\ \A i, c : Brackets(u, i, c) <=> Brackets(t, i, c)
  <2>1. Openings(u) = Openings(t) \cup {l}
    BY LongerOpenings
  <2>2. \A i, c : Brackets(u, i, c) <=> Brackets(t, i, c)
    BY <1>e, LongerBrackets
  <2> QED  BY <2>1, <2>2
<1> USE <1>0
<1>2. l \notin Openings(t) /\ Openings(t) \subseteq DOMAIN t
  BY DEF Openings
<1>2a. \A c \in DOMAIN t : t[c].op = "close" => t[c].to # l
  BY <1>2 DEF Neat, Bracketed
<1>2b. \A c : ~Brackets(u, l, c)
  BY <1>1, <1>2a DEF Brackets
<1>3. Bracketed(u, open \cup {l})
  <2>1. Bracketed(t, open)
    BY DEF Neat
  <2>2. \A i \in Openings(u) : i \in open \cup {l} \/ \E c \in DOMAIN u : Brackets(u, i, c)
    BY <1>1, <2>1 DEF Bracketed
  <2>3. ASSUME NEW c \in DOMAIN u, u[c].op = "close"
        PROVE  /\ u[c].to \in Openings(u) /\ u[c].to < c /\ u[c].to \notin open \cup {l}
               /\ \A d \in DOMAIN u : Brackets(u, u[c].to, d) => d = c
    <3>1. c \in DOMAIN t /\ t[c] = u[c]
      BY <1>e, <2>3
    <3>2. \A d : Brackets(t, t[c].to, d) => d = c
      BY <2>1, <2>3, <3>1 DEF Bracketed, Brackets
    <3> QED  BY <1>1, <1>2a, <2>1, <2>3, <3>1, <3>2 DEF Bracketed
  <2> QED  BY <1>1, <2>1, <2>2, <2>3 DEF Bracketed
<1>4. Laminar(u)
  <2> SUFFICES ASSUME NEW i \in Openings(u), NEW j \in Openings(u), NEW c \in DOMAIN u,
                      i < j, j <= c, Brackets(u, i, c)
               PROVE  \E d \in DOMAIN u : Brackets(u, j, d) /\ d < c
    BY DEF Laminar
  <2>1. Brackets(t, i, c) /\ c \in DOMAIN t /\ c <= Len(t)
    BY <1>1 DEF Brackets
  <2>2. i \in Openings(t) /\ j \in Openings(t)
    BY <1>1, <1>2b, <2>1
  <2>3. \E d \in DOMAIN t : Brackets(t, j, d) /\ d < c
    BY <2>1, <2>2 DEF Laminar, Neat
  <2> QED  BY <1>1, <2>3
<1>5. ASSUME NEW i \in Openings(t), NEW k PROVE Within(u, i, k) <=> Within(t, i, k)
  BY <1>1 DEF Within, Brackets
<1>6. JumpsWithin(u)
  <2> SUFFICES ASSUME NEW k \in DOMAIN u, u[k].op \in Jumps
               PROVE  u[k].to \in Openings(u) /\ u[k].to < k /\ Within(u, u[k].to, k)
    BY DEF JumpsWithin
  <2>1. k \in DOMAIN t /\ t[k] = u[k]
    BY <1>e
  <2>2. t[k].to \in Openings(t) /\ t[k].to < k /\ Within(t, t[k].to, k)
    BY <2>1 DEF Neat, JumpsWithin
  <2> QED  BY <1>1, <1>5, <2>1, <2>2
<1>7. Pure(u)
  <2> SUFFICES ASSUME NEW i \in Openings(u), NEW j \in DOMAIN u, NEW k \in DOMAIN u,
                      Within(u, i, j), Within(u, i, k), u[j].op = "new", u[k].op = "move",
                      u[j].name = u[k].name
               PROVE  FALSE
    BY DEF Pure
  <2>1. j \in DOMAIN t /\ k \in DOMAIN t /\ t[j] = u[j] /\ t[k] = u[k]
    BY <1>e
  <2>2. i \in Openings(t)
    BY <1>1, <2>1 DEF Within
  <2>3. Within(t, i, j) /\ Within(t, i, k)
    BY <1>5, <2>2
  <2> QED  BY <2>1, <2>2, <2>3 DEF Neat, Pure
<1>8. EndsLast(u)
  <2> SUFFICES ASSUME NEW k \in DOMAIN u, u[k].op \in Terminal PROVE FALSE
    BY DEF EndsLast
  <2>1. k \in DOMAIN t /\ t[k] = u[k]
    BY <1>e
  <2>2. k = Len(t)
    BY <2>1 DEF Neat, EndsLast
  <2> QED  BY <2>1, <2>2 DEF Ended
<1> QED  BY <1>3, <1>4, <1>6, <1>7, <1>8 DEF Neat

LEMMA NeatClose ==
    ASSUME NEW t, NEW u, NEW e, Longer(t, u, e), NEW open, Neat(t, open), ~Ended(t),
           e.op = "close", e.to \in open, \A o \in open : o <= e.to
    PROVE  Neat(u, open \ {e.to})
<1>0. /\ Len(t) \in Nat /\ DOMAIN t = 1 .. Len(t) /\ DOMAIN u = 1 .. Len(t) + 1
      /\ \A j \in DOMAIN u : IF j = Len(t) + 1 THEN u[j] = e /\ j \notin DOMAIN t
                             ELSE j \in DOMAIN t /\ u[j] = t[j] /\ j <= Len(t) /\ j < Len(t) + 1
      /\ \A j \in DOMAIN t : j \in DOMAIN u /\ j <= Len(t) /\ j # Len(t) + 1 /\ u[j] = t[j]
      /\ \A j \in DOMAIN u : j \in Nat
      /\ Len(t) + 1 \in DOMAIN u /\ Len(t) + 1 \in Nat
  BY LongerHas
<1> DEFINE l == Len(t) + 1
<1>e. e.op \notin AllKinds /\ e.op \notin Jumps /\ e.op # "new" /\ e.op # "move" /\ e.op \notin Terminal
  BY DEF AllKinds, Loops, Jumps, Terminal, Transfers, Calls
<1>1. Openings(u) = Openings(t) /\ \A i, c : Brackets(u, i, c) <=> Brackets(t, i, c) \/ (c = l /\ e.to = i)
  <2>1. Openings(u) = Openings(t)
    BY <1>e, LongerOpenings
  <2>2. \A i, c : Brackets(u, i, c) <=> Brackets(t, i, c) \/ (c = l /\ e.to = i)
    BY LongerBrackets
  <2> QED  BY <2>1, <2>2
<1> USE <1>0
<1>2. /\ e.to \in Openings(t) /\ e.to \in DOMAIN t /\ e.to < l /\ Openings(t) \subseteq DOMAIN t
      /\ \A c : ~Brackets(t, e.to, c)
  <2>1. e.to \in Openings(t) /\ Openings(t) \subseteq DOMAIN t
    BY DEF Neat, Bracketed, Openings
  <2>2. \A c : ~Brackets(t, e.to, c)
    BY DEF Neat, Bracketed, Brackets
  <2> QED  BY <2>1, <2>2
<1>3. Bracketed(u, open \ {e.to})
  <2>1. Bracketed(t, open)
    BY DEF Neat
  <2>2. \A i \in Openings(u) : i \in open \ {e.to} \/ \E c \in DOMAIN u : Brackets(u, i, c)
    BY <1>1, <2>1 DEF Bracketed
  <2>3. ASSUME NEW c \in DOMAIN u, u[c].op = "close"
        PROVE  /\ u[c].to \in Openings(u) /\ u[c].to < c /\ u[c].to \notin open \ {e.to}
               /\ \A d \in DOMAIN u : Brackets(u, u[c].to, d) => d = c
    <3>1. CASE c = l
      <4>1. u[c] = e
        BY <3>1
      <4>2. \A d : Brackets(u, e.to, d) => d = c
        BY <1>1, <1>2, <3>1
      <4> QED  BY <1>1, <1>2, <3>1, <4>1, <4>2
    <3>2. CASE c # l
      <4>1. c \in DOMAIN t /\ t[c] = u[c] /\ t[c].op = "close"
        BY <2>3, <3>2
      <4>2. /\ t[c].to \in Openings(t) /\ t[c].to < c /\ t[c].to \notin open
            /\ \A d : Brackets(t, t[c].to, d) => d = c
        BY <2>1, <4>1 DEF Bracketed, Brackets
      <4>3. \A d : Brackets(u, t[c].to, d) => d = c
        BY <1>1, <4>2
      <4> QED  BY <1>1, <4>1, <4>2, <4>3
    <3> QED  BY <3>1, <3>2
  <2> QED  BY <1>1, <2>1, <2>2, <2>3 DEF Bracketed
<1>4. Laminar(u)
  <2> SUFFICES ASSUME NEW i \in Openings(u), NEW j \in Openings(u), NEW c \in DOMAIN u,
                      i < j, j <= c, Brackets(u, i, c)
               PROVE  \E d \in DOMAIN u : Brackets(u, j, d) /\ d < c
    BY DEF Laminar
  <2>1. CASE Brackets(t, i, c)
    <3>1. c \in DOMAIN t
      BY <2>1 DEF Brackets
    <3>2. \E d \in DOMAIN t : Brackets(t, j, d) /\ d < c
      BY <1>1, <2>1, <3>1 DEF Laminar, Neat
    <3> QED  BY <1>1, <3>2
  <2>2. CASE ~Brackets(t, i, c)
    <3>1. c = l /\ e.to = i
      BY <1>1, <2>2
    <3>2. j \notin open
      <4>1. j \in DOMAIN t /\ i \in DOMAIN t
        BY <1>1, <1>2
      <4>2. ~(j <= i)
        BY <4>1
      <4> QED  BY <3>1, <4>2
    <3>3. PICK d \in DOMAIN t : Brackets(t, j, d)
      BY <1>1, <3>2 DEF Neat, Bracketed
    <3> QED  BY <1>1, <3>1, <3>3
  <2> QED  BY <2>1, <2>2
<1>5. ASSUME NEW i \in Openings(t), NEW k \in DOMAIN t PROVE Within(u, i, k) <=> Within(t, i, k)
  <2>1. k <= l
    OBVIOUS
  <2> QED  BY <1>1, <2>1 DEF Within, Brackets
<1>6. JumpsWithin(u)
  <2> SUFFICES ASSUME NEW k \in DOMAIN u, u[k].op \in Jumps
               PROVE  u[k].to \in Openings(u) /\ u[k].to < k /\ Within(u, u[k].to, k)
    BY DEF JumpsWithin
  <2>1. k \in DOMAIN t /\ t[k] = u[k]
    BY <1>e
  <2>2. t[k].to \in Openings(t) /\ t[k].to < k /\ Within(t, t[k].to, k)
    BY <2>1 DEF Neat, JumpsWithin
  <2> QED  BY <1>1, <1>5, <2>1, <2>2
<1>7. Pure(u)
  <2> SUFFICES ASSUME NEW i \in Openings(u), NEW j \in DOMAIN u, NEW k \in DOMAIN u,
                      Within(u, i, j), Within(u, i, k), u[j].op = "new", u[k].op = "move",
                      u[j].name = u[k].name
               PROVE  FALSE
    BY DEF Pure
  <2>1. j \in DOMAIN t /\ k \in DOMAIN t /\ t[j] = u[j] /\ t[k] = u[k]
    BY <1>e
  <2>3. Within(t, i, j) /\ Within(t, i, k) /\ i \in Openings(t)
    BY <1>1, <1>5, <2>1
  <2> QED  BY <2>1, <2>3 DEF Neat, Pure
<1>8. EndsLast(u)
  <2> SUFFICES ASSUME NEW k \in DOMAIN u, u[k].op \in Terminal PROVE FALSE
    BY DEF EndsLast
  <2>1. k \in DOMAIN t /\ t[k] = u[k]
    BY <1>e
  <2>2. k = Len(t)
    BY <2>1 DEF Neat, EndsLast
  <2> QED  BY <2>1, <2>2 DEF Ended
<1> QED  BY <1>3, <1>4, <1>6, <1>7, <1>8 DEF Neat

(* Bindings stay together.                                                   *)
LEMMA BindsGlue ==
    ASSUME NEW s \in Seq(Instr), NEW t \in Seq(Instr), Binds(s), Binds(t)
    PROVE  Binds(s \o t)
<1> DEFINE u == s \o t
<1>1. /\ u \in Seq(Instr) /\ Len(s) \in Nat /\ DOMAIN s \subseteq DOMAIN u
      /\ \A j \in DOMAIN s : u[j] = s[j]
      /\ \A k \in DOMAIN t : k + Len(s) \in DOMAIN u /\ u[k + Len(s)] = t[k]
      /\ \A j \in DOMAIN u : j \in DOMAIN s \/ \E k \in DOMAIN t : j = k + Len(s)
  BY Glue
<1>2. \A k \in DOMAIN t : k \in Nat /\ (k + Len(s)) - 1 = (k - 1) + Len(s) /\ (k + Len(s)) + 1 = (k + 1) + Len(s)
  BY <1>1
<1> HIDE DEF u
<1> SUFFICES ASSUME NEW k \in DOMAIN u
             PROVE  /\ u[k].op = "recv" => k - 1 \in DOMAIN u /\ Hidden(u[k - 1])
                    /\ Hidden(u[k]) => u[k].name = "closed" /\ k + 1 \in DOMAIN u /\ u[k + 1].op = "recv"
                    /\ u[k].op \in Calls \cup {"take"} => u[k].name = "rc"
                    /\ u[k].op = "move" => u[k].name # "rc"
                    /\ NameKnown(u[k])
  BY DEF Binds, u
<1>3. CASE k \in DOMAIN s
  <2>1. /\ s[k].op = "recv" => k - 1 \in DOMAIN s /\ Hidden(s[k - 1])
        /\ Hidden(s[k]) => s[k].name = "closed" /\ k + 1 \in DOMAIN s /\ s[k + 1].op = "recv"
        /\ s[k].op \in Calls \cup {"take"} => s[k].name = "rc"
        /\ s[k].op = "move" => s[k].name # "rc"
        /\ NameKnown(s[k])
    BY <1>3 DEF Binds
  <2> QED  BY <1>1, <1>3, <2>1
<1>4. CASE k \notin DOMAIN s
  <2>1. PICK m \in DOMAIN t : k = m + Len(s)
    BY <1>1, <1>4
  <2>2. /\ t[m].op = "recv" => m - 1 \in DOMAIN t /\ Hidden(t[m - 1])
        /\ Hidden(t[m]) => t[m].name = "closed" /\ m + 1 \in DOMAIN t /\ t[m + 1].op = "recv"
        /\ t[m].op \in Calls \cup {"take"} => t[m].name = "rc"
        /\ t[m].op = "move" => t[m].name # "rc"
        /\ NameKnown(t[m])
    BY DEF Binds
  <2>3. u[k] = t[m] /\ k - 1 = (m - 1) + Len(s) /\ k + 1 = (m + 1) + Len(s)
    BY <1>1, <1>2, <2>1
  <2>4. m - 1 \in DOMAIN t => k - 1 \in DOMAIN u /\ u[k - 1] = t[m - 1]
    BY <1>1, <2>3
  <2>5. m + 1 \in DOMAIN t => k + 1 \in DOMAIN u /\ u[k + 1] = t[m + 1]
    BY <1>1, <2>3
  <2> QED  BY <2>2, <2>3, <2>4, <2>5
<1> QED  BY <1>3, <1>4

LEMMA BindsOne ==
    ASSUME NEW e \in Instr, e.op # "recv", ~Hidden(e), e.op \in {"wait", "take"} => e.name = "rc",
           e.op = "move" => e.name # "rc", NameKnown(e)
    PROVE  Binds(<<e>>)
  BY DEF Binds, Calls, Hidden

LEMMA BindsTwo ==
    ASSUME NEW a \in Instr, NEW e \in Instr, Hidden(a), a.name = "closed", e.op = "recv", e.name = "rc"
    PROVE  Binds(<<a, e>>)
<1> DEFINE t == <<a, e>>
<1>1. DOMAIN t = {1, 2} /\ t[1] = a /\ t[2] = e
  OBVIOUS
<1>2. 2 - 1 = 1 /\ 1 + 1 = 2
  OBVIOUS
<1> HIDE DEF t
<1>3. Binds(t)
  BY <1>1, <1>2 DEF Binds, Hidden, NameKnown, Calls
<1> QED  BY <1>3 DEF t

(* Where a segment leads: never to the first one, which binds the locals,    *)
(* and a call to one that begins with the prologue that takes the status.    *)
Takes(sg, n) == n \in DOMAIN sg /\ sg[n] # <<>> /\ sg[n][1].op = "take"
Leaves(i, sg) ==
    /\ i.op \in Transfers => i.to # 1
    /\ i.op = "branch" => i.other # 1
    /\ i.op \in Calls => Takes(sg, i.to)

Neats(sg, c, open) == \A s \in DOMAIN sg : Neat(sg[s], IF s = c THEN open ELSE {}) /\ Binds(sg[s])
AllLeave(sg)       == \A s \in DOMAIN sg : \A k \in DOMAIN sg[s] : Leaves(sg[s][k], sg)

(* The openings of the bodies being copied.                                  *)
PlainOpens(bs) == {bs[i].open : i \in {k \in DOMAIN bs : ~bs[k].split}}
Stacks(bs) ==
    /\ \A i, j \in DOMAIN bs : i < j /\ ~bs[i].split /\ ~bs[j].split => bs[i].open < bs[j].open
    /\ \A i \in DOMAIN bs : i > 1 /\ bs[i].split =>
            bs[i].next # 1 /\ (bs[i].kind = "while" => bs[i].head # 1)

(* What the splitter keeps of bodies bs and segments sg, at segment c.       *)
Vals(bs, sg, c) == Stacks(bs) /\ Neats(sg, c, PlainOpens(bs)) /\ AllLeave(sg)

(* The splitter at work on a body of the ordinary kind.                      *)
Valued == Fresh /\ Vals(bodies, segs, cur) /\ Shapes = {}
StillValued == Vals(bodies', segs', cur')

(* A segment that was begun begins as it did.                                *)
Continues(sg, sg2) ==
    \A n \in DOMAIN sg : n \in DOMAIN sg2 /\ (sg[n] # <<>> => sg2[n] # <<>> /\ sg2[n][1] = sg[n][1])

LEMMA LeaveMore ==
    ASSUME NEW sg, NEW sg2, AllLeave(sg), Continues(sg, sg2),
           \A s \in DOMAIN sg2 : \A k \in DOMAIN sg2[s] :
               \/ s \in DOMAIN sg /\ k \in DOMAIN sg[s] /\ sg2[s][k] = sg[s][k]
               \/ Leaves(sg2[s][k], sg2)
    PROVE  AllLeave(sg2)
<1>1. ASSUME NEW i, Leaves(i, sg) PROVE Leaves(i, sg2)
  BY <1>1 DEF Leaves, Takes, Continues
<1> QED  BY <1>1 DEF AllLeave

(* More instructions in one segment.                                         *)
LEMMA GrownContinues ==
    ASSUME NEW sg \in Seq(Seq(Instr)), NEW c \in DOMAIN sg, NEW t \in Seq(Instr)
    PROVE  Continues(sg, Grown(sg, c, t))
<1> DEFINE g == Grown(sg, c, t)
<1>1. /\ DOMAIN g = DOMAIN sg /\ sg[c] \in Seq(Instr) /\ g[c] = sg[c] \o t
      /\ \A s \in DOMAIN sg : s # c => g[s] = sg[s]
  BY GrownIs
<1> HIDE DEF g
<1> DEFINE v == sg[c]
<1>2. v \in Seq(Instr) /\ v # <<>> => v \o t # <<>> /\ (v \o t)[1] = v[1]
  <2>1. v \in Seq(Instr)
    BY <1>1
  <2> HIDE DEF v
  <2> QED  BY <2>1
<1>3. sg[c] # <<>> => g[c] # <<>> /\ g[c][1] = sg[c][1]
  BY <1>1, <1>2
<1> QED  BY <1>1, <1>3 DEF Continues, g

LEMMA GrownNeats ==
    ASSUME NEW sg \in Seq(Seq(Instr)), NEW c \in DOMAIN sg, NEW t \in Seq(Instr),
           NEW open, NEW open2, Neats(sg, c, open), Binds(t), Neat(sg[c] \o t, open2)
    PROVE  Neats(Grown(sg, c, t), c, open2)
<1> DEFINE g == Grown(sg, c, t)
<1>1. /\ DOMAIN g = DOMAIN sg /\ sg[c] \in Seq(Instr) /\ g[c] = sg[c] \o t
      /\ \A s \in DOMAIN sg : s # c => g[s] = sg[s]
  BY GrownIs
<1>2. Binds(g[c])
  BY <1>1, BindsGlue DEF Neats
<1> HIDE DEF g
<1>3. Neats(g, c, open2)
  BY <1>1, <1>2 DEF Neats
<1> QED  BY <1>3 DEF g

LEMMA GrownLeaves ==
    ASSUME NEW sg \in Seq(Seq(Instr)), NEW c \in DOMAIN sg, NEW e \in Instr,
           AllLeave(sg), NEW g, g = Grown(sg, c, <<e>>), Leaves(e, g)
    PROVE  AllLeave(g)
<1>1. /\ DOMAIN g = DOMAIN sg /\ sg[c] \in Seq(Instr) /\ g[c] = sg[c] \o <<e>>
      /\ \A s \in DOMAIN sg : s # c => g[s] = sg[s]
  BY GrownOne
<1>2. Longer(sg[c], g[c], e)
  BY <1>1, LongerIs
<1>3. \A k \in DOMAIN g[c] : (k \in DOMAIN sg[c] /\ g[c][k] = sg[c][k]) \/ g[c][k] = e
  BY <1>2, LongerHas
<1>4. Continues(sg, g)
  <2>1. <<e>> \in Seq(Instr)
    OBVIOUS
  <2> QED  BY <2>1, GrownContinues
<1>5. \A s \in DOMAIN g : \A k \in DOMAIN g[s] :
               \/ s \in DOMAIN sg /\ k \in DOMAIN sg[s] /\ g[s][k] = sg[s][k]
               \/ Leaves(g[s][k], g)
  BY <1>1, <1>3
<1> QED  BY <1>4, <1>5, LeaveMore

LEMMA NoOpens ==
    ASSUME NEW bs, \A i \in DOMAIN bs : bs[i].split PROVE PlainOpens(bs) = {}
  BY DEF PlainOpens

LEMMA SplitOpensNone ==
    ASSUME Ready, Top.split PROVE PlainOpens(bodies) = {} /\ \A i \in DOMAIN bodies : bodies[i].split
<1>1. \A i \in DOMAIN bodies : bodies[i].split
  BY TopIs, AllSplit DEF Ready, Shape, Lists
<1> QED  BY <1>1, NoOpens

LEMMA SameVals ==
    ASSUME NEW bs \in Seq(Body), NEW bs2 \in Seq(Body), SameAts(bs, bs2), Stacks(bs)
    PROVE  Stacks(bs2) /\ PlainOpens(bs2) = PlainOpens(bs)
<1>1. DOMAIN bs2 = DOMAIN bs /\ DOMAIN bs = 1 .. Len(bs)
  BY DEF SameAts
<1>2. \A i \in DOMAIN bs : /\ bs2[i].split = bs[i].split /\ bs2[i].open = bs[i].open
                           /\ bs2[i].next = bs[i].next /\ bs2[i].head = bs[i].head
                           /\ bs2[i].kind = bs[i].kind
  BY <1>1 DEF SameAts
<1>3. PlainOpens(bs2) = PlainOpens(bs)
  BY <1>1, <1>2 DEF PlainOpens
<1>4. Stacks(bs2)
  BY <1>1, <1>2 DEF Stacks
<1> QED  BY <1>3, <1>4

(* The open bodies that are not split, and what has been copied of them.     *)
LEMMA PlainPartHas ==
    ASSUME Ready, Stacks(bodies), NEW i \in PlainOpens(bodies), NEW k \in DOMAIN segs[cur], i <= k
    PROVE  segs[cur][k] \in PlainPart
<1>1. bodies \in Seq(Body) /\ segs[cur] \in Seq(Instr)
  BY TopIs DEF Ready
<1>2. PICK m \in Plain : i = bodies[m].open
  BY DEF PlainOpens, Plain
<1>3. Plain \in SUBSET Nat /\ Plain # {}
  BY <1>1, <1>2 DEF Plain
<1>4. PICK x \in Plain : \A y \in Plain : x <= y
  BY <1>3, LeastNumber
<1>5. Outermost \in Plain /\ \A y \in Plain : Outermost <= y
  BY <1>4 DEF Outermost
<1>6. Outermost \in Nat /\ m \in Nat /\ Outermost <= m
  BY <1>2, <1>3, <1>5
<1>7. Outermost = m \/ Outermost < m
  BY <1>6
<1>8. bodies[Outermost].open \in Nat /\ i \in Nat
  <2>1. Outermost \in DOMAIN bodies /\ m \in DOMAIN bodies
    BY <1>2, <1>5 DEF Plain
  <2>2. bodies[Outermost] \in Body /\ bodies[m] \in Body
    BY <1>1, <2>1
  <2> QED  BY <1>2, <2>2 DEF Body
<1>9. bodies[Outermost].open <= i
  BY <1>2, <1>5, <1>7, <1>8 DEF Stacks, Plain
<1>10. k \in bodies[Outermost].open .. Len(segs[cur])
  BY <1>1, <1>8, <1>9
<1> QED  BY <1>3, <1>10 DEF PlainPart

LEMMA NotEnded ==
    ASSUME Fresh, ~Top.exited \/ ~Top.split PROVE ~Ended(segs[cur])
<1>1. Top = bodies[Len(bodies)]
  BY TopIs DEF Fresh, Ready
<1> QED  BY <1>1 DEF Fresh, Writes, WriteInv, ExitKnown

(* One instruction of an ordinary statement.                                 *)
LEMMA OneVals ==
    ASSUME Valued, ~Top.exited, NEW bs \in Seq(Body), SameAts(bodies, bs),
           NEW e \in Instr, e.op \notin AllKinds, e.op # "close", e.op \in Jumps => e.to \in PlainOpens(bodies),
           e.op \notin Calls, e.op \notin {"take", "branch"}, ~Hidden(e),
           e.op \in Transfers => e.to # 1, e.op = "move" => e.name # "rc", NameKnown(e),
           e.op = "new" => ~Mixes("move", e.name), e.op = "move" => ~Mixes("new", e.name)
    PROVE  Vals(bs, Extended(<<e>>), cur)
<1> DEFINE g == Grown(segs, cur, <<e>>)
           open == PlainOpens(bodies)
<1>1. /\ Ready /\ bodies \in Seq(Body) /\ segs \in Seq(Seq(Instr)) /\ cur \in DOMAIN segs
      /\ segs[cur] \in Seq(Instr) /\ <<e>> \in Seq(Instr)
  BY TopIs, OneInstruction DEF Valued, Fresh, Ready
<1>2. Longer(segs[cur], segs[cur] \o <<e>>, e)
  BY <1>1, LongerIs
<1>3. Neat(segs[cur], open) /\ ~Ended(segs[cur]) /\ Stacks(bodies)
  BY <1>1, NotEnded DEF Valued, Vals, Neats
<1>4. ASSUME NEW i \in open, NEW k \in DOMAIN segs[cur], i <= k, segs[cur][k].name = e.name
      PROVE  /\ ~(segs[cur][k].op = "new" /\ e.op = "move")
             /\ ~(segs[cur][k].op = "move" /\ e.op = "new")
  <2>1. segs[cur][k] \in PlainPart
    BY <1>1, <1>3, <1>4, PlainPartHas
  <2> QED  BY <1>4, <2>1 DEF Mixes
<1>5. Neat(segs[cur] \o <<e>>, open)
  <2> HIDE DEF open
  <2>1. e.op \in Jumps => e.to \in open
    BY DEF open
  <2> QED  BY <1>2, <1>3, <1>4, <2>1, NeatOn
<1>6. Binds(<<e>>)
  BY BindsOne DEF Calls
<1>7. Neats(g, cur, open)
  BY <1>1, <1>5, <1>6, GrownNeats DEF Valued, Vals
<1>8. Leaves(e, g)
  BY DEF Leaves
<1>9. AllLeave(g)
  BY <1>1, <1>8, GrownLeaves DEF Valued, Vals
<1>10. Stacks(bs) /\ PlainOpens(bs) = open
  BY <1>1, <1>3, SameVals
<1> HIDE DEF g, open
<1>11. Vals(bs, g, cur)
  BY <1>7, <1>9, <1>10 DEF Vals
<1> QED  BY <1>11, ExtendedGrows DEF g

LEMMA VisibleAs ==
    ASSUME NEW i \in Instr
    PROVE  LET v == Visible(i) IN
           v \in Instr /\ v.op = i.op /\ v.name = i.name /\ v.to = i.to /\ v.other = i.other /\ v.shown
  BY DEF Visible, Instr

(* What an instruction made for this statement is.                           *)
IsMade(i, op, name, to) ==
    i \in Instr /\ i.op = op /\ i.name = name /\ i.to = to /\ i.shown \in BOOLEAN

LEMMA Made1 ==
    ASSUME code \in Seq(Stmt), NEW op \in Ops, NEW name \in Names \cup {""}, NEW to \in Nat
    PROVE  /\ IsMade(I(op, name, to), op, name, to) /\ ~I(op, name, to).shown
           /\ IsMade(Visible(I(op, name, to)), op, name, to) /\ Visible(I(op, name, to)).shown
<1> DEFINE i == I(op, name, to)
<1>1. i \in Instr /\ i.op = op /\ i.name = name /\ i.to = to /\ ~i.shown
  BY HereIs DEF I, Instr, Ops
<1> HIDE DEF i
<1>2. LET v == Visible(i) IN
      v \in Instr /\ v.op = i.op /\ v.name = i.name /\ v.to = i.to /\ v.other = i.other /\ v.shown
  BY <1>1, VisibleAs
<1>3. IsMade(i, op, name, to) /\ IsMade(Visible(i), op, name, to)
  <2>1. i.shown \in BOOLEAN /\ Visible(i).shown \in BOOLEAN
    BY <1>1, <1>2 DEF Instr
  <2> QED  BY <1>1, <1>2, <2>1 DEF IsMade
<1> QED  BY <1>1, <1>2, <1>3 DEF i

(* The actions of the splitter.                                              *)
LEMMA NewVals ==
    ASSUME Valued, New PROVE StillValued
<1>1. PICK name \in Locals :
        /\ ~Top.exited /\ ~Mixes("move", name)
        /\ Write(bodies, <<S("new", name, 0)>>, Extended(<<Visible(I("new", name, 0))>>), cur)
  BY DEF New, Writing, Valued
<1> DEFINE e == Visible(I("new", name, 0))
<1>2. e \in Instr /\ e.op = "new" /\ e.name = name /\ e.shown
  <2>1. "new" \in Ops /\ name \in Names \cup {""} /\ code \in Seq(Stmt)
    BY <1>1 DEF Ops, Names, Valued, Fresh, Ready
  <2>2. 0 \in Nat
    OBVIOUS
  <2>3. IsMade(e, "new", name, 0) /\ e.shown
    BY ZenonT(30), <2>1, <2>2, Made1
  <2> QED  BY <2>3 DEF IsMade
<1>3. bodies' = bodies /\ segs' = Extended(<<e>>) /\ cur' = cur
  BY <1>1 DEF Write
<1>4. bodies \in Seq(Body) /\ SameAts(bodies, bodies)
  BY TopIs, SameAtsSelf DEF Valued, Fresh, Ready
<1> HIDE DEF e
<1>5. Vals(bodies, Extended(<<e>>), cur)
  BY <1>1, <1>2, <1>4, OneVals DEF Hidden, NameKnown, Names, Locals, AllKinds, Loops, Jumps, Calls, Transfers
<1> QED  BY <1>3, <1>5 DEF StillValued

LEMMA UseVals ==
    ASSUME Valued, Use PROVE StillValued
<1>1. PICK name \in Names :
        /\ ~Top.exited
        /\ Write(bodies, <<S("use", name, 0)>>, Extended(<<Visible(I("use", name, 0))>>), cur)
  BY DEF Use, Writing, Names
<1> DEFINE e == Visible(I("use", name, 0))
<1>2. e \in Instr /\ e.op = "use" /\ e.name = name /\ e.shown
  <2>1. "use" \in Ops /\ name \in Names \cup {""} /\ code \in Seq(Stmt)
    BY <1>1 DEF Ops, Names, Valued, Fresh, Ready
  <2>2. 0 \in Nat
    OBVIOUS
  <2>3. IsMade(e, "use", name, 0) /\ e.shown
    BY ZenonT(30), <2>1, <2>2, Made1
  <2> QED  BY <2>3 DEF IsMade
<1>3. bodies' = bodies /\ segs' = Extended(<<e>>) /\ cur' = cur
  BY <1>1 DEF Write
<1>4. bodies \in Seq(Body) /\ SameAts(bodies, bodies)
  BY TopIs, SameAtsSelf DEF Valued, Fresh, Ready
<1> HIDE DEF e
<1>5. Vals(bodies, Extended(<<e>>), cur)
  BY <1>1, <1>2, <1>4, OneVals DEF Hidden, NameKnown, Names, Locals, AllKinds, Loops, Jumps, Calls, Transfers
<1> QED  BY <1>3, <1>5 DEF StillValued

LEMMA MoveVals ==
    ASSUME Valued, Move PROVE StillValued
<1> DEFINE e == Visible(I("move", "chan", 0))
<1>1. /\ ~Top.exited /\ ~Mixes("new", "chan")
      /\ Write(bodies, <<S("move", "chan", 0)>>, Extended(<<e>>), cur)
  BY DEF Move, Writing, Valued
<1>2. e \in Instr /\ e.op = "move" /\ e.name = "chan" /\ e.shown
  <2>1. "move" \in Ops /\ "chan" \in Names \cup {""} /\ code \in Seq(Stmt)
    BY <1>1 DEF Ops, Names, Locals, Valued, Fresh, Ready
  <2>2. 0 \in Nat
    OBVIOUS
  <2>3. IsMade(e, "move", "chan", 0) /\ e.shown
    BY ZenonT(30), <2>1, <2>2, Made1
  <2> QED  BY <2>3 DEF IsMade
<1>3. bodies' = bodies /\ segs' = Extended(<<e>>) /\ cur' = cur
  BY <1>1 DEF Write
<1>4. bodies \in Seq(Body) /\ SameAts(bodies, bodies)
  BY TopIs, SameAtsSelf DEF Valued, Fresh, Ready
<1> HIDE DEF e
<1>5. Vals(bodies, Extended(<<e>>), cur)
  BY <1>1, <1>2, <1>4, OneVals DEF Hidden, NameKnown, Names, Locals, AllKinds, Loops, Jumps, Calls, Transfers
<1> QED  BY <1>3, <1>5 DEF StillValued

LEMMA SpawnVals ==
    ASSUME Valued, Spawn PROVE StillValued
<1> DEFINE e == Visible(I("spawn", "", 0))
<1>1. ~Top.exited /\ Write(bodies, <<S("spawn", "", 0)>>, Extended(<<e>>), cur)
  BY DEF Spawn, Writing
<1>2. e \in Instr /\ e.op = "spawn" /\ e.shown
  <2>1. "spawn" \in Ops /\ "" \in Names \cup {""} /\ code \in Seq(Stmt)
    BY <1>1 DEF Ops, Valued, Fresh, Ready
  <2>2. 0 \in Nat
    OBVIOUS
  <2>3. IsMade(e, "spawn", "", 0) /\ e.shown
    BY ZenonT(30), <2>1, <2>2, Made1
  <2> QED  BY <2>3 DEF IsMade
<1>3. bodies' = bodies /\ segs' = Extended(<<e>>) /\ cur' = cur
  BY <1>1 DEF Write
<1>4. bodies \in Seq(Body) /\ SameAts(bodies, bodies)
  BY TopIs, SameAtsSelf DEF Valued, Fresh, Ready
<1> HIDE DEF e
<1>5. Vals(bodies, Extended(<<e>>), cur)
  BY <1>1, <1>2, <1>4, OneVals DEF Hidden, NameKnown, Names, Locals, AllKinds, Loops, Jumps, Calls, Transfers
<1> QED  BY <1>3, <1>5 DEF StillValued

(* The body whose last statement jumps.                                      *)
LEMMA ExitedSame ==
    ASSUME Valued
    PROVE  LET bs == WithTop([Top EXCEPT !.exited = TRUE]) IN bs \in Seq(Body) /\ SameAts(bodies, bs)
<1> DEFINE b == [Top EXCEPT !.exited = TRUE]
<1>1. b \in Body /\ SameAts(bodies, WithTop(b))
  BY TopSame DEF Valued
<1>2. bodies \in Seq(Body) /\ bodies # <<>>
  BY DEF Valued, Fresh, Ready, Shape, Lists
<1> HIDE DEF b
<1>3. WithTop(b) \in Seq(Body)
  BY <1>1, <1>2, Retopped DEF WithTop
<1> QED  BY <1>1, <1>3 DEF b

LEMMA ReturnVals ==
    ASSUME Valued, Return PROVE StillValued
<1> DEFINE e == Visible(I("finish", "", 0))
           bs == WithTop([Top EXCEPT !.exited = TRUE])
<1>1. ~Top.exited /\ Top.split
  BY DEF Return, Writing, Valued
<1>2. e \in Instr /\ e.op = "finish" /\ e.shown
  <2>1. "finish" \in Ops /\ "" \in Names \cup {""} /\ code \in Seq(Stmt)
    BY <1>1 DEF Ops, Valued, Fresh, Ready
  <2>2. 0 \in Nat
    OBVIOUS
  <2>3. IsMade(e, "finish", "", 0) /\ e.shown
    BY ZenonT(30), <2>1, <2>2, Made1
  <2> QED  BY <2>3 DEF IsMade
<1>3. bodies' = bs /\ segs' = Extended(<<e>>) /\ cur' = cur
  BY <1>1 DEF Return, Write
<1>4. bs \in Seq(Body) /\ SameAts(bodies, bs)
  BY ExitedSame
<1> HIDE DEF e, bs
<1>5. Vals(bs, Extended(<<e>>), cur)
  BY <1>1, <1>2, <1>4, OneVals DEF Hidden, NameKnown, Names, Locals, AllKinds, Loops, Jumps, Calls, Transfers
<1> QED  BY <1>3, <1>5 DEF StillValued

LEMMA BreakOrContinueVals ==
    ASSUME Valued, BreakOrContinue, phase' = "body" PROVE StillValued
<1> DEFINE e(op) == Visible(IF Top.split THEN I("goto", "", Target(op)) ELSE I(op, "", Innermost.open))
           bs == WithTop([Top EXCEPT !.exited = TRUE])
<1>1. Shape(bodies, segs, cur) /\ code \in Seq(Stmt) /\ LoopBodies # {} /\ Stacks(bodies)
      /\ bodies \in Seq(Body) /\ Ready
  BY TopIs DEF Valued, Fresh, Ready, BreakOrContinue, Vals
<1>2. PICK k \in DOMAIN bodies : Innermost = bodies[k] /\ k > 1 /\ bodies[k].kind \in Loops
  BY <1>1, InnermostIs
<1>3. PICK op \in Jumps :
        /\ ~Top.exited /\ ~(Innermost.split /\ ~Top.split)
        /\ bodies' = bs /\ segs' = Extended(<<e(op)>>) /\ cur' = cur
  BY DEF BreakOrContinue, Writing, Write
<1>4. bs \in Seq(Body) /\ SameAts(bodies, bs)
  BY ExitedSame
<1>5. bodies[k] \in Body
  BY <1>1, <1>2
<1>6. Target(op) \in Nat /\ Innermost.open \in Nat
  BY <1>2, <1>5 DEF Target, Body
<1>7. op \in Ops /\ "goto" \in Ops /\ "" \in Names \cup {""}
  BY <1>3 DEF Ops, Jumps
<1>8. CASE Top.split
  <2>1. bodies[k].split
    BY <1>1, <1>8, SplitOpensNone
  <2>2. bodies[k].kind = "while" /\ bodies[k].next # 1 /\ bodies[k].head # 1
    <3>1. bodies[k].kind # "for"
      BY <1>1, <1>2, <2>1 DEF Shape, Places, SplitPlaces
    <3> QED  BY <1>1, <1>2, <2>1, <3>1 DEF Stacks, Loops
  <2>3. Target(op) # 1
    BY <1>2, <2>2 DEF Target
  <2> DEFINE f == Visible(I("goto", "", Target(op)))
  <2>4. f \in Instr /\ f.op = "goto" /\ f.to = Target(op) /\ f.shown
    <3>1. IsMade(f, "goto", "", Target(op)) /\ f.shown
      BY <1>1, <1>6, <1>7, Made1
    <3> QED  BY <3>1 DEF IsMade
  <2>5. e(op) = f
    BY <1>8
  <2> HIDE DEF f, e, bs
  <2>6. Vals(bs, Extended(<<f>>), cur)
    BY <1>3, <1>4, <2>3, <2>4, OneVals
       DEF Hidden, NameKnown, Names, Locals, AllKinds, Loops, Jumps, Calls, Transfers
  <2> QED  BY <1>3, <2>5, <2>6 DEF StillValued
<1>9. CASE ~Top.split
  <2>1. Innermost.open \in PlainOpens(bodies)
    BY <1>2, <1>3, <1>9 DEF PlainOpens
  <2> DEFINE f == Visible(I(op, "", Innermost.open))
  <2>2. f \in Instr /\ f.op = op /\ f.to = Innermost.open /\ f.shown
    <3>1. IsMade(f, op, "", Innermost.open) /\ f.shown
      BY <1>1, <1>6, <1>7, Made1
    <3> QED  BY <3>1 DEF IsMade
  <2>3. e(op) = f
    BY <1>9
  <2> HIDE DEF f, e, bs
  <2>4. op \in {"break", "continue"}
    BY DEF Jumps
  <2>5. Vals(bs, Extended(<<f>>), cur)
    BY <1>3, <1>4, <2>1, <2>2, <2>4, OneVals
       DEF Hidden, NameKnown, Names, Locals, AllKinds, Loops, Calls, Transfers
  <2> QED  BY <1>3, <2>3, <2>5 DEF StillValued
<1> QED  BY <1>8, <1>9

LEMMA OpenPlainVals ==
    ASSUME Valued, OpenPlain PROVE StillValued
<1> DEFINE i(kind) == IF kind = "block" THEN I(kind, "", 0) ELSE Visible(I(kind, "", 0))
           b(kind) == [NewBody(kind) EXCEPT !.open = Len(segs[cur]) + 1]
<1>1. PICK kind \in AllKinds :
        /\ ~Top.exited /\ bodies' = Append(bodies, b(kind))
        /\ segs' = Extended(<<i(kind)>>) /\ cur' = cur
  <2>1. PICK kind \in Kinds : Writing /\ Open(b(kind), Extended(<<i(kind)>>), cur)
    BY DEF OpenPlain
  <2>2. kind \in AllKinds
    BY <2>1, CoopAssumption
  <2> QED  BY <2>1, <2>2 DEF Open, Write, Writing
<1>2. /\ Ready /\ bodies \in Seq(Body) /\ segs \in Seq(Seq(Instr)) /\ cur \in DOMAIN segs
      /\ segs[cur] \in Seq(Instr) /\ Stacks(bodies) /\ code \in Seq(Stmt) /\ Places(bodies, segs, cur)
  BY TopIs DEF Valued, Fresh, Ready, Vals, Shape
<1>3. i(kind) \in Instr /\ i(kind).op = kind
  <2>1. kind \in Ops /\ "" \in Names \cup {""}
    BY DEF Ops
  <2>2. /\ I(kind, "", 0) \in Instr /\ I(kind, "", 0).op = kind
        /\ Visible(I(kind, "", 0)) \in Instr /\ Visible(I(kind, "", 0)).op = kind
    <3>1. 0 \in Nat
      OBVIOUS
    <3>2. IsMade(I(kind, "", 0), kind, "", 0) /\ IsMade(Visible(I(kind, "", 0)), kind, "", 0)
      BY <1>2, <2>1, <3>1, Made1
    <3> QED  BY <3>2 DEF IsMade
  <2> QED  BY <2>2
<1>4. ~b(kind).split /\ b(kind).open = Len(segs[cur]) + 1
  BY DEF NewBody
<1> DEFINE t == segs[cur]
           l == Len(segs[cur]) + 1
           bs == Append(bodies, b(kind))
           open == PlainOpens(bodies)
           g == Grown(segs, cur, <<i(kind)>>)
<1> HIDE DEF i, b
<1>5. /\ DOMAIN bs = 1 .. Len(bodies) + 1 /\ DOMAIN bodies = 1 .. Len(bodies) /\ Len(bodies) \in Nat
      /\ bs[Len(bodies) + 1] = b(kind) /\ \A j \in DOMAIN bodies : bs[j] = bodies[j]
  BY <1>2
<1>6. \A j \in DOMAIN bodies : ~bodies[j].split => bodies[j].open \in DOMAIN t
  BY <1>2 DEF Places, PlainPlaces
<1>7. Len(t) \in Nat /\ \A m \in DOMAIN t : m < l
  BY <1>2
<1> HIDE DEF bs
<1>8. PlainOpens(bs) = open \cup {l}
  <2>1. \A j \in DOMAIN bs : j \in DOMAIN bodies \/ j = Len(bodies) + 1
    BY <1>5
  <2>2. Len(bodies) + 1 \in DOMAIN bs /\ DOMAIN bodies \subseteq DOMAIN bs
    BY <1>5
  <2> QED  BY <1>4, <1>5, <2>1, <2>2 DEF PlainOpens
<1>9. Stacks(bs)
  <2>1. ASSUME NEW x \in DOMAIN bs, NEW y \in DOMAIN bs, x < y, ~bs[x].split, ~bs[y].split
        PROVE  bs[x].open < bs[y].open
    <3>1. x \in DOMAIN bodies
      BY <1>5, <2>1
    <3>2. CASE y \in DOMAIN bodies
      BY <1>2, <1>5, <2>1, <3>1, <3>2 DEF Stacks
    <3>3. CASE y = Len(bodies) + 1
      BY <1>4, <1>5, <1>6, <1>7, <2>1, <3>1, <3>3
    <3> QED  BY <1>5, <3>2, <3>3
  <2>2. ASSUME NEW x \in DOMAIN bs, x > 1, bs[x].split
        PROVE  bs[x].next # 1 /\ (bs[x].kind = "while" => bs[x].head # 1)
    <3>1. x \in DOMAIN bodies
      BY <1>4, <1>5, <2>2
    <3> QED  BY <1>2, <1>5, <2>2, <3>1 DEF Stacks
  <2> QED  BY <2>1, <2>2 DEF Stacks
<1>10. Longer(t, t \o <<i(kind)>>, i(kind))
  BY <1>2, <1>3, LongerIs
<1>11. Neat(t, open) /\ ~Ended(t)
  BY <1>1, <1>2, NotEnded DEF Valued, Vals, Neats
<1>12. Neat(t \o <<i(kind)>>, open \cup {l})
  <2> HIDE DEF open
  <2> QED  BY <1>3, <1>10, <1>11, NeatOpen
<1>13. Binds(<<i(kind)>>) /\ <<i(kind)>> \in Seq(Instr)
  BY <1>3, BindsOne, OneInstruction DEF Hidden, NameKnown, Names, Locals, AllKinds, Loops
<1>14. Neats(g, cur, open \cup {l})
  <2> HIDE DEF open, l
  <2> QED  BY <1>2, <1>12, <1>13, GrownNeats DEF Valued, Vals, open
<1>15. AllLeave(g)
  <2>1. Leaves(i(kind), g)
    BY <1>3 DEF Leaves, AllKinds, Loops, Transfers, Calls
  <2> QED  BY <1>2, <1>3, <2>1, GrownLeaves DEF Valued, Vals
<1> HIDE DEF g
<1>16. Vals(bs, g, cur)
  BY <1>8, <1>9, <1>14, <1>15 DEF Vals
<1> QED  BY <1>1, <1>16, ExtendedGrows DEF StillValued, g, bs

LEMMA ClosePlainVals ==
    ASSUME Valued, ClosePlain PROVE StillValued
<1> DEFINE e == I("close", "", Top.open)
           t == segs[cur]
           bs == Front(bodies)
           open == PlainOpens(bodies)
           g == Grown(segs, cur, <<e>>)
           n == Len(bodies)
<1>1. n > 1 /\ ~Top.split /\ bodies' = bs /\ segs' = g /\ cur' = cur
  BY ExtendedGrows DEF ClosePlain
<1>2. /\ Ready /\ bodies \in Seq(Body) /\ segs \in Seq(Seq(Instr)) /\ cur \in DOMAIN segs
      /\ segs[cur] \in Seq(Instr) /\ Stacks(bodies) /\ code \in Seq(Stmt)
      /\ Top = bodies[n] /\ Top \in Body /\ n \in DOMAIN bodies /\ DOMAIN bodies = 1 .. n /\ n \in Nat
  BY TopIs DEF Valued, Fresh, Ready, Vals, Shape
<1>3. /\ DOMAIN bs = 1 .. n - 1 /\ \A j \in 1 .. n - 1 : bs[j] = bodies[j]
  <2>1. bs \in Seq(Body) /\ Len(bs) = n - 1 /\ \A j \in 1 .. n - 1 : bs[j] = bodies[j]
    BY <1>1, <1>2, PopIs
  <2> HIDE DEF bs, n
  <2>2. DOMAIN bs = 1 .. Len(bs)
    BY <2>1
  <2> QED  BY <2>1, <2>2
<1>4. e \in Instr /\ e.op = "close" /\ e.to = Top.open /\ ~e.shown
  <2>1. "close" \in Ops /\ "" \in Names \cup {""} /\ Top.open \in Nat
    BY <1>2 DEF Ops, Body
  <2>2. IsMade(e, "close", "", Top.open) /\ ~e.shown
    BY <1>2, <2>1, Made1
  <2> QED  BY <2>2 DEF IsMade
<1>5. \A j \in DOMAIN bodies : j \in 1 .. n - 1 \/ j = n
  BY <1>2
<1>6. \A j \in 1 .. n - 1 : j \in DOMAIN bodies /\ j < n
  BY <1>2
<1>7. \A j \in DOMAIN bodies : ~bodies[j].split /\ j # n => bodies[j].open < Top.open
  BY <1>1, <1>2, <1>5, <1>6 DEF Stacks
<1>8. ASSUME NEW j \in DOMAIN bodies PROVE bodies[j].open \in Nat
  <2>1. bodies[j] \in Body
    BY <1>2
  <2> QED  BY <2>1 DEF Body
<1>9. Top.open \in open /\ \A o \in open : o <= Top.open
  <2>1. Top.open \in open
    BY <1>1, <1>2 DEF PlainOpens
  <2>2. ASSUME NEW o \in open PROVE o <= Top.open
    <3>1. PICK j \in DOMAIN bodies : ~bodies[j].split /\ o = bodies[j].open
      BY <2>2 DEF PlainOpens
    <3>2. o \in Nat /\ Top.open \in Nat
      BY <1>2, <1>8, <3>1
    <3> QED  BY <1>2, <1>7, <3>1, <3>2
  <2> QED  BY <2>1, <2>2
<1> HIDE DEF e, bs, n
<1>10. PlainOpens(bs) = open \ {Top.open}
  <2>1. ASSUME NEW o \in PlainOpens(bs) PROVE o \in open \ {Top.open}
    <3>1. PICK j \in DOMAIN bs : ~bs[j].split /\ o = bs[j].open
      BY DEF PlainOpens
    <3>2. j \in DOMAIN bodies /\ j # n /\ bodies[j] = bs[j]
      BY <1>2, <1>3, <1>6, <3>1
    <3>3. o < Top.open /\ o \in Nat /\ Top.open \in Nat
      BY <1>2, <1>7, <1>8, <3>1, <3>2
    <3>4. o # Top.open
      BY <3>3
    <3> QED  BY <3>1, <3>2, <3>4 DEF PlainOpens
  <2>2. ASSUME NEW o \in open, o # Top.open PROVE o \in PlainOpens(bs)
    <3>1. PICK j \in DOMAIN bodies : ~bodies[j].split /\ o = bodies[j].open
      BY DEF PlainOpens
    <3>2. j \in DOMAIN bs /\ bs[j] = bodies[j]
      BY <1>2, <1>3, <1>5, <2>2, <3>1
    <3> QED  BY <3>1, <3>2 DEF PlainOpens
  <2> HIDE DEF open
  <2> QED  BY <2>1, <2>2
<1>11. Stacks(bs)
  <2>1. \A j \in DOMAIN bs : j \in DOMAIN bodies /\ bs[j] = bodies[j]
    BY <1>3, <1>6
  <2> QED  BY <1>2, <2>1 DEF Stacks
<1>12. Longer(t, t \o <<e>>, e)
  BY <1>2, <1>4, LongerIs
<1>13. Neat(t, open) /\ ~Ended(t)
  BY <1>1, <1>2, NotEnded DEF Valued, Vals, Neats
<1>14. Neat(t \o <<e>>, open \ {Top.open})
  <2> HIDE DEF open, t
  <2> QED  BY <1>4, <1>9, <1>12, <1>13, NeatClose
<1>15. Binds(<<e>>) /\ <<e>> \in Seq(Instr)
  BY <1>4, BindsOne, OneInstruction DEF Hidden, NameKnown, Names, Locals
<1>16. Neats(g, cur, open \ {Top.open})
  <2>1. Neats(segs, cur, open)
    BY DEF Valued, Vals
  <2> HIDE DEF open
  <2> QED  BY <1>2, <1>14, <1>15, <2>1, GrownNeats
<1>17. AllLeave(g)
  <2>1. Leaves(e, g)
    BY <1>4 DEF Leaves, Transfers, Calls
  <2> QED  BY <1>2, <1>4, <2>1, GrownLeaves DEF Valued, Vals
<1> HIDE DEF g
<1>18. Vals(bs, g, cur)
  BY <1>10, <1>11, <1>16, <1>17 DEF Vals
<1> QED  BY <1>1, <1>18 DEF StillValued

(* A segment between whose instructions no copied body is open.              *)
Tidy(s)     == Neat(s, {}) /\ Binds(s)
AllTidy(sg) == \A s \in DOMAIN sg : Tidy(sg[s])

(* Segment s of sg2 is that of sg and more, and tidy.                        *)
Lengthens(s, sg, sg2) ==
    \E t \in Seq(Instr) : /\ sg2[s] = sg[s] \o t /\ Tidy(sg2[s])
                          /\ \A k \in DOMAIN t : Leaves(t[k], sg2)

LEMMA TidyOn ==
    ASSUME NEW t \in Seq(Instr), Tidy(t), ~Ended(t), NEW e \in Instr,
           e.op \notin AllKinds \cup Jumps \cup {"close", "recv"}, ~Hidden(e),
           e.op \in {"wait", "take"} => e.name = "rc", e.op = "move" => e.name # "rc", NameKnown(e)
    PROVE  Tidy(t \o <<e>>)
<1>1. Longer(t, t \o <<e>>, e)
  BY LongerIs
<1>2. Neat(t \o <<e>>, {})
  <2> DEFINE none == {}
  <2>1. Neat(t, none) /\ \A i : i \notin none
    BY DEF Tidy
  <2> HIDE DEF none
  <2>2. Neat(t \o <<e>>, none)
    BY <1>1, <2>1, NeatOn
  <2> QED  BY <2>2 DEF none
<1>3. Binds(<<e>>) /\ <<e>> \in Seq(Instr)
  BY BindsOne
<1>4. Binds(t \o <<e>>)
  BY <1>3, BindsGlue DEF Tidy
<1> QED  BY <1>2, <1>4 DEF Tidy

LEMMA TidyReceive ==
    ASSUME NEW t \in Seq(Instr), Tidy(t), ~Ended(t), NEW a \in Instr, Hidden(a), a.name = "closed",
           NEW e \in Instr, e.op = "recv", e.name = "rc"
    PROVE  Tidy(t \o (<<a>> \o <<e>>))
<1> DEFINE u == t \o <<a>>
           none == {}
<1>1. Longer(t, u, a) /\ u \in Seq(Instr)
  BY LongerIs
<1>2. Neat(t, none) /\ \A i : i \notin none
  BY DEF Tidy
<1>3. u # <<>> /\ u[Len(u)] = a
  OBVIOUS
<1> HIDE DEF none, u
<1>4. a.op = "new" /\ ~Ended(u)
  BY <1>3 DEF Hidden, Ended, Terminal, Transfers, Calls
<1>5. Neat(u, none)
  BY <1>1, <1>2, <1>4, NeatOn DEF AllKinds, Loops, Jumps
<1>6. Longer(u, u \o <<e>>, e)
  BY <1>1, LongerIs
<1>7. Neat(u \o <<e>>, none)
  BY <1>1, <1>2, <1>4, <1>5, <1>6, NeatOn DEF AllKinds, Loops, Jumps
<1>8. u \o <<e>> = t \o (<<a>> \o <<e>>)
  BY DEF u
<1>9. Binds(<<a>> \o <<e>>) /\ <<a>> \o <<e>> \in Seq(Instr)
  <2>1. <<a>> \o <<e>> = <<a, e>> /\ <<a>> \o <<e>> \in Seq(Instr)
    BY PairIs
  <2> QED  BY <2>1, BindsTwo
<1>10. Binds(t \o (<<a>> \o <<e>>))
  <2> DEFINE w == <<a>> \o <<e>>
  <2>1. w \in Seq(Instr) /\ Binds(w) /\ Binds(t)
    BY <1>9 DEF Tidy
  <2> HIDE DEF w
  <2>2. Binds(t \o w)
    BY <2>1, BindsGlue
  <2> QED  BY <2>2 DEF w
<1> QED  BY <1>7, <1>8, <1>10 DEF Tidy, none

(* What a step of the splitter does to the segments.                         *)
LEMMA TidyMore ==
    ASSUME NEW sg \in Seq(Seq(Instr)), NEW sg2, AllTidy(sg), AllLeave(sg),
           DOMAIN sg \subseteq DOMAIN sg2,
           \A s \in DOMAIN sg2 :
               \/ s \in DOMAIN sg /\ sg2[s] = sg[s]
               \/ s \in DOMAIN sg /\ Lengthens(s, sg, sg2)
               \/ s \notin DOMAIN sg /\ Tidy(sg2[s]) /\ \A k \in DOMAIN sg2[s] : Leaves(sg2[s][k], sg2)
    PROVE  AllTidy(sg2) /\ AllLeave(sg2)
<1>1. AllTidy(sg2)
  BY DEF AllTidy, Lengthens
<1>2. ASSUME NEW s \in DOMAIN sg, Lengthens(s, sg, sg2)
      PROVE  /\ sg[s] # <<>> => sg2[s] # <<>> /\ sg2[s][1] = sg[s][1]
             /\ \A k \in DOMAIN sg2[s] : (k \in DOMAIN sg[s] /\ sg2[s][k] = sg[s][k]) \/ Leaves(sg2[s][k], sg2)
  <2>1. PICK t \in Seq(Instr) : sg2[s] = sg[s] \o t /\ \A k \in DOMAIN t : Leaves(t[k], sg2)
    BY <1>2 DEF Lengthens
  <2> DEFINE v == sg[s]
  <2>2. v \in Seq(Instr)
    OBVIOUS
  <2> HIDE DEF v
  <2>3. v # <<>> => v \o t # <<>> /\ (v \o t)[1] = v[1]
    BY <2>2
  <2>4. \A k \in DOMAIN (v \o t) : (k \in DOMAIN v /\ (v \o t)[k] = v[k]) \/ \E j \in DOMAIN t : (v \o t)[k] = t[j]
    BY <2>2, Glue
  <2> QED  BY <2>1, <2>3, <2>4 DEF v
<1>3. Continues(sg, sg2)
  BY <1>2 DEF Continues
<1>4. \A s \in DOMAIN sg2 : \A k \in DOMAIN sg2[s] :
               \/ s \in DOMAIN sg /\ k \in DOMAIN sg[s] /\ sg2[s][k] = sg[s][k]
               \/ Leaves(sg2[s][k], sg2)
  BY <1>2
<1> QED  BY <1>1, <1>3, <1>4, LeaveMore

LEMMA TidyVals ==
    ASSUME NEW bs, \A i \in DOMAIN bs : bs[i].split, Stacks(bs), NEW sg, AllTidy(sg), AllLeave(sg), NEW c
    PROVE  Vals(bs, sg, c)
<1>1. PlainOpens(bs) = {}
  BY NoOpens
<1>2. Neats(sg, c, {})
  BY DEF Neats, AllTidy, Tidy
<1> QED  BY <1>1, <1>2 DEF Vals

LEMMA ValsTidy ==
    ASSUME Valued, Top.split
    PROVE  /\ AllTidy(segs) /\ AllLeave(segs) /\ Stacks(bodies) /\ \A i \in DOMAIN bodies : bodies[i].split
           /\ segs \in Seq(Seq(Instr)) /\ cur \in DOMAIN segs /\ cur \in 1 .. Len(segs) /\ Len(segs) \in Nat
           /\ DOMAIN segs = 1 .. Len(segs) /\ segs[cur] \in Seq(Instr) /\ Tidy(segs[cur])
           /\ code \in Seq(Stmt) /\ bodies \in Seq(Body) /\ bodies # <<>> /\ Top \in Body
           /\ Top = bodies[Len(bodies)] /\ Top = Last(bodies) /\ Len(bodies) \in DOMAIN bodies
<1>1. Ready /\ Vals(bodies, segs, cur)
  BY DEF Valued, Fresh
<1>2. PlainOpens(bodies) = {} /\ \A i \in DOMAIN bodies : bodies[i].split
  BY <1>1, SplitOpensNone
<1>3. AllTidy(segs)
  BY <1>1, <1>2 DEF Vals, Neats, AllTidy, Tidy
<1>4. AllLeave(segs) /\ Stacks(bodies)
  BY <1>1 DEF Vals
<1>5. /\ Top = bodies[Len(bodies)] /\ Top = Last(bodies) /\ Top \in Body
      /\ Len(bodies) \in DOMAIN bodies
      /\ bodies \in Seq(Body) /\ segs \in Seq(Seq(Instr)) /\ cur \in DOMAIN segs
      /\ segs[cur] \in Seq(Instr) /\ code \in Seq(Stmt)
  BY <1>1, TopIs DEF Ready
<1>6. bodies # <<>>
  BY <1>1 DEF Ready, Shape, Lists
<1>7. cur \in 1 .. Len(segs) /\ Len(segs) \in Nat /\ DOMAIN segs = 1 .. Len(segs)
  BY <1>5
<1>8. Tidy(segs[cur])
  BY <1>3, <1>5 DEF AllTidy
<1> QED  BY <1>2, <1>3, <1>4, <1>5, <1>6, <1>7, <1>8

LEMMA TidyEmpty == Tidy(<<>>)
  BY NeatEmpty DEF Tidy

LEMMA LaterAs ==
    ASSUME NEW i \in Instr
    PROVE  LET v == Later(i) IN
           v \in Instr /\ v.op = i.op /\ v.name = i.name /\ v.to = i.to /\ v.shown = i.shown
<1>0. i.src \in Nat
  BY DEF Instr
<1>1. i.src + 1 \in Nat
  BY <1>0
<1> DEFINE v == [i EXCEPT !.src = @ + 1]
<1>2. v \in Instr
  BY <1>1 DEF Instr
<1>3. v.op = i.op /\ v.name = i.name /\ v.to = i.to /\ v.shown = i.shown
  BY DEF Instr
<1>4. Later(i) = v
  BY DEF Later
<1> QED  BY <1>2, <1>3, <1>4

(* A fork: the current segment ends, and one more begins.                    *)
LEMMA ForkTidy ==
    ASSUME NEW sg \in Seq(Seq(Instr)), AllTidy(sg), AllLeave(sg), NEW c \in 1 .. Len(sg),
           NEW t \in Seq(Instr), NEW u \in Seq(Instr), Tidy(sg[c] \o t), Tidy(u),
           NEW f, f = Forked(sg, c, t, u),
           \A k \in DOMAIN t : Leaves(t[k], f), \A k \in DOMAIN u : Leaves(u[k], f)
    PROVE  AllTidy(f) /\ AllLeave(f)
<1>1. IsForked(f, sg, c, t, u)
  BY ForkedIs
<1>2. /\ DOMAIN f = 1 .. Len(sg) + 1 /\ DOMAIN sg = 1 .. Len(sg) /\ f[Len(sg) + 1] = u
      /\ f[c] = sg[c] \o t /\ \A k \in 1 .. Len(sg) : k # c => f[k] = sg[k]
  BY <1>1 DEF IsForked
<1>3. Len(sg) \in Nat
  OBVIOUS
<1>4. DOMAIN sg \subseteq DOMAIN f /\ \A s \in DOMAIN f : s \in DOMAIN sg \/ (s = Len(sg) + 1 /\ s \notin DOMAIN sg)
  BY <1>2, <1>3
<1>5. Lengthens(c, sg, f)
  BY <1>2 DEF Lengthens
<1>6. \A s \in DOMAIN f :
          \/ s \in DOMAIN sg /\ f[s] = sg[s]
          \/ s \in DOMAIN sg /\ Lengthens(s, sg, f)
          \/ s \notin DOMAIN sg /\ Tidy(f[s]) /\ \A k \in DOMAIN f[s] : Leaves(f[s][k], f)
  BY <1>2, <1>4, <1>5
<1> QED  BY <1>4, <1>6, TidyMore

LEMMA SuspendVals ==
    ASSUME Valued, Suspend PROVE StillValued
<1> DEFINE n == Len(segs) + 1
           a == Later(I("take", "rc", 0))
           e == Later(Visible(I("use", "rc", 0)))
           c0 == I("new", "closed", 0)
           b(call) == [Top EXCEPT !.binds = @ \/ call = "recv"]
           v(call) == Visible(I(call, "rc", n))
           bind(call) == IF call = "recv" THEN <<c0>> ELSE <<>>
<1>1. PICK call \in Calls :
        /\ ~Top.exited /\ Top.split
        /\ bodies' = WithTop(b(call))
        /\ segs' = Append(Extended(bind(call) \o <<v(call)>>), <<a, e>>) /\ cur' = n
  BY DEF Suspend, Writing, Write
<1>2. /\ AllTidy(segs) /\ AllLeave(segs) /\ Stacks(bodies) /\ \A i \in DOMAIN bodies : bodies[i].split
      /\ segs \in Seq(Seq(Instr)) /\ cur \in 1 .. Len(segs) /\ Len(segs) \in Nat
      /\ segs[cur] \in Seq(Instr) /\ Tidy(segs[cur])
      /\ code \in Seq(Stmt) /\ bodies \in Seq(Body) /\ bodies # <<>> /\ Top \in Body /\ Top = Last(bodies)
  BY <1>1, ValsTidy
<1>3. ~Ended(segs[cur])
  BY <1>1, NotEnded DEF Valued
<1>4. n \in Nat /\ 0 \in Nat /\ "rc" \in Names \cup {""} /\ "closed" \in Names \cup {""}
  BY <1>2 DEF Names
<1>5. call \in Ops /\ "take" \in Ops /\ "use" \in Ops /\ "new" \in Ops
  BY <1>1 DEF Ops
<1>6. IsMade(v(call), call, "rc", n) /\ v(call).shown
  <2> HIDE DEF n
  <2> QED  BY <1>2, <1>4, <1>5, Made1
<1>7. IsMade(c0, "new", "closed", 0) /\ ~c0.shown
  BY ZenonT(30), <1>2, <1>4, <1>5, Made1
<1>8. a \in Instr /\ a.op = "take" /\ a.name = "rc"
  <2> DEFINE i == I("take", "rc", 0)
  <2>1. IsMade(i, "take", "rc", 0)
    BY ZenonT(30), <1>2, <1>4, <1>5, Made1
  <2> HIDE DEF i
  <2> QED  BY <2>1, LaterAs DEF IsMade, i
<1>9. e \in Instr /\ e.op = "use" /\ e.name = "rc" /\ e.shown
  <2> DEFINE i == Visible(I("use", "rc", 0))
  <2>1. IsMade(i, "use", "rc", 0) /\ i.shown
    BY ZenonT(30), <1>2, <1>4, <1>5, Made1
  <2> HIDE DEF i
  <2> QED  BY <2>1, LaterAs DEF IsMade, i
<1>10. b(call) \in Body /\ b(call).at = Last(bodies).at /\ b(call).kind = Last(bodies).kind
       /\ b(call).split = Last(bodies).split /\ b(call).open = Last(bodies).open
       /\ b(call).head = Last(bodies).head /\ b(call).next = Last(bodies).next
       /\ b(call).alt \in {Last(bodies).alt, 0}
  BY <1>2 DEF Body
<1> DEFINE bs == WithTop(b(call))
           t == bind(call) \o <<v(call)>>
           f == Forked(segs, cur, t, <<a, e>>)
<1>11. t \in Seq(Instr) /\ Tidy(segs[cur] \o t) /\ \A k \in DOMAIN t : t[k] = v(call) \/ t[k] = c0
  <2>1. v(call) \in Instr /\ v(call).op = call /\ v(call).name = "rc" /\ v(call).shown
        /\ c0 \in Instr /\ c0.op = "new" /\ c0.name = "closed" /\ ~c0.shown
    BY <1>6, <1>7 DEF IsMade
  <2> HIDE DEF v, c0
  <2>2. CASE call = "recv"
    <3>1. t = <<c0>> \o <<v(call)>>
      BY <2>2
    <3> HIDE DEF t
    <3>2. Tidy(segs[cur] \o t)
      BY <1>2, <1>3, <2>1, <2>2, <3>1, TidyReceive DEF Hidden
    <3>3. <<c0>> \o <<v(call)>> = <<c0, v(call)>>
      BY <2>1, PairIs
    <3> QED  BY <2>1, <3>1, <3>2, <3>3
  <2>3. CASE call # "recv"
    <3>1. t = <<v(call)>>
      BY <2>1, <2>3, PairIs
    <3>2. call = "wait"
      BY <2>3 DEF Calls
    <3> HIDE DEF t
    <3>3. Tidy(segs[cur] \o t)
      BY <1>2, <1>3, <2>1, <3>1, <3>2, TidyOn DEF Hidden, NameKnown, Names, Locals, AllKinds, Loops, Jumps
    <3> QED  BY <2>1, <3>1, <3>3
  <2> QED  BY <2>2, <2>3
<1>12. Tidy(<<a, e>>) /\ <<a, e>> \in Seq(Instr)
  <2> HIDE DEF a, e
  <2>1. <<>> \in Seq(Instr) /\ ~Ended(<<>>) /\ <<>> \o <<a>> = <<a>> /\ <<a>> \in Seq(Instr)
        /\ <<a>> \o <<e>> = <<a, e>> /\ <<a, e>> \in Seq(Instr)
    BY <1>8, <1>9, PairIs, EmptyIs DEF Ended
  <2>2. Tidy(<<>> \o <<a>>)
    BY <1>8, <2>1, TidyEmpty, TidyOn DEF Hidden, NameKnown, Names, Locals, AllKinds, Loops, Jumps
  <2>3. ~Ended(<<a>>)
    BY <1>8 DEF Ended, Terminal, Transfers, Calls
  <2>4. Tidy(<<a>> \o <<e>>)
    BY <1>9, <2>1, <2>2, <2>3, TidyOn DEF Hidden, NameKnown, Names, Locals, AllKinds, Loops, Jumps
  <2> QED  BY <2>1, <2>4
<1>13. segs' = f
  BY <1>1, ExtendedGrows DEF Forked
<1>14. bs \in Seq(Body) /\ SameAts(bodies, bs)
  <2> DEFINE x == b(call)
  <2>1. /\ x \in Body /\ x.at = Last(bodies).at /\ x.kind = Last(bodies).kind
        /\ x.split = Last(bodies).split /\ x.open = Last(bodies).open
        /\ x.head = Last(bodies).head /\ x.next = Last(bodies).next
        /\ x.alt \in {Last(bodies).alt, 0}
    BY <1>10
  <2> HIDE DEF x
  <2>2. Append(Front(bodies), x) \in Seq(Body) /\ SameAts(bodies, Append(Front(bodies), x))
    BY <1>2, <2>1, Retopped, SameAtsTop
  <2> QED  BY <2>2 DEF WithTop, x
<1> HIDE DEF bs, t, f, a, e, c0, v, b
<1>15. Takes(f, n)
  <2>1. IsForked(f, segs, cur, t, <<a, e>>)
    BY <1>2, <1>11, <1>12, ForkedIs DEF f
  <2>2. n \in DOMAIN f /\ f[n] = <<a, e>>
    BY <1>2, <2>1 DEF IsForked
  <2>3. <<a, e>> # <<>> /\ <<a, e>>[1] = a
    OBVIOUS
  <2> QED  BY <1>8, <2>2, <2>3 DEF Takes
<1>16. \A k \in DOMAIN t : Leaves(t[k], f)
  <2>1. Leaves(v(call), f)
    <3>1. v(call).op = call /\ v(call).to = n /\ n # 1 /\ call # "branch"
      BY <1>1, <1>2, <1>6 DEF IsMade, Calls
    <3> HIDE DEF n
    <3> QED  BY <1>15, <3>1 DEF Leaves
  <2>2. Leaves(c0, f)
    BY <1>7 DEF Leaves, Transfers, Calls, IsMade
  <2> QED  BY <1>11, <2>1, <2>2
<1>17. \A k \in DOMAIN <<a, e>> : Leaves(<<a, e>>[k], f)
  <2>1. \A k \in DOMAIN <<a, e>> : <<a, e>>[k] = a \/ <<a, e>>[k] = e
    OBVIOUS
  <2>2. Leaves(a, f) /\ Leaves(e, f)
    BY <1>8, <1>9 DEF Leaves, Transfers, Calls
  <2> QED  BY <2>1, <2>2
<1>18. AllTidy(f) /\ AllLeave(f)
  BY <1>2, <1>11, <1>12, <1>16, <1>17, ForkTidy DEF f
<1>19. Stacks(bs) /\ \A i \in DOMAIN bs : bs[i].split
  <2>1. Stacks(bs)
    BY <1>2, <1>14, SameVals
  <2>2. \A i \in DOMAIN bs : i \in DOMAIN bodies
    BY <1>2, <1>14 DEF SameAts
  <2>3. DOMAIN bodies = 1 .. Len(bodies)
    BY <1>2
  <2> QED  BY <1>2, <1>14, <2>1, <2>2, <2>3 DEF SameAts
<1>20. Vals(bs, f, n)
  BY <1>18, <1>19, TidyVals
<1> QED  BY <1>1, <1>13, <1>20 DEF StillValued, bs

LEMMA ThreeTidy ==
    ASSUME NEW sg \in Seq(Seq(Instr)), AllTidy(sg), AllLeave(sg), NEW c \in 1 .. Len(sg),
           NEW t \in Seq(Instr), NEW x \in Seq(Instr), Tidy(sg[c] \o t), Tidy(x),
           NEW f, IsThree(f, sg, c, t, x),
           \A k \in DOMAIN t : Leaves(t[k], f), \A k \in DOMAIN x : Leaves(x[k], f)
    PROVE  AllTidy(f) /\ AllLeave(f)
<1> DEFINE n == Len(sg)
<1>1. /\ DOMAIN f = 1 .. n + 3 /\ DOMAIN sg = 1 .. n /\ n \in Nat
      /\ f[n + 1] = x /\ f[n + 2] = <<>> /\ f[n + 3] = <<>>
      /\ f[c] = sg[c] \o t /\ \A k \in 1 .. n : k # c => f[k] = sg[k]
  BY DEF IsThree
<1> HIDE DEF n
<1>2. DOMAIN sg \subseteq DOMAIN f /\ \A s \in DOMAIN f : s \in DOMAIN sg \/ (s \in {n + 1, n + 2, n + 3} /\ s \notin DOMAIN sg)
  <2>1. n \in Nat /\ DOMAIN f = 1 .. n + 3 /\ DOMAIN sg = 1 .. n
    BY <1>1
  <2>2. 1 .. n \subseteq 1 .. n + 3
    BY <2>1
  <2>3. \A s \in 1 .. n + 3 : s \in 1 .. n \/ (s \in {n + 1, n + 2, n + 3} /\ s \notin 1 .. n)
    BY <2>1
  <2> QED  BY <2>1, <2>2, <2>3
<1>3. Lengthens(c, sg, f)
  BY <1>1 DEF Lengthens
<1>4. Tidy(<<>>) /\ \A k \in DOMAIN <<>> : FALSE
  BY TidyEmpty
<1>5. ASSUME NEW s \in {n + 1, n + 2, n + 3}
      PROVE  Tidy(f[s]) /\ \A k \in DOMAIN f[s] : Leaves(f[s][k], f)
  BY <1>1, <1>4
<1>6. \A s \in DOMAIN f :
          \/ s \in DOMAIN sg /\ f[s] = sg[s]
          \/ s \in DOMAIN sg /\ Lengthens(s, sg, f)
          \/ s \notin DOMAIN sg /\ Tidy(f[s]) /\ \A k \in DOMAIN f[s] : Leaves(f[s][k], f)
  BY <1>1, <1>2, <1>3, <1>5
<1> QED  BY <1>2, <1>6, TidyMore

LEMMA PushStacks ==
    ASSUME NEW bs \in Seq(Body), Stacks(bs), \A i \in DOMAIN bs : bs[i].split,
           NEW b \in Body, b.split, b.next # 1, b.kind = "while" => b.head # 1
    PROVE  Stacks(Append(bs, b)) /\ \A i \in DOMAIN Append(bs, b) : Append(bs, b)[i].split
<1> DEFINE m == Append(bs, b)
<1>1. /\ m \in Seq(Body) /\ Len(m) = Len(bs) + 1
      /\ m[Len(bs) + 1] = b
      /\ Len(bs) \in Nat /\ \A i \in 1 .. Len(bs) : m[i] = bs[i]
  BY PushIs
<1>2. DOMAIN m = 1 .. Len(bs) + 1 /\ DOMAIN bs = 1 .. Len(bs)
  <2> HIDE DEF m
  <2> QED  BY <1>1
<1> HIDE DEF m
<1>3. \A i \in DOMAIN m : (i \in DOMAIN bs /\ m[i] = bs[i]) \/ m[i] = b
  BY <1>1, <1>2
<1>4. \A i \in DOMAIN m : m[i].split
  BY <1>3
<1>5. Stacks(m)
  BY <1>3, <1>4 DEF Stacks
<1> QED  BY <1>4, <1>5 DEF m

LEMMA OneTransfer ==
    ASSUME NEW e \in Instr, e.op \in {"goto", "branch"}, e.to # 1, e.op = "branch" => e.other # 1, NEW sg
    PROVE  /\ Leaves(e, sg) /\ \A k \in DOMAIN <<e>> : Leaves(<<e>>[k], sg)
           /\ \A t \in Seq(Instr) : Tidy(t) /\ ~Ended(t) => Tidy(t \o <<e>>)
           /\ Tidy(<<e>>) /\ <<e>> \in Seq(Instr)
<1>1. Leaves(e, sg)
  BY DEF Leaves, Transfers, Calls
<1>2. \A k \in DOMAIN <<e>> : <<e>>[k] = e
  BY OneInstruction
<1>3. ASSUME NEW t \in Seq(Instr), Tidy(t), ~Ended(t) PROVE Tidy(t \o <<e>>)
  BY <1>3, TidyOn DEF Hidden, NameKnown, Names, Locals, AllKinds, Loops, Jumps
<1>4. <<>> \o <<e>> = <<e>> /\ <<e>> \in Seq(Instr) /\ <<>> \in Seq(Instr) /\ ~Ended(<<>>)
  BY PairIs, EmptyIs DEF Ended
<1>5. Tidy(<<e>>)
  BY <1>3, <1>4, TidyEmpty
<1> QED  BY <1>1, <1>2, <1>3, <1>4, <1>5

LEMMA OpenSplitVals ==
    ASSUME Valued, OpenSplit PROVE StillValued
<1> DEFINE n == Len(segs)
           Cut(kind) == [NewBody(kind) EXCEPT !.split = TRUE]
           Fork(then, else) == [Visible(I("branch", "", then)) EXCEPT !.other = else]
           bb == [Cut("block") EXCEPT !.next = n + 1]
           bi == [Cut("if") EXCEPT !.alt = n + 2, !.next = n + 3]
           bw == [Cut("while") EXCEPT !.head = n + 1, !.next = n + 3]
           e == I("goto", "", n + 1)
           i == Fork(n + 1, n + 2)
           f == Fork(n + 2, n + 3)
<1>1. ~Top.exited /\ Top.split
  BY DEF OpenSplit, Writing
<1>2. /\ AllTidy(segs) /\ AllLeave(segs) /\ Stacks(bodies) /\ \A j \in DOMAIN bodies : bodies[j].split
      /\ segs \in Seq(Seq(Instr)) /\ cur \in 1 .. Len(segs) /\ n \in Nat
      /\ segs[cur] \in Seq(Instr) /\ Tidy(segs[cur]) /\ DOMAIN segs = 1 .. n
      /\ code \in Seq(Stmt) /\ bodies \in Seq(Body)
  BY <1>1, ValsTidy
<1>3. \/ Open(bb, segs \o <<<<>>>>, cur)
      \/ Open(bi, Extended(<<i>>) \o <<<<>>, <<>>, <<>>>>, n + 1)
      \/ Open(bw, Extended(<<e>>) \o <<<<f>>, <<>>, <<>>>>, n + 2)
  BY DEF OpenSplit
<1>4. ~Ended(segs[cur]) /\ Here \in Nat
  BY <1>1, <1>2, NotEnded, HereIs DEF Valued
<1>5. n + 1 \in Nat /\ n + 2 \in Nat /\ n + 3 \in Nat /\ n + 1 # 1 /\ n + 2 # 1 /\ n + 3 # 1
  <2>1. n # 0
    BY <1>2
  <2> HIDE DEF n
  <2> QED  BY <1>2, <2>1
<1> HIDE DEF n
<1>6. /\ bb \in Body /\ bb.kind = "block" /\ bb.split /\ bb.next = n + 1
      /\ bi \in Body /\ bi.kind = "if" /\ bi.split /\ bi.next = n + 3
      /\ bw \in Body /\ bw.kind = "while" /\ bw.split /\ bw.next = n + 3 /\ bw.head = n + 1
  <2>1. "block" \in AllKinds /\ "if" \in AllKinds /\ "while" \in AllKinds
    BY DEF AllKinds, Loops
  <2> QED  BY <1>4, <1>5, <2>1 DEF NewBody, Body
<1>7. /\ e \in Instr /\ e.op = "goto" /\ e.to = n + 1
      /\ i \in Instr /\ i.op = "branch" /\ i.to = n + 1 /\ i.other = n + 2
      /\ f \in Instr /\ f.op = "branch" /\ f.to = n + 2 /\ f.other = n + 3
  <2> HIDE DEF Fork
  <2>1. ASSUME NEW to \in Nat, NEW other \in Nat
        PROVE  /\ Fork(to, other) \in Instr /\ Fork(to, other).op = "branch"
               /\ Fork(to, other).to = to /\ Fork(to, other).other = other
    BY <1>4 DEF Fork, I, Instr, Visible
  <2>2. e \in Instr /\ e.op = "goto" /\ e.to = n + 1
    BY <1>4, <1>5, HereInstr
  <2>3. /\ i \in Instr /\ i.op = "branch" /\ i.to = n + 1 /\ i.other = n + 2
    BY <1>5, <2>1
  <2>4. /\ f \in Instr /\ f.op = "branch" /\ f.to = n + 2 /\ f.other = n + 3
    BY <1>5, <2>1
  <2> HIDE DEF e, i, f
  <2> QED BY <2>2, <2>3, <2>4
<1> HIDE DEF bb, bi, bw, e, i, f
<1>8. CASE Open(bb, segs \o <<<<>>>>, cur)
  <2> DEFINE g == segs \o <<<<>>>>
  <2>1. g = Append(segs, <<>>) /\ g \in Seq(Seq(Instr))
    BY <1>2, AppendAdjoins
  <2>2. DOMAIN g = 1 .. n + 1 /\ g[n + 1] = <<>> /\ \A s \in 1 .. n : g[s] = segs[s]
    BY <1>2, <2>1 DEF n
  <2> HIDE DEF g
  <2>3. DOMAIN segs \subseteq DOMAIN g
    BY <1>2, <2>2
  <2>4. \A s \in DOMAIN g : (s \in DOMAIN segs /\ g[s] = segs[s])
                              \/ (s \notin DOMAIN segs /\ Tidy(g[s]) /\ \A k \in DOMAIN g[s] : Leaves(g[s][k], g))
    <3>1. Tidy(<<>>) /\ \A k \in DOMAIN <<>> : FALSE
      BY TidyEmpty
    <3>2. \A s \in DOMAIN g : s \in 1 .. n \/ (s = n + 1 /\ s \notin 1 .. n)
      <4>1. n \in Nat /\ DOMAIN g = 1 .. n + 1
        BY <1>2, <2>2
      <4> QED  BY <4>1
    <3> QED  BY <1>2, <2>2, <3>1, <3>2
  <2>5. AllTidy(g) /\ AllLeave(g)
    BY <1>2, <2>3, <2>4, TidyMore
  <2>6. Vals(Append(bodies, bb), g, cur)
    BY <1>2, <1>5, <1>6, <2>5, PushStacks, TidyVals
  <2> QED  BY <1>8, <2>6 DEF Open, Write, StillValued, g
<1>9. CASE Open(bi, Extended(<<i>>) \o <<<<>>, <<>>, <<>>>>, n + 1)
  <2> DEFINE g == Grown(segs, cur, <<i>>) \o <<<<>>, <<>>, <<>>>>
  <2>1. <<i>> \in Seq(Instr) /\ <<>> \in Seq(Instr) /\ Tidy(<<>>) /\ \A k \in DOMAIN <<>> : FALSE
    BY <1>7, EmptyIs, TidyEmpty, OneInstruction
  <2>2. IsThree(g, segs, cur, <<i>>, <<>>)
    BY <1>2, <2>1, ThreeIs
  <2> HIDE DEF g
  <2>3. Tidy(segs[cur] \o <<i>>) /\ \A k \in DOMAIN <<i>> : Leaves(<<i>>[k], g)
    BY <1>2, <1>4, <1>5, <1>7, OneTransfer
  <2>4. AllTidy(g) /\ AllLeave(g)
    BY <1>2, <2>1, <2>2, <2>3, ThreeTidy
  <2>5. Vals(Append(bodies, bi), g, n + 1)
    BY <1>2, <1>5, <1>6, <2>4, PushStacks, TidyVals
  <2>6. Extended(<<i>>) \o <<<<>>, <<>>, <<>>>> = g
    BY ExtendedGrows DEF g
  <2> QED  BY <1>9, <2>5, <2>6 DEF Open, Write, StillValued
<1>10. CASE Open(bw, Extended(<<e>>) \o <<<<f>>, <<>>, <<>>>>, n + 2)
  <2> DEFINE g == Grown(segs, cur, <<e>>) \o <<<<f>>, <<>>, <<>>>>
  <2>1. <<e>> \in Seq(Instr) /\ <<f>> \in Seq(Instr)
    BY <1>7, OneInstruction
  <2>2. IsThree(g, segs, cur, <<e>>, <<f>>)
    BY <1>2, <2>1, ThreeIs
  <2> HIDE DEF g
  <2>3. Tidy(segs[cur] \o <<e>>) /\ \A k \in DOMAIN <<e>> : Leaves(<<e>>[k], g)
    BY <1>2, <1>4, <1>5, <1>7, OneTransfer
  <2>4. Tidy(<<f>>) /\ \A k \in DOMAIN <<f>> : Leaves(<<f>>[k], g)
    BY <1>5, <1>7, OneTransfer
  <2>5. AllTidy(g) /\ AllLeave(g)
    BY <1>2, <2>1, <2>2, <2>3, <2>4, ThreeTidy
  <2>6. Vals(Append(bodies, bw), g, n + 2)
    BY <1>2, <1>5, <1>6, <2>5, PushStacks, TidyVals
  <2>7. Extended(<<e>>) \o <<<<f>>, <<>>, <<>>>> = g
    BY ExtendedGrows DEF g
  <2> QED  BY <1>10, <2>6, <2>7 DEF Open, Write, StillValued
<1> QED BY <1>3, <1>8, <1>9, <1>10

(* The transfer at the end of a split body.                                  *)
LEMMA FallthroughTidy ==
    ASSUME Valued, Top.split, Len(bodies) > 1
    PROVE  /\ Fallthrough \in Seq(Instr) /\ Tidy(segs[cur] \o Fallthrough)
           /\ \A sg : \A k \in DOMAIN Fallthrough : Leaves(Fallthrough[k], sg)
           /\ Top.next # 1 /\ Top.next \in Nat
<1> DEFINE x == IF Top.kind = "while" THEN Top.head ELSE Top.next
           e == I("goto", "", x)
<1>1. /\ Stacks(bodies) /\ segs[cur] \in Seq(Instr) /\ Tidy(segs[cur]) /\ code \in Seq(Stmt)
      /\ Top \in Body /\ Top = bodies[Len(bodies)] /\ Len(bodies) \in DOMAIN bodies
  BY ValsTidy
<1>2. Top.next # 1 /\ (Top.kind = "while" => Top.head # 1)
  BY <1>1 DEF Stacks
<1>3. x \in Nat /\ x # 1 /\ Top.next \in Nat
  BY <1>1, <1>2 DEF Body
<1>4. e \in Instr /\ e.op = "goto" /\ e.to = x
  <2> HIDE DEF x
  <2> QED  BY <1>1, <1>3, HereIs, HereInstr
<1>5. Fallthrough = IF Top.exited THEN <<>> ELSE <<e>>
  BY DEF Fallthrough
<1> HIDE DEF e, x
<1>6. CASE Top.exited
  <2>1. Fallthrough = <<>> /\ segs[cur] \o <<>> = segs[cur] /\ <<>> \in Seq(Instr) /\ \A k \in DOMAIN <<>> : FALSE
    BY <1>1, <1>4, <1>5, <1>6, AppendedIs, EmptyIs
  <2> QED  BY <1>1, <1>2, <1>3, <2>1
<1>7. CASE ~Top.exited
  <2>1. Fallthrough = <<e>>
    BY <1>5, <1>7
  <2>2. ~Ended(segs[cur])
    BY <1>7, NotEnded DEF Valued
  <2>3. <<e>> \in Seq(Instr) /\ Tidy(segs[cur] \o <<e>>)
    BY <1>1, <1>3, <1>4, <2>2, OneTransfer
  <2>4. ASSUME NEW sg PROVE \A k \in DOMAIN <<e>> : Leaves(<<e>>[k], sg)
    BY <1>3, <1>4, OneTransfer
  <2> QED  BY <1>2, <1>3, <2>1, <2>3, <2>4
<1> QED  BY <1>6, <1>7

LEMMA CutTidy ==
    ASSUME Valued, Top.split, Len(bodies) > 1
    PROVE  LET g == Extended(Fallthrough) IN
           /\ AllTidy(g) /\ AllLeave(g) /\ g \in Seq(Seq(Instr)) /\ DOMAIN g = DOMAIN segs
           /\ \A k \in DOMAIN segs : k # cur => g[k] = segs[k]
<1> DEFINE t == Fallthrough
           g == Grown(segs, cur, t)
<1>1. /\ AllTidy(segs) /\ AllLeave(segs) /\ segs \in Seq(Seq(Instr)) /\ cur \in DOMAIN segs
  BY ValsTidy
<1>2. t \in Seq(Instr) /\ Tidy(segs[cur] \o t) /\ \A k \in DOMAIN t : Leaves(t[k], g)
  BY FallthroughTidy
<1> HIDE DEF t
<1>3. /\ g \in Seq(Seq(Instr)) /\ DOMAIN g = DOMAIN segs /\ g[cur] = segs[cur] \o t
      /\ \A s \in DOMAIN segs : s # cur => g[s] = segs[s]
  BY <1>1, <1>2, GrownIs
<1> HIDE DEF g
<1>4. Lengthens(cur, segs, g)
  BY <1>2, <1>3 DEF Lengthens
<1>5. \A s \in DOMAIN g : s \in DOMAIN segs /\ (g[s] = segs[s] \/ Lengthens(s, segs, g))
  BY <1>3, <1>4
<1>6. AllTidy(g) /\ AllLeave(g)
  BY <1>1, <1>3, <1>5, TidyMore
<1>7. Extended(Fallthrough) = g
  BY ExtendedGrows DEF g, t
<1> QED  BY <1>3, <1>6, <1>7

LEMMA SameStacks ==
    ASSUME NEW bs \in Seq(Body), Stacks(bs), \A i \in DOMAIN bs : bs[i].split,
           NEW bs2 \in Seq(Body), SameAts(bs, bs2)
    PROVE  Stacks(bs2) /\ \A i \in DOMAIN bs2 : bs2[i].split
<1>1. Stacks(bs2)
  BY SameVals
<1>2. DOMAIN bs2 = DOMAIN bs /\ DOMAIN bs = 1 .. Len(bs)
  BY DEF SameAts
<1> QED  BY <1>1, <1>2 DEF SameAts

LEMMA PopStacks ==
    ASSUME NEW bs \in Seq(Body), Len(bs) > 1, Stacks(bs), \A i \in DOMAIN bs : bs[i].split
    PROVE  Stacks(Front(bs)) /\ \A i \in DOMAIN Front(bs) : Front(bs)[i].split
<1> DEFINE m == Front(bs)
<1>1. /\ Len(bs) \in Nat /\ Len(m) = Len(bs) - 1 /\ \A i \in 1 .. Len(bs) - 1 : m[i] = bs[i]
      /\ m \in Seq(Body)
  BY PopIs
<1> HIDE DEF m
<1>2. DOMAIN m = 1 .. Len(bs) - 1 /\ DOMAIN bs = 1 .. Len(bs)
  BY <1>1
<1>3. \A i \in DOMAIN m : i \in DOMAIN bs /\ m[i] = bs[i]
  BY <1>1, <1>2
<1>4. \A i \in DOMAIN m : m[i].split
  BY <1>3
<1>5. Stacks(m)
  BY <1>3, <1>4 DEF Stacks
<1> QED  BY <1>4, <1>5 DEF m

LEMMA ElseVals ==
    ASSUME Valued, Else PROVE StillValued
<1> DEFINE g == Extended(Fallthrough)
           b == [Top EXCEPT !.alt = 0, !.exited = FALSE, !.binds = FALSE]
           bs == WithTop(b)
<1>1. /\ Len(bodies) > 1 /\ Top.alt # 0
      /\ bodies' = bs /\ segs' = g /\ cur' = Top.alt
  BY DEF Else
<1>2. Shape(bodies, segs, cur) /\ Top = bodies[Len(bodies)] /\ Len(bodies) \in DOMAIN bodies
  BY TopIs DEF Valued, Fresh, Ready
<1>3. Top.split
  BY <1>1, <1>2 DEF Shape, Places, PlainPlaces
<1>4. AllTidy(g) /\ AllLeave(g)
  BY <1>1, <1>3, CutTidy
<1>5. /\ Stacks(bodies) /\ \A i \in DOMAIN bodies : bodies[i].split
      /\ bodies \in Seq(Body) /\ bodies # <<>> /\ Top \in Body /\ Top = Last(bodies)
  BY <1>3, ValsTidy
<1>6. /\ b \in Body /\ b.at = Last(bodies).at /\ b.kind = Last(bodies).kind
      /\ b.split = Last(bodies).split /\ b.open = Last(bodies).open
      /\ b.head = Last(bodies).head /\ b.next = Last(bodies).next
      /\ b.alt \in {Last(bodies).alt, 0}
  BY <1>5 DEF Body
<1> HIDE DEF b, g
<1>7. bs \in Seq(Body) /\ SameAts(bodies, bs)
  BY <1>5, <1>6, Retopped, SameAtsTop DEF WithTop
<1> HIDE DEF bs
<1>8. Vals(bs, g, Top.alt)
  BY <1>4, <1>5, <1>7, SameStacks, TidyVals
<1> QED  BY <1>1, <1>8 DEF StillValued

LEMMA CloseSplitVals ==
    ASSUME Valued, CloseSplit PROVE StillValued
<1> DEFINE g == Extended(Fallthrough)
           e == I("goto", "", Top.next)
           g2 == IF Top.alt = 0 THEN g ELSE [g EXCEPT ![Top.alt] = NoElse]
           bs == Front(bodies)
<1>1. /\ Len(bodies) > 1 /\ Top.split
      /\ bodies' = bs /\ segs' = g2 /\ cur' = Top.next
  BY DEF CloseSplit
<1>2. /\ AllTidy(g) /\ AllLeave(g) /\ g \in Seq(Seq(Instr)) /\ DOMAIN g = DOMAIN segs
      /\ \A k \in DOMAIN segs : k # cur => g[k] = segs[k]
  BY <1>1, CutTidy
<1>3. /\ Stacks(bodies) /\ \A i \in DOMAIN bodies : bodies[i].split
      /\ bodies \in Seq(Body) /\ code \in Seq(Stmt)
  BY <1>1, ValsTidy
<1>4. SplitPlaces(Top, segs, cur)
  BY <1>1, StillOpen DEF Valued
<1>5. Top.next # 1 /\ Top.next \in Nat
  BY <1>1, FallthroughTidy
<1>6. e \in Instr /\ e.op = "goto" /\ e.to = Top.next /\ NoElse = <<e>>
  BY <1>3, <1>5, HereIs, HereInstr DEF NoElse
<1> HIDE DEF g, e, bs
<1>7. AllTidy(g2) /\ AllLeave(g2)
  <2>1. CASE Top.alt = 0
    BY <1>2, <2>1
  <2>2. CASE Top.alt # 0
    <3> DEFINE a == Top.alt
    <3>1. a \in DOMAIN g /\ g[a] = <<>>
      BY <1>2, <1>4, <2>2 DEF SplitPlaces, Pending
    <3>2. g2 = [g EXCEPT ![a] = <<e>>]
      BY <1>6, <2>2
    <3> HIDE DEF g2, a
    <3>3. DOMAIN g2 = DOMAIN g /\ g2[a] = <<e>> /\ \A s \in DOMAIN g : s # a => g2[s] = g[s]
      BY <1>2, <3>1, <3>2
    <3>4. /\ <<e>> \in Seq(Instr) /\ Tidy(<<e>>) /\ \A k \in DOMAIN <<e>> : Leaves(<<e>>[k], g2)
      BY <1>5, <1>6, OneTransfer
    <3>5. <<>> \o <<e>> = <<e>>
      BY <1>6, PairIs
    <3>6. Lengthens(a, g, g2)
      BY <3>1, <3>3, <3>4, <3>5 DEF Lengthens
    <3>7. \A s \in DOMAIN g2 : s \in DOMAIN g /\ (g2[s] = g[s] \/ Lengthens(s, g, g2))
      BY <3>3, <3>6
    <3> QED  BY <1>2, <3>3, <3>7, TidyMore
  <2> QED  BY <2>1, <2>2
<1> HIDE DEF g2
<1>8. Vals(bs, g2, Top.next)
  BY <1>1, <1>3, <1>7, PopStacks, TidyVals DEF bs
<1> QED  BY <1>1, <1>8 DEF StillValued

(* The body is written: no copied one is open.                               *)
LEMMA FinishVals ==
    ASSUME Valued, Finish PROVE AllTidy(segs') /\ AllLeave(segs')
<1> DEFINE n == Len(segs)
           e == I("goto", "", n + 1)
           v == Visible(I("finish", "", 0))
           t == IF Top.exited THEN <<>> ELSE <<e>>
<1>1. /\ Len(bodies) = 1
      /\ segs' = Append(IF Top.exited THEN segs ELSE Extended(<<e>>), <<v>>)
  BY DEF Finish
<1>2. Shape(bodies, segs, cur) /\ Top = bodies[Len(bodies)]
  BY TopIs DEF Valued, Fresh, Ready
<1>3. Top.split
  BY <1>1, <1>2 DEF Shape, Nested
<1>4. /\ AllTidy(segs) /\ AllLeave(segs)
      /\ segs \in Seq(Seq(Instr)) /\ cur \in 1 .. Len(segs) /\ n \in Nat
      /\ segs[cur] \in Seq(Instr) /\ Tidy(segs[cur]) /\ code \in Seq(Stmt) /\ cur \in DOMAIN segs
  BY <1>3, ValsTidy
<1>5. n + 1 \in Nat /\ n + 1 # 1 /\ 0 \in Nat /\ Here \in Nat
  BY <1>4, HereIs
<1>6. e \in Instr /\ e.op = "goto" /\ e.to = n + 1
  <2> HIDE DEF n
  <2> QED  BY <1>5, HereInstr
<1>7. v \in Instr /\ v.op = "finish" /\ v.shown
  <2>1. "finish" \in Ops /\ "" \in Names \cup {""}
    BY DEF Ops
  <2>2. IsMade(v, "finish", "", 0) /\ v.shown
    BY ZenonT(30), <1>4, <1>5, <2>1, Made1
  <2> QED  BY <2>2 DEF IsMade
<1> HIDE DEF e, v
<1>8. segs' = Forked(segs, cur, t, <<v>>)
  <2>1. CASE Top.exited
    <3>1. Grown(segs, cur, <<>>) = segs
      BY <1>4 DEF Grown
    <3> QED  BY <1>1, <2>1, <3>1 DEF Forked
  <2>2. CASE ~Top.exited
    BY <1>1, <2>2, ExtendedGrows DEF Forked
  <2> QED  BY <2>1, <2>2
<1> DEFINE f == Forked(segs, cur, t, <<v>>)
<1>9. t \in Seq(Instr) /\ Tidy(segs[cur] \o t) /\ \A k \in DOMAIN t : Leaves(t[k], f)
  <2>1. CASE Top.exited
    <3>1. t = <<>> /\ segs[cur] \o <<>> = segs[cur] /\ <<>> \in Seq(Instr) /\ \A k \in DOMAIN <<>> : FALSE
      BY <1>4, <1>6, <2>1, AppendedIs, EmptyIs
    <3> HIDE DEF t, f
    <3> QED  BY <1>4, <3>1
  <2>2. CASE ~Top.exited
    <3>1. t = <<e>>
      BY <2>2
    <3>2. ~Ended(segs[cur])
      BY <2>2, NotEnded DEF Valued
    <3> HIDE DEF t, f, n
    <3>3. <<e>> \in Seq(Instr) /\ Tidy(segs[cur] \o <<e>>) /\ \A k \in DOMAIN <<e>> : Leaves(<<e>>[k], f)
      BY <1>4, <1>5, <1>6, <3>2, OneTransfer
    <3> QED  BY <3>1, <3>3
  <2> QED  BY <2>1, <2>2
<1>10. <<v>> \in Seq(Instr) /\ Tidy(<<v>>) /\ \A k \in DOMAIN <<v>> : Leaves(<<v>>[k], f)
  <2>1. <<>> \o <<v>> = <<v>> /\ <<v>> \in Seq(Instr) /\ <<>> \in Seq(Instr) /\ ~Ended(<<>>)
        /\ \A k \in DOMAIN <<v>> : <<v>>[k] = v
    BY <1>7, PairIs, EmptyIs, OneInstruction DEF Ended
  <2> HIDE DEF f
  <2>2. Tidy(<<>> \o <<v>>)
    BY <1>7, <2>1, TidyEmpty, TidyOn DEF Hidden, NameKnown, Names, Locals, AllKinds, Loops, Jumps
  <2>3. Leaves(v, f)
    BY <1>7 DEF Leaves, Transfers, Calls
  <2> QED  BY <2>1, <2>2, <2>3
<1> HIDE DEF t
<1>11. AllTidy(f) /\ AllLeave(f)
  BY <1>4, <1>9, <1>10, ForkTidy
<1> QED  BY <1>8, <1>11

(* What any step of the splitter keeps, or leaves behind at the end.         *)
LEMMA SplitVals ==
    ASSUME Valued, Split, phase' # "refused"
    PROVE  \/ phase' = phase /\ run' = run /\ StillValued
           \/ phase' = "run" /\ run' = run /\ AllTidy(segs') /\ AllLeave(segs') /\ code' = code
<1>1. CASE Finish
  BY <1>1, FinishVals DEF Finish
<1>2. CASE Split /\ ~Finish
  <2>1. phase' = phase /\ run' = run /\ phase = "body"
    BY <1>2 DEF Split, New, Use, Move, Spawn, Suspend, Return, BreakOrContinue, OpenPlain, OpenSplit,
                Else, ClosePlain, CloseSplit, Write, Open, Writing
  <2>2. StillValued
    BY <1>2, <2>1, NewVals, UseVals, MoveVals, SpawnVals, SuspendVals, ReturnVals, BreakOrContinueVals,
       OpenPlainVals, OpenSplitVals, ElseVals, ClosePlainVals, CloseSplitVals DEF Split
  <2> QED  BY <2>1, <2>2
<1> QED  BY <1>1, <1>2

-----------------------------------------------------------------------------
(* A segment while it runs: t, at instruction k.  The copied body opened by  *)
(* instruction i covers k; j has been seen if it stands before k or in a     *)
(* body around k, where a loop may have carried it out; n may be set if an   *)
(* instruction seen assigns it, which is more than is known to have run.     *)
Assigns(i, n)   == i.op \in {"new", "take"} \cup Calls /\ i.name = n
Covers(t, i, k) == i \in Openings(t) /\ i <= k /\ k <= CloseIn(t, i)
Inside(t, i, k) == Covers(t, i, k) /\ i < k
Seen(t, j, k)   == j <= k \/ \E i \in Openings(t) : Covers(t, i, k) /\ j <= CloseIn(t, i)
MaySet(t, n, k) == \E j \in DOMAIN t : Assigns(t[j], n) /\ Seen(t, j, k)
MovesIn(t, i, n) ==
    \E j \in DOMAIN t : i <= j /\ j <= CloseIn(t, i) /\ t[j].op = "move" /\ t[j].name = n
(* Where an instruction that stays in the segment may lead.                  *)
Reaches(t, k, k2) ==
    k2 = k + 1 \/ \E i \in Openings(t) : Covers(t, i, k) /\ (k2 = i \/ k2 = CloseIn(t, i) + 1)
Sound(t) == t \in Seq(Instr) /\ Tidy(t) /\ Whole(t)

LEMMA CloseIs ==
    ASSUME NEW t, Sound(t), NEW i \in Openings(t)
    PROVE  /\ CloseIn(t, i) \in DOMAIN t /\ t[CloseIn(t, i)].op = "close" /\ i < CloseIn(t, i)
           /\ i \in DOMAIN t /\ i \in Nat /\ CloseIn(t, i) \in Nat
           /\ \A c \in DOMAIN t : Brackets(t, i, c) <=> c = CloseIn(t, i)
<1>1. t \in Seq(Instr) /\ Bracketed(t, {}) /\ Whole(t) /\ i \in DOMAIN t /\ t[i].op \in AllKinds
  BY DEF Sound, Tidy, Neat, Openings
<1>2. PICK k \in DOMAIN t : t[k].op = "close" /\ t[k].to = i
  BY <1>1 DEF Whole, Closed
<1> DEFINE c == CloseIn(t, i)
<1>3. c \in DOMAIN t /\ t[c].op = "close" /\ t[c].to = i
  BY <1>2 DEF CloseIn
<1> HIDE DEF c
<1>4. i < c /\ \A d \in DOMAIN t : Brackets(t, i, d) => d = c
  BY <1>1, <1>3 DEF Bracketed
<1>5. Brackets(t, i, c)
  BY <1>3 DEF Brackets
<1>6. \A j \in DOMAIN t : j \in Nat
  BY <1>1
<1> QED  BY <1>1, <1>3, <1>4, <1>5, <1>6 DEF c

LEMMA CloseNests ==
    ASSUME NEW t, Sound(t), NEW i \in Openings(t), NEW j \in Openings(t), i < j, j <= CloseIn(t, i)
    PROVE  CloseIn(t, j) < CloseIn(t, i)
<1> DEFINE c == CloseIn(t, i)
<1>1. c \in DOMAIN t /\ Brackets(t, i, c)
  BY CloseIs
<1>2. j <= c
  OBVIOUS
<1> HIDE DEF c
<1>3. PICK d \in DOMAIN t : Brackets(t, j, d) /\ d < c
  BY <1>1, <1>2 DEF Sound, Tidy, Neat, Laminar
<1>4. d = CloseIn(t, j)
  BY <1>3, CloseIs
<1> QED  BY <1>3, <1>4 DEF c

(* How the brackets around two places that follow each other lie.            *)
LEMMA SeenOn ==
    ASSUME NEW t, Sound(t), NEW k \in Nat, NEW k2 \in Nat, Reaches(t, k, k2), NEW j \in Nat, Seen(t, j, k)
    PROVE  Seen(t, j, k2)
<1>1. \A i \in Openings(t) : i \in Nat /\ CloseIn(t, i) \in Nat /\ i < CloseIn(t, i)
  BY CloseIs
<1>2. \A i, e \in Openings(t) : i < e /\ e <= CloseIn(t, i) => CloseIn(t, e) < CloseIn(t, i)
  BY CloseNests
<1>3. CASE k2 = k + 1
  <2>1. CASE j <= k
    BY <1>3, <2>1 DEF Seen
  <2>2. CASE \E i \in Openings(t) : Covers(t, i, k) /\ j <= CloseIn(t, i)
    <3>1. PICK i \in Openings(t) : Covers(t, i, k) /\ j <= CloseIn(t, i)
      BY <2>2
    <3>2. CASE k = CloseIn(t, i)
      BY <1>3, <3>1, <3>2 DEF Seen
    <3>3. CASE k # CloseIn(t, i)
      <4>1. i <= k2 /\ k2 <= CloseIn(t, i)
        BY <1>1, <1>3, <3>1, <3>3 DEF Covers
      <4> QED  BY <3>1, <4>1 DEF Seen, Covers
    <3> QED  BY <3>2, <3>3
  <2> QED  BY <2>1, <2>2 DEF Seen
<1>4. ASSUME NEW e \in Openings(t), Covers(t, e, k), k2 = e \/ k2 = CloseIn(t, e) + 1
      PROVE  Seen(t, j, k2)
  <2>1. CASE j <= CloseIn(t, e)
    BY <1>1, <1>4, <2>1 DEF Seen, Covers
  <2>2. CASE ~(j <= CloseIn(t, e))
    <3>1. PICK i \in Openings(t) : Covers(t, i, k) /\ j <= CloseIn(t, i)
      BY <1>1, <1>4, <2>2 DEF Seen, Covers
    <3>2. i < e
      BY <1>1, <1>2, <1>4, <2>2, <3>1 DEF Covers
    <3>3. i <= k2 /\ k2 <= CloseIn(t, i)
      BY <1>1, <1>2, <1>4, <2>2, <3>1, <3>2 DEF Covers
    <3> QED  BY <3>1, <3>3 DEF Seen, Covers
  <2> QED  BY <2>1, <2>2
<1> QED  BY <1>3, <1>4 DEF Reaches

LEMMA InsideOn ==
    ASSUME NEW t, Sound(t), NEW k \in Nat, NEW k2 \in Nat, Reaches(t, k, k2), NEW i, Inside(t, i, k2)
    PROVE  Inside(t, i, k) \/ (i = k /\ k2 = k + 1)
<1>1. \A a \in Openings(t) : a \in Nat /\ CloseIn(t, a) \in Nat /\ a < CloseIn(t, a)
  BY CloseIs
<1>2. \A a, e \in Openings(t) : a < e /\ e <= CloseIn(t, a) => CloseIn(t, e) < CloseIn(t, a)
  BY CloseNests
<1>3. i \in Openings(t) /\ i < k2 /\ k2 <= CloseIn(t, i)
  BY DEF Inside, Covers
<1>4. CASE k2 = k + 1
  BY <1>1, <1>3, <1>4 DEF Inside, Covers
<1>5. ASSUME NEW e \in Openings(t), Covers(t, e, k), k2 = e \/ k2 = CloseIn(t, e) + 1
      PROVE  Inside(t, i, k)
  <2>1. e <= k /\ k <= CloseIn(t, e)
    BY <1>5 DEF Covers
  <2>2. i < e
    BY <1>1, <1>2, <1>3, <1>5, <2>1
  <2>3. i < k /\ k <= CloseIn(t, i)
    BY <1>1, <1>2, <1>3, <1>5, <2>1, <2>2
  <2> QED  BY <1>1, <1>3, <2>3 DEF Inside, Covers
<1> QED  BY <1>4, <1>5 DEF Reaches

(* A receive is reached from the binding of its flag only.                   *)
LEMMA ReceiveAfter ==
    ASSUME NEW t, Sound(t), NEW k \in DOMAIN t, NEW k2 \in DOMAIN t, Reaches(t, k, k2), t[k2].op = "recv"
    PROVE  k2 = k + 1 /\ Hidden(t[k])
<1>1. k2 - 1 \in DOMAIN t /\ Hidden(t[k2 - 1]) /\ k \in Nat /\ k2 \in Nat
  BY DEF Sound, Tidy, Binds
<1>2. \A i \in Openings(t) : t[i].op \in AllKinds /\ CloseIn(t, i) \in Nat /\ t[CloseIn(t, i)].op = "close"
  BY CloseIs DEF Openings
<1>3. CASE k2 = k + 1
  <2>1. k2 - 1 = k
    BY <1>1, <1>3
  <2> QED  BY <1>1, <1>3, <2>1
<1>4. ASSUME NEW i \in Openings(t), k2 = i PROVE FALSE
  BY <1>2, <1>4 DEF AllKinds, Loops
<1>5. ASSUME NEW i \in Openings(t), k2 = CloseIn(t, i) + 1 PROVE FALSE
  <2>1. k2 - 1 = CloseIn(t, i)
    BY <1>1, <1>2, <1>5
  <2> QED  BY <1>1, <1>2, <2>1 DEF Hidden
<1> QED  BY <1>3, <1>4, <1>5 DEF Reaches

-----------------------------------------------------------------------------
(* The values of a run r at an instruction of segment t.                     *)

(* v is the value n has in the source, or reading it is refused, or the      *)
(* source has none.                                                          *)
Holds(r, v, n) == v = None \/ v = r.env[n] \/ r.env[n] = None
(* Registers hold the source's values, but for rc ahead of the prologue that *)
(* takes it and closed between its binding and the receive.                  *)
RegsRight(r, t) ==
    \A n \in Names : \/ Holds(r, r.regs[n], n)
                     \/ n = "rc" /\ t[r.pc].op = "take" /\ r.pend # None
                     \/ n = "closed" /\ t[r.pc].op = "recv"
(* The receive finds closed bound to 0, and only the prologue that takes the *)
(* status finds one.                                                         *)
Bound(r, t) == t[r.pc].op = "recv" => r.regs["closed"] = 0
Pends(r, t) == r.pend # None => t[r.pc].op = "take" /\ r.pend = 0 /\ r.env["rc"] = 0
(* The frame holds the source's value of a name unless the segment may have  *)
(* set it, and inside a copied body that moves it even then: emitPlain       *)
(* wrote it back in front of the body, which does not set it.                *)
FrameRight(r, t) == \A n \in fields : MaySet(t, n, r.pc) \/ Holds(r, r.frame[n], n)
MovesRight(r, t) ==
    \A i \in Openings(t) : \A n \in fields :
        Inside(t, i, r.pc) /\ MovesIn(t, i, n) => Holds(r, r.frame[n], n)
(* A run in a segment, one that waits in a call (the frame is written, and   *)
(* rc and the flag of a receive are still to be delivered), any one, and one *)
(* not yet started.                                                          *)
InsideRight(r, t) ==
    RegsRight(r, t) /\ Bound(r, t) /\ Pends(r, t) /\ FrameRight(r, t) /\ MovesRight(r, t)
WaitRight(r) ==
    /\ r.state # 1 /\ Takes(segs, r.state) /\ r.pend = None
    /\ \A n \in fields : \/ n = "rc" \/ (n = "closed" /\ r.call = "recv")
                         \/ Holds(r, r.frame[n], n)
RunRight(r) ==
    /\ r.at = "segment" => InsideRight(r, segs[r.state])
    /\ r.at = "waiting" /\ r.call # "" => WaitRight(r)
StartRight(r) == r.pend = None /\ \A n \in Names : r.frame[n] = 0 /\ r.env[n] = 0

(* A step inside a segment.                                                  *)
LEMMA FrameOn ==
    ASSUME NEW t, Sound(t), NEW r, NEW q, r.pc \in DOMAIN t, q.pc \in DOMAIN t, Reaches(t, r.pc, q.pc),
           FrameRight(r, t),
           \A n \in fields : Holds(r, r.frame[n], n) =>
               Holds(q, q.frame[n], n) \/ (t[r.pc].op = "new" /\ t[r.pc].name = n)
    PROVE  FrameRight(q, t)
<1>0. \A j \in DOMAIN t : j \in Nat
  BY DEF Sound
<1> SUFFICES ASSUME NEW n \in fields, ~MaySet(t, n, q.pc) PROVE Holds(q, q.frame[n], n)
  BY DEF FrameRight
<1>1. ~MaySet(t, n, r.pc)
  BY <1>0, SeenOn DEF MaySet
<1>2. ~(t[r.pc].op = "new" /\ t[r.pc].name = n)
  <2>1. r.pc <= r.pc
    BY <1>0
  <2> QED  BY <1>1, <2>1 DEF MaySet, Seen, Assigns
<1>3. Holds(r, r.frame[n], n)
  BY <1>1 DEF FrameRight
<1> QED  BY <1>2, <1>3

LEMMA MovesOn ==
    ASSUME NEW t, Sound(t), NEW r, NEW q, r.pc \in DOMAIN t, q.pc \in DOMAIN t, Reaches(t, r.pc, q.pc),
           MovesRight(r, t),
           \A n \in fields : Holds(r, r.frame[n], n) =>
               Holds(q, q.frame[n], n) \/ (t[r.pc].op = "new" /\ t[r.pc].name = n),
           r.pc \in Openings(t) /\ q.pc = r.pc + 1 =>
               \A n \in fields : MovesIn(t, r.pc, n) => Holds(q, q.frame[n], n)
    PROVE  MovesRight(q, t)
<1>0. \A j \in DOMAIN t : j \in Nat
  BY DEF Sound
<1> SUFFICES ASSUME NEW i \in Openings(t), NEW n \in fields, Inside(t, i, q.pc), MovesIn(t, i, n)
             PROVE  Holds(q, q.frame[n], n)
  BY DEF MovesRight
<1>1. Inside(t, i, r.pc) \/ (i = r.pc /\ q.pc = r.pc + 1)
  BY <1>0, InsideOn
<1>2. CASE Inside(t, i, r.pc)
  <2>1. Holds(r, r.frame[n], n)
    BY <1>2 DEF MovesRight
  <2>2. ASSUME t[r.pc].op = "new", t[r.pc].name = n PROVE FALSE
    <3>1. PICK j \in DOMAIN t : i <= j /\ j <= CloseIn(t, i) /\ t[j].op = "move" /\ t[j].name = n
      BY DEF MovesIn
    <3>2. \A c \in DOMAIN t : Brackets(t, i, c) => c = CloseIn(t, i)
      BY CloseIs
    <3>3. i <= r.pc /\ r.pc <= CloseIn(t, i)
      BY <1>2 DEF Inside, Covers
    <3>4. Within(t, i, j) /\ Within(t, i, r.pc)
      BY <3>1, <3>2, <3>3 DEF Within
    <3>5. Pure(t)
      BY DEF Sound, Tidy, Neat
    <3> QED  BY <2>2, <3>1, <3>4, <3>5 DEF Pure
  <2> QED  BY <2>1, <2>2
<1>3. CASE i = r.pc /\ q.pc = r.pc + 1
  BY <1>3
<1> QED  BY <1>1, <1>2, <1>3

LEMMA StepsRight ==
    ASSUME NEW t, Sound(t), NEW r, NEW q, r.pc \in DOMAIN t, q.pc \in DOMAIN t, Reaches(t, r.pc, q.pc),
           InsideRight(r, t), q.pend = None,
           \A n \in Names : Holds(q, q.regs[n], n) \/ (n = "closed" /\ t[q.pc].op = "recv"),
           Hidden(t[r.pc]) => q.regs["closed"] = 0,
           \A n \in fields : Holds(r, r.frame[n], n) =>
               Holds(q, q.frame[n], n) \/ (t[r.pc].op = "new" /\ t[r.pc].name = n),
           r.pc \in Openings(t) /\ q.pc = r.pc + 1 =>
               \A n \in fields : MovesIn(t, r.pc, n) => Holds(q, q.frame[n], n)
    PROVE  InsideRight(q, t)
<1>1. FrameRight(q, t) /\ MovesRight(q, t)
  <2>1. FrameRight(r, t) /\ MovesRight(r, t)
    BY DEF InsideRight
  <2>2. FrameRight(q, t)
    BY <2>1, FrameOn
  <2>3. MovesRight(q, t)
    BY <2>1, MovesOn
  <2> QED  BY <2>2, <2>3
<1>2. Bound(q, t)
  <2> SUFFICES ASSUME t[q.pc].op = "recv" PROVE q.regs["closed"] = 0
    BY DEF Bound
  <2>1. Hidden(t[r.pc])
    BY ReceiveAfter
  <2> QED  BY <2>1
<1> QED  BY <1>1, <1>2 DEF InsideRight, RegsRight, Pends

(* The first instruction of a segment.                                       *)
LEMMA LandsRight ==
    ASSUME NEW t, Sound(t), NEW q, q.pc = 1, 1 \in DOMAIN t, Pends(q, t),
           \A n \in Names : \/ Holds(q, q.regs[n], n)
                            \/ n = "rc" /\ t[1].op = "take" /\ q.pend # None,
           \A n \in fields : Holds(q, q.frame[n], n) \/ (n = "rc" /\ t[1].op = "take")
    PROVE  InsideRight(q, t)
<1>1. t[1].op # "recv"
  <2>1. 0 \notin DOMAIN t
    BY DEF Sound
  <2>2. 1 - 1 = 0
    OBVIOUS
  <2> QED  BY <2>1, <2>2 DEF Sound, Tidy, Binds
<1>2. FrameRight(q, t)
  <2> SUFFICES ASSUME NEW n \in fields, n = "rc", t[1].op = "take" PROVE MaySet(t, n, 1)
    BY DEF FrameRight
  <2>1. t[1].name = "rc"
    BY DEF Sound, Tidy, Binds
  <2>2. 1 <= 1
    OBVIOUS
  <2> QED  BY <2>1, <2>2 DEF MaySet, Assigns, Seen
<1>3. MovesRight(q, t)
  <2>1. \A i \in Openings(t) : ~Inside(t, i, 1)
    <3> SUFFICES ASSUME NEW i \in Openings(t), i < 1 PROVE FALSE
      BY DEF Inside
    <3>1. i \in DOMAIN t /\ i \in 1 .. Len(t)
      BY DEF Openings, Sound
    <3> QED  BY <3>1
  <2> QED  BY <2>1 DEF MovesRight
<1> QED  BY <1>1, <1>2, <1>3 DEF InsideRight, RegsRight, Bound

(* A run with all it keeps.                                                  *)
Right ==
    /\ Running /\ OnCourse /\ AllTidy(segs) /\ AllLeave(segs) /\ RunRight(run)
    /\ (Unstarted(run) => StartRight(run)) /\ fields \subseteq Names /\ Shapes = {}

LEMMA NowRight ==
    ASSUME Right, run.at = "segment"
    PROVE  /\ Segment = segs[run.state] /\ Sound(Segment) /\ run.pc \in DOMAIN Segment /\ run.pc \in Nat \ {0}
           /\ Current = Segment[run.pc] /\ Current \in Instr /\ InsideRight(run, Segment)
           /\ Typed(run) /\ run.state \in DOMAIN segs
<1>1. /\ run.state \in DOMAIN segs /\ run.pc \in DOMAIN Segment /\ Segment \in Seq(Instr) /\ Whole(Segment)
  BY AtInstruction DEF Right, OnCourse, Kept
<1>2. Segment = segs[run.state] /\ Current = Segment[run.pc] /\ Current \in Instr
  BY <1>1 DEF Segment, Current
<1>3. Tidy(Segment) /\ InsideRight(run, Segment)
  BY <1>1, <1>2 DEF Right, AllTidy, RunRight
<1>4. Typed(run) /\ run.pc \in Nat \ {0}
  BY CurrentTyped DEF Right, Running
<1> QED  BY <1>1, <1>2, <1>3, <1>4 DEF Sound

(* Only the source is at another place.                                      *)
SameRun(q, r) ==
    /\ Typed(q) /\ q.state = r.state /\ q.pc = r.pc /\ q.at = r.at /\ q.regs = r.regs
    /\ q.frame = r.frame /\ q.env = r.env /\ q.pend = r.pend /\ q.call = r.call

LEMMA WriteBackIs ==
    ASSUME NEW r, Typed(r), NEW names
    PROVE  LET q == WriteBack(r, names) IN
           /\ Typed(q) /\ q.state = r.state /\ q.pc = r.pc /\ q.at = r.at /\ q.regs = r.regs
           /\ q.env = r.env /\ q.pend = r.pend /\ q.call = r.call /\ q.ends = r.ends
           /\ \A n \in Names : q.frame[n] = IF n \in names \cap fields THEN r.regs[n] ELSE r.frame[n]
<1> DEFINE f == [n \in Names |-> IF n \in names \cap fields THEN r.regs[n] ELSE r.frame[n]]
<1>1. \A n \in Names : f[n] = IF n \in names \cap fields THEN r.regs[n] ELSE r.frame[n]
  OBVIOUS
<1>2. WriteBack(r, names) = [r EXCEPT !.frame = f]
  BY DEF WriteBack
<1>3. Typed(WriteBack(r, names))
  BY WriteBackTyped
<1> HIDE DEF f
<1> QED  BY <1>1, <1>2, <1>3 DEF Typed, IsRun

(* The bodies around an instruction of a segment.                            *)
LEMMA OpenerIs ==
    ASSUME NEW k \in Nat, Sound(Segment), k \in DOMAIN Segment
    PROVE  /\ Opener(k) = k => \A i \in Openings(Segment) : i < k => CloseIn(Segment, i) <= k
           /\ Opener(k) # k => \E i \in Openings(Segment) : i < k /\ CloseIn(Segment, i) > k
<1> DEFINE around == {i \in 1 .. k - 1 : Segment[i].op \in AllKinds /\ CloseIn(Segment, i) > k}
<1>1. Opener(k) = IF around = {} THEN k ELSE CHOOSE i \in around : \A j \in around : i <= j
  BY DEF Opener
<1>2. \A i : i \in around <=> i \in Openings(Segment) /\ i < k /\ CloseIn(Segment, i) > k
  <2>1. DOMAIN Segment = 1 .. Len(Segment) /\ Len(Segment) \in Nat
    BY DEF Sound
  <2>2. \A i : i \in 1 .. k - 1 <=> i \in DOMAIN Segment /\ i < k
    BY <2>1
  <2> QED  BY <2>2 DEF Openings
<1>3. around \subseteq Nat
  OBVIOUS
<1> HIDE DEF around
<1>4. CASE around = {}
  <2> SUFFICES ASSUME NEW i \in Openings(Segment), i < k PROVE CloseIn(Segment, i) <= k
    BY <1>1, <1>4
  <2>1. CloseIn(Segment, i) \in Nat
    BY CloseIs
  <2> QED  BY <1>2, <1>4, <2>1
<1>5. CASE around # {}
  <2>1. \E x \in around : \A y \in around : x <= y
    BY <1>3, <1>5, LeastNumber
  <2>2. Opener(k) \in around
    BY <1>1, <1>5, <2>1
  <2> QED  BY <1>2, <1>3, <2>2
<1> QED  BY <1>4, <1>5

(* What a body moves has its value in the frame when the body is reached.    *)
LEMMA NotSet ==
    ASSUME Right, run.at = "segment", Current.op \in {"use", "move"} \cup AllKinds, Opener(run.pc) = run.pc,
           NEW n \in fields, n \in Sites(run.pc), n \notin Touched(run.pc - 1)
    PROVE  ~MaySet(Segment, n, run.pc)
<1> DEFINE t == Segment
           k == run.pc
<1>1. Sound(t) /\ k \in DOMAIN t /\ k \in Nat /\ Current = t[k] /\ DOMAIN t = 1 .. Len(t) /\ Len(t) \in Nat
  BY NowRight DEF Sound
<1>2. PICK m \in k .. IF t[k].op \in AllKinds THEN CloseIn(t, k) ELSE k : t[m].op = "move" /\ t[m].name = n
  BY <1>1 DEF Sites
<1>3. k \in Openings(t) => CloseIn(t, k) \in DOMAIN t
  BY <1>1, CloseIs
<1>4. m \in DOMAIN t /\ m \in Nat /\ k <= m /\ (t[k].op \in AllKinds => m <= CloseIn(t, k))
  <2>1. CASE t[k].op \in AllKinds
    <3>1. CloseIn(t, k) \in 1 .. Len(t) /\ m \in k .. CloseIn(t, k)
      BY <1>1, <1>2, <1>3, <2>1 DEF Openings
    <3> HIDE DEF t, k
    <3>2. m \in 1 .. Len(t) /\ k <= m /\ m <= CloseIn(t, k)
      BY <1>1, <3>1
    <3> QED  BY <1>1, <3>2
  <2>2. CASE t[k].op \notin AllKinds
    <3>1. m = k
      BY <1>1, <1>2, <2>2
    <3> QED  BY <1>1, <2>2, <3>1
  <2> QED  BY <2>1, <2>2
<1>5. n # "rc"
  BY <1>1, <1>2, <1>4 DEF Sound, Tidy, Binds
<1>6. SUFFICES ASSUME NEW j \in DOMAIN t, Assigns(t[j], n), Seen(t, j, k) PROVE FALSE
  BY DEF MaySet
<1>7. ~(j <= k)
  <2> SUFFICES ASSUME j <= k PROVE FALSE
    OBVIOUS
  <2>1. j # k
    BY <1>1, <1>6 DEF Assigns, Calls, AllKinds, Loops
  <2>2. j \in 1 .. k - 1
    <3>1. j \in 1 .. Len(t)
      BY <1>1
    <3> HIDE DEF t, k
    <3> QED  BY <1>1, <2>1, <3>1
  <2>3. Segment[j].op \in {"new", "take"} \cup Calls /\ Segment[j].name = n
    BY <1>6 DEF Assigns
  <2> QED  BY <2>2, <2>3 DEF Touched
<1>8. PICK i \in Openings(t) : Covers(t, i, k) /\ j <= CloseIn(t, i)
  BY <1>6, <1>7 DEF Seen
<1>9. i = k
  <2>1. i \in Nat /\ CloseIn(t, i) \in Nat /\ t[CloseIn(t, i)].op = "close"
    BY <1>1, CloseIs
  <2>2. k # CloseIn(t, i)
    BY <1>1, <2>1 DEF AllKinds, Loops
  <2>3. i < k => CloseIn(t, i) <= k
    BY <1>1, OpenerIs
  <2> HIDE DEF t, k
  <2> QED  BY <1>1, <1>8, <2>1, <2>2, <2>3 DEF Covers
<1>10. k \in Openings(t) /\ t[k].op \in AllKinds /\ j <= CloseIn(t, k) /\ m <= CloseIn(t, k)
  BY <1>4, <1>8, <1>9 DEF Openings
<1>11. Within(t, k, j) /\ Within(t, k, m)
  <2>1. \A c \in DOMAIN t : Brackets(t, k, c) => c = CloseIn(t, k)
    BY <1>1, <1>10, CloseIs
  <2>2. k <= j
    <3>1. j \in Nat
      BY <1>1
    <3> HIDE DEF t, k
    <3> QED  BY <1>1, <1>7, <3>1
  <2> HIDE DEF t, k
  <2> QED  BY <1>4, <1>10, <2>1, <2>2 DEF Within
<1>12. t[j].op # "new"
  <2>1. Pure(t)
    BY <1>1 DEF Sound, Tidy, Neat
  <2> HIDE DEF t, k
  <2> QED  BY <1>2, <1>4, <1>6, <1>10, <1>11, <2>1 DEF Pure, Assigns
<1>13. t[j].name = "rc"
  BY <1>1, <1>6, <1>12 DEF Sound, Tidy, Binds, Assigns
<1> QED  BY <1>5, <1>6, <1>13 DEF Assigns

LEMMA RegHolds ==
    ASSUME Right, run.at = "segment", Current.op \notin {"take", "recv"}, NEW n \in Names
    PROVE  Holds(run, run.regs[n], n)
  BY NowRight DEF InsideRight, RegsRight

LEMMA FlushHolds ==
    ASSUME Right, run.at = "segment", Current.op \in {"use", "move"} \cup AllKinds,
           NEW n \in fields, n \in Sites(run.pc)
    PROVE  Holds(run, Flushed(run).frame[n], n)
<1> DEFINE t == Segment
           k == run.pc
<1>1. /\ Sound(t) /\ k \in DOMAIN t /\ k \in Nat /\ Current = t[k] /\ InsideRight(run, t) /\ Typed(run)
      /\ n \in Names
  BY NowRight DEF Right
<1>2. Holds(run, run.regs[n], n)
  BY <1>1, RegHolds DEF AllKinds, Loops
<1>3. CASE Opener(k) = k
  <2> DEFINE names == Touched(run.pc - 1) \cap Sites(run.pc)
  <2>1. Flushed(run).frame[n] = IF n \in names \cap fields THEN run.regs[n] ELSE run.frame[n]
    <3>1. Flushed(run) = WriteBack(run, names)
      BY <1>3 DEF Flushed
    <3> HIDE DEF names
    <3> QED  BY <1>1, <3>1, WriteBackIs
  <2>2. CASE n \in Touched(run.pc - 1)
    BY <1>2, <2>1, <2>2
  <2>3. CASE n \notin Touched(run.pc - 1)
    <3>1. ~MaySet(t, n, k)
      BY <1>3, <2>3, NotSet
    <3>2. Holds(run, run.frame[n], n)
      BY <1>1, <3>1 DEF InsideRight, FrameRight
    <3> QED  BY <2>1, <2>3, <3>2
  <2> QED  BY <2>2, <2>3
<1>4. CASE Opener(k) # k
  <2>1. Flushed(run) = run
    BY <1>4 DEF Flushed
  <2>2. PICK i \in Openings(t) : i < k /\ CloseIn(t, i) > k
    BY <1>1, <1>4, OpenerIs
  <2>3. i \in Nat /\ CloseIn(t, i) \in Nat /\ DOMAIN t = 1 .. Len(t) /\ Len(t) \in Nat
    BY <1>1, CloseIs DEF Sound
  <2>4. Inside(t, i, k)
    <3> HIDE DEF t, k
    <3> QED  BY <1>1, <2>2, <2>3 DEF Inside, Covers
  <2>5. PICK m \in k .. IF t[k].op \in AllKinds THEN CloseIn(t, k) ELSE k : t[m].op = "move" /\ t[m].name = n
    BY <1>1 DEF Sites
  <2>6. m \in DOMAIN t /\ i <= m /\ m <= CloseIn(t, i)
    <3>1. CASE t[k].op \in AllKinds
      <4>1. k \in Openings(t)
        BY <1>1, <3>1 DEF Openings
      <4>2. CloseIn(t, k) \in DOMAIN t /\ CloseIn(t, k) \in Nat
        BY <1>1, <4>1, CloseIs
      <4>3. CloseIn(t, k) < CloseIn(t, i)
        <5>1. k <= CloseIn(t, i)
          BY <2>4 DEF Inside, Covers
        <5> QED  BY <1>1, <2>2, <4>1, <5>1, CloseNests
      <4>4. m \in k .. CloseIn(t, k)
        BY <2>5, <3>1
      <4> HIDE DEF t, k
      <4>5. m \in DOMAIN t
        BY <1>1, <2>3, <4>2, <4>4
      <4> QED  BY <1>1, <2>2, <2>3, <4>2, <4>3, <4>4, <4>5
    <3>2. CASE t[k].op \notin AllKinds
      <4>1. m = k
        BY <1>1, <2>5, <3>2
      <4> HIDE DEF t, k
      <4> QED  BY <1>1, <2>2, <2>3, <4>1
    <3> QED  BY <3>1, <3>2
  <2>7. MovesIn(t, i, n)
    BY <2>5, <2>6 DEF MovesIn
  <2>8. Holds(run, run.frame[n], n)
    BY <1>1, <2>4, <2>7 DEF InsideRight, MovesRight
  <2> QED  BY <2>1, <2>8
<1> QED  BY <1>3, <1>4

(* What emitPlain stores in front of a statement.                            *)
LEMMA FlushedIs ==
    ASSUME NEW r, Typed(r)
    PROVE  LET q == Flushed(r) IN
           /\ Typed(q) /\ q.state = r.state /\ q.pc = r.pc /\ q.at = r.at /\ q.regs = r.regs
           /\ q.env = r.env /\ q.pend = r.pend /\ q.call = r.call
           /\ \A n \in Names : q.frame[n] \in {r.regs[n], r.frame[n]}
<1> DEFINE names == Touched(r.pc - 1) \cap Sites(r.pc)
<1>1. CASE Flushed(r) = WriteBack(r, names)
  <2> HIDE DEF names
  <2> QED  BY <1>1, WriteBackIs
<1>2. CASE Flushed(r) = r
  BY <1>2
<1> QED  BY <1>1, <1>2 DEF Flushed

LEMMA FlushKeeps ==
    ASSUME Right, run.at = "segment", Current.op \notin {"take", "recv"}, NEW n \in fields,
           Holds(run, run.frame[n], n)
    PROVE  Holds(run, Flushed(run).frame[n], n)
<1>1. Typed(run) /\ n \in Names
  BY NowRight DEF Right
<1>2. Flushed(run).frame[n] \in {run.regs[n], run.frame[n]}
  BY <1>1, FlushedIs
<1>3. Holds(run, run.regs[n], n)
  BY <1>1, RegHolds
<1> QED  BY <1>2, <1>3

LEMMA FollowSame ==
    ASSUME Right, run.at = "segment", Current.op \notin {"goto", "finish"} \/ (Current.op = "goto" /\ Current.shown),
           NEW r, Typed(r), NEW taken \in BOOLEAN
    PROVE  SameRun(Follow(r, taken), r)
<1>1. Current.src \in 1 .. Len(code) /\ Running
  BY CurrentTyped DEF Right
<1>2. Typed(Follow(r, taken))
  BY <1>1, FollowTyped
<1> QED  BY <1>2 DEF SameRun, Follow, Typed, IsRun

LEMMA SameRight ==
    ASSUME NEW r, NEW q, SameRun(q, r), RunRight(r)
    PROVE  RunRight(q)
<1>1. InsideRight(r, segs[r.state]) => InsideRight(q, segs[q.state])
  BY DEF SameRun, InsideRight, RegsRight, Bound, Pends, FrameRight, MovesRight, Holds
<1>2. WaitRight(r) => WaitRight(q)
  BY DEF SameRun, WaitRight, Holds
<1> QED  BY <1>1, <1>2 DEF SameRun, RunRight

(* A step that stays in its segment.                                         *)
OnRight(q) == q.at # "waiting" /\ RunRight(q)

LEMMA StaysRight ==
    ASSUME Right, run.at = "segment", NEW q, q.state = run.state, q.at = "segment", InsideRight(q, Segment)
    PROVE  OnRight(q)
  BY NowRight DEF RunRight, OnRight

LEMMA NextIs ==
    ASSUME Right, run.at = "segment", Current.op \notin Terminal
    PROVE  run.pc + 1 \in DOMAIN Segment /\ Reaches(Segment, run.pc, run.pc + 1)
<1>1. Sound(Segment) /\ run.pc \in DOMAIN Segment /\ Current = Segment[run.pc]
  BY NowRight
<1>2. run.pc + 1 \in DOMAIN Segment
  BY <1>1, GoesOn DEF Sound, Whole
<1> QED  BY <1>2 DEF Reaches

LEMMA FollowRight ==
    ASSUME Right, run.at = "segment", Current.op \notin {"goto", "finish"} \/ (Current.op = "goto" /\ Current.shown),
           NEW q, Typed(q), OnRight(q), NEW taken \in BOOLEAN
    PROVE  OnRight(Follow(q, taken))
<1>1. SameRun(Follow(q, taken), q)
  BY FollowSame
<1>2. Follow(q, taken).at = q.at
  BY <1>1 DEF SameRun
<1> HIDE DEF Follow
<1> QED  BY <1>1, <1>2, SameRight DEF OnRight

(* A read changes at most the value of the handle it moves away.             *)
LEMMA ReadsRight ==
    ASSUME Right, Reads, phase' # "refused" PROVE OnRight(run')
<1> DEFINE f == Flushed(run)
           name == Current.name
           b == [f EXCEPT !.pc = @ + 1, !.env[name] = IF Current.op = "move" THEN None ELSE @]
<1>1. run.at = "segment" /\ Current.op \in {"use", "move"} /\ run' = Follow(b, TRUE)
  BY DEF Reads, Step, Becomes
<1>2. /\ Sound(Segment) /\ run.pc \in DOMAIN Segment /\ Current = Segment[run.pc]
      /\ InsideRight(run, Segment) /\ Typed(run)
  BY <1>1, NowRight
<1>3. /\ Typed(f) /\ f.state = run.state /\ f.pc = run.pc /\ f.at = run.at /\ f.regs = run.regs
      /\ f.env = run.env /\ f.pend = run.pend /\ f.call = run.call
  BY <1>2, FlushedIs
<1>4. \A n \in fields : Holds(run, run.frame[n], n) => Holds(run, f.frame[n], n)
  BY <1>1, FlushKeeps
<1> HIDE DEF f
<1>5. /\ Typed(b) /\ b.pc = run.pc + 1 /\ b.at = "segment" /\ b.state = run.state /\ b.regs = run.regs
      /\ b.frame = f.frame /\ b.pend = run.pend
      /\ b.env = [run.env EXCEPT ![name] = IF Current.op = "move" THEN None ELSE @]
  <2>1. [run.env EXCEPT ![name] = IF Current.op = "move" THEN None ELSE @] \in [Names -> Value]
    <3>1. None \in Value /\ run.env \in [Names -> Value]
      BY <1>2 DEF Value, Typed
    <3> QED  BY <3>1
  <2>2. [f.env EXCEPT ![name] = IF Current.op = "move" THEN None ELSE @] \in [Names -> Value]
    BY <1>3, <2>1
  <2> QED  BY <1>1, <1>3, <2>2 DEF Typed, IsRun
<1> HIDE DEF b
<1>6. \A n \in Names : \A v : Holds(run, v, n) => Holds(b, v, n)
  <2>1. \A n \in Names : b.env[n] = run.env[n] \/ b.env[n] = None
    <3> DEFINE v == IF Current.op = "move" THEN None ELSE run.env[name]
    <3>1. b.env = [run.env EXCEPT ![name] = v] /\ DOMAIN run.env = Names
      BY <1>2, <1>5 DEF Typed
    <3>2. v = None \/ v = run.env[name]
      OBVIOUS
    <3> HIDE DEF v
    <3> QED  BY <3>1, <3>2
  <2> QED  BY <2>1 DEF Holds
<1>7. \A n \in Names : Holds(b, b.regs[n], n)
  <2>1. \A n \in Names : Holds(run, run.regs[n], n)
    BY <1>1, RegHolds
  <2> QED  BY <1>5, <1>6, <2>1
<1>8. \A n \in fields : Holds(run, run.frame[n], n) => Holds(b, b.frame[n], n)
  BY <1>4, <1>5, <1>6 DEF Right
<1>9. b.pend = None
  BY <1>1, <1>2, <1>5 DEF InsideRight, Pends
<1>10. b.pc \in DOMAIN Segment /\ Reaches(Segment, run.pc, b.pc)
  BY <1>1, <1>5, NextIs DEF Terminal, Transfers, Calls
<1>11. ~Hidden(Segment[run.pc]) /\ run.pc \notin Openings(Segment)
  BY <1>1, <1>2 DEF Hidden, Openings, AllKinds, Loops
<1>12. InsideRight(b, Segment)
  BY <1>2, <1>7, <1>8, <1>9, <1>10, <1>11, StepsRight
<1>13. OnRight(b)
  BY <1>1, <1>5, <1>12, StaysRight
<1> QED  BY <1>1, <1>5, <1>13, FollowRight

LEMMA RunSpawnRight ==
    ASSUME Right, RunSpawn PROVE OnRight(run')
<1> DEFINE b == [run EXCEPT !.pc = @ + 1]
<1>1. run.at = "segment" /\ Current.op = "spawn" /\ run' = Follow(b, TRUE)
  BY DEF RunSpawn, Step, Becomes
<1>2. /\ Sound(Segment) /\ run.pc \in DOMAIN Segment /\ Current = Segment[run.pc]
      /\ InsideRight(run, Segment) /\ Typed(run)
  BY <1>1, NowRight
<1>5. /\ Typed(b) /\ b.pc = run.pc + 1 /\ b.at = "segment" /\ b.state = run.state /\ b.regs = run.regs
      /\ b.frame = run.frame /\ b.pend = run.pend /\ b.env = run.env
  BY <1>1, <1>2 DEF Typed, IsRun
<1> HIDE DEF b
<1>6. \A n \in Names : \A v : Holds(run, v, n) => Holds(b, v, n)
  BY <1>5 DEF Holds
<1>7. \A n \in Names : Holds(b, b.regs[n], n)
  <2>1. \A n \in Names : Holds(run, run.regs[n], n)
    BY <1>1, RegHolds
  <2> QED  BY <1>5, <1>6, <2>1
<1>8. \A n \in fields : Holds(run, run.frame[n], n) => Holds(b, b.frame[n], n)
  BY <1>5, <1>6 DEF Right
<1>9. b.pend = None
  BY <1>1, <1>2, <1>5 DEF InsideRight, Pends
<1>10. b.pc \in DOMAIN Segment /\ Reaches(Segment, run.pc, b.pc)
  BY <1>1, <1>5, NextIs DEF Terminal, Transfers, Calls
<1>11. ~Hidden(Segment[run.pc]) /\ run.pc \notin Openings(Segment)
  BY <1>1, <1>2 DEF Hidden, Openings, AllKinds, Loops
<1>12. InsideRight(b, Segment)
  BY <1>2, <1>7, <1>8, <1>9, <1>10, <1>11, StepsRight
<1>13. OnRight(b)
  BY <1>1, <1>5, <1>12, StaysRight
<1> QED  BY <1>1, <1>5, <1>13, FollowRight

(* The steps inside a segment.                                               *)
LEMMA RunNewRight ==
    ASSUME Right, RunNew PROVE OnRight(run')
<1> DEFINE name == Current.name
           value == IF Current.shown THEN Other(name) ELSE 0
           a == [run EXCEPT !.pc = @ + 1, !.regs[name] = value]
           b == [a EXCEPT !.env[name] = value]
<1>1. run.at = "segment" /\ Current.op = "new" /\ run' = IF Current.shown THEN Follow(b, TRUE) ELSE a
  BY DEF RunNew, Step, Becomes
<1>2. /\ Sound(Segment) /\ run.pc \in DOMAIN Segment /\ Current = Segment[run.pc] /\ Current \in Instr
      /\ InsideRight(run, Segment) /\ Typed(run)
  BY <1>1, NowRight
<1>3. value \in Value
  BY DEF Other, Value, Bit
<1>4. ~Current.shown => value = 0
  OBVIOUS
<1> HIDE DEF value
<1>5. /\ Typed(a) /\ a.pc = run.pc + 1 /\ a.at = "segment" /\ a.state = run.state
      /\ a.frame = run.frame /\ a.pend = run.pend /\ a.env = run.env
      /\ \A n \in Names : a.regs[n] = IF n = name THEN value ELSE run.regs[n]
  <2>1. [run.regs EXCEPT ![name] = value] \in [Names -> Value]
    BY <1>2, <1>3 DEF Typed
  <2>2. \A n \in Names : [run.regs EXCEPT ![name] = value][n] = IF n = name THEN value ELSE run.regs[n]
    BY <1>2 DEF Typed
  <2> QED  BY <1>1, <1>2, <2>1, <2>2 DEF Typed, IsRun
<1> HIDE DEF a
<1>6. /\ Typed(b) /\ b.pc = run.pc + 1 /\ b.at = "segment" /\ b.state = run.state
      /\ b.frame = run.frame /\ b.pend = run.pend /\ b.regs = a.regs
      /\ \A n \in Names : b.env[n] = IF n = name THEN value ELSE run.env[n]
  <2>1. [a.env EXCEPT ![name] = value] \in [Names -> Value]
    BY <1>3, <1>5 DEF Typed
  <2>2. \A n \in Names : [a.env EXCEPT ![name] = value][n] = IF n = name THEN value ELSE run.env[n]
    BY <1>2, <1>5 DEF Typed
  <2> QED  BY <1>5, <2>1, <2>2 DEF Typed, IsRun
<1> HIDE DEF b
<1>7. \A n \in Names : Holds(run, run.regs[n], n)
  BY <1>1, RegHolds
<1>8. run.pend = None
  BY <1>1, <1>2 DEF InsideRight, Pends
<1>9. run.pc + 1 \in DOMAIN Segment /\ Reaches(Segment, run.pc, run.pc + 1)
  BY <1>1, NextIs DEF Terminal, Transfers, Calls
<1>10. run.pc \notin Openings(Segment)
  BY <1>1, <1>2 DEF Openings, AllKinds, Loops
<1>11. CASE Current.shown
  <2>1. \A n \in Names : Holds(b, b.regs[n], n)
    BY <1>5, <1>6, <1>7 DEF Holds
  <2>2. \A n \in fields : Holds(run, run.frame[n], n) =>
           Holds(b, b.frame[n], n) \/ (Segment[run.pc].op = "new" /\ Segment[run.pc].name = n)
    BY <1>1, <1>2, <1>6 DEF Holds, Right
  <2>3. ~Hidden(Segment[run.pc])
    BY <1>2, <1>11 DEF Hidden
  <2>4. InsideRight(b, Segment)
    BY <1>2, <1>6, <1>8, <1>9, <1>10, <2>1, <2>2, <2>3, StepsRight
  <2>5. OnRight(b)
    BY <1>1, <1>6, <2>4, StaysRight
  <2> QED  BY <1>1, <1>6, <1>11, <2>5, FollowRight
<1>12. CASE ~Current.shown
  <2>1. Hidden(Segment[run.pc])
    BY <1>1, <1>2, <1>12 DEF Hidden
  <2>2. name = "closed" /\ Segment[run.pc + 1].op = "recv"
    BY <1>2, <2>1 DEF Sound, Tidy, Binds
  <2>3. a.regs["closed"] = 0
    BY <1>4, <1>5, <1>12, <2>2 DEF Names
  <2>4. \A n \in Names : Holds(a, a.regs[n], n) \/ (n = "closed" /\ Segment[a.pc].op = "recv")
    BY <1>5, <1>7, <2>2 DEF Holds
  <2>5. \A n \in fields : Holds(run, run.frame[n], n) => Holds(a, a.frame[n], n)
    BY <1>5 DEF Holds
  <2>6. InsideRight(a, Segment)
    BY <1>2, <1>5, <1>8, <1>9, <1>10, <2>3, <2>4, <2>5, StepsRight
  <2> QED  BY <1>1, <1>5, <1>12, <2>6, StaysRight
<1> QED  BY <1>11, <1>12

LEMMA RunTakeRight ==
    ASSUME Right, RunTake PROVE OnRight(run')
<1> DEFINE v == IF run.pend = None THEN run.regs["rc"] ELSE run.pend
           a == [run EXCEPT !.pc = @ + 1, !.pend = None,
                            !.regs["rc"] = IF run.pend = None THEN @ ELSE run.pend]
<1>1. run.at = "segment" /\ Current.op = "take" /\ run' = a
  BY DEF RunTake, Step, Becomes
<1>2. /\ Sound(Segment) /\ run.pc \in DOMAIN Segment /\ Current = Segment[run.pc]
      /\ InsideRight(run, Segment) /\ Typed(run)
  BY <1>1, NowRight
<1>3. v \in Value
  BY <1>2 DEF Typed, Value, Bit, Names
<1>4. /\ Typed(a) /\ a.pc = run.pc + 1 /\ a.at = "segment" /\ a.state = run.state
      /\ a.frame = run.frame /\ a.pend = None /\ a.env = run.env
      /\ \A n \in Names : a.regs[n] = IF n = "rc" THEN v ELSE run.regs[n]
  <2>1. [run.regs EXCEPT !["rc"] = IF run.pend = None THEN @ ELSE run.pend] = [run.regs EXCEPT !["rc"] = v]
    OBVIOUS
  <2> HIDE DEF v
  <2>2. [run.regs EXCEPT !["rc"] = v] \in [Names -> Value]
    BY <1>2, <1>3 DEF Typed
  <2>3. \A n \in Names : [run.regs EXCEPT !["rc"] = v][n] = IF n = "rc" THEN v ELSE run.regs[n]
    BY <1>2 DEF Typed
  <2> QED  BY <1>1, <1>2, <2>1, <2>2, <2>3 DEF Typed, IsRun
<1>5. \A n \in Names : Holds(a, a.regs[n], n)
  <2> SUFFICES ASSUME NEW n \in Names PROVE Holds(a, a.regs[n], n)
    OBVIOUS
  <2>1. \/ Holds(run, run.regs[n], n)
        \/ n = "rc" /\ run.pend # None
    BY <1>1, <1>2 DEF InsideRight, RegsRight
  <2>2. run.pend # None => run.pend = 0 /\ run.env["rc"] = 0
    BY <1>2 DEF InsideRight, Pends
  <2> HIDE DEF a
  <2> QED  BY <1>4, <2>1, <2>2 DEF Holds
<1> HIDE DEF a
<1>6. \A n \in fields : Holds(run, run.frame[n], n) => Holds(a, a.frame[n], n)
  BY <1>4 DEF Holds
<1>7. run.pc + 1 \in DOMAIN Segment /\ Reaches(Segment, run.pc, run.pc + 1)
  BY <1>1, NextIs DEF Terminal, Transfers, Calls
<1>8. run.pc \notin Openings(Segment) /\ ~Hidden(Segment[run.pc])
  BY <1>1, <1>2 DEF Hidden, Openings, AllKinds, Loops
<1>9. InsideRight(a, Segment)
  BY <1>2, <1>4, <1>5, <1>6, <1>7, <1>8, StepsRight
<1> QED  BY <1>1, <1>4, <1>9, StaysRight

(* A step that changes no value, and the frame at most as it is flushed.     *)
LEMMA QuietRight ==
    ASSUME Right, run.at = "segment", Current.op \notin {"take", "recv", "new"},
           NEW q, q.at = "segment", q.state = run.state, q.regs = run.regs, q.env = run.env, q.pend = run.pend,
           q.frame = run.frame \/ q.frame = Flushed(run).frame,
           q.pc \in DOMAIN Segment, Reaches(Segment, run.pc, q.pc),
           Current.op \in AllKinds => q.frame = Flushed(run).frame
    PROVE  OnRight(q)
<1>1. /\ Sound(Segment) /\ run.pc \in DOMAIN Segment /\ Current = Segment[run.pc]
      /\ InsideRight(run, Segment) /\ fields \subseteq Names
  BY NowRight DEF Right
<1>2. \A n, v : Holds(q, v, n) <=> Holds(run, v, n)
  BY DEF Holds
<1>3. \A n \in Names : Holds(q, q.regs[n], n)
  BY <1>2, RegHolds
<1>4. \A n \in fields : Holds(run, run.frame[n], n) => Holds(q, q.frame[n], n)
  BY <1>2, FlushKeeps
<1>5. ASSUME run.pc \in Openings(Segment), NEW n \in fields, MovesIn(Segment, run.pc, n)
      PROVE  Holds(q, q.frame[n], n)
  <2>1. Current.op \in AllKinds /\ q.frame = Flushed(run).frame
    BY <1>1, <1>5 DEF Openings
  <2>2. n \in Sites(run.pc)
    <3>1. PICK j \in DOMAIN Segment : /\ run.pc <= j /\ j <= CloseIn(Segment, run.pc)
                                      /\ Segment[j].op = "move" /\ Segment[j].name = n
      BY <1>5 DEF MovesIn
    <3>2. run.pc \in Nat /\ CloseIn(Segment, run.pc) \in Nat /\ j \in Nat
      BY <1>1, <1>5, CloseIs DEF Sound
    <3>3. j \in run.pc .. CloseIn(Segment, run.pc)
      BY <3>1, <3>2
    <3> QED  BY <1>1, <2>1, <3>1, <3>3 DEF Sites
  <2>3. Holds(run, Flushed(run).frame[n], n)
    BY <2>1, <2>2, FlushHolds
  <2> QED  BY <1>2, <2>1, <2>3
<1>6. q.pend = None
  BY <1>1 DEF InsideRight, Pends
<1>7. ~Hidden(Segment[run.pc])
  BY <1>1 DEF Hidden
<1>8. InsideRight(q, Segment)
  BY <1>1, <1>3, <1>4, <1>5, <1>6, <1>7, StepsRight
<1> QED  BY <1>8, StaysRight

LEMMA PlainOpenRight ==
    ASSUME Right, PlainOpen PROVE OnRight(run')
<1> DEFINE f == Flushed(run)
           there(taken) == [f EXCEPT !.pc = IF taken THEN @ + 1 ELSE CloseIn(Segment, @) + 1]
           e(taken) == [there(taken) EXCEPT !.rounds = IF Entering(taken) THEN @ - 1 ELSE @]
<1>1. PICK taken \in BOOLEAN :
        /\ run.at = "segment" /\ Current.op \in AllKinds
        /\ Current.op # "block" /\ Entering(taken) => run.rounds > 0
        /\ run' = IF Current.op = "block" THEN there(taken) ELSE Follow(e(taken), taken)
  BY DEF PlainOpen, Step, Becomes
<1>2. /\ Sound(Segment) /\ run.pc \in DOMAIN Segment /\ Current = Segment[run.pc] /\ Typed(run)
      /\ run.pc \in Openings(Segment)
  BY <1>1, NowRight DEF Openings
<1>3. /\ Typed(f) /\ f.state = run.state /\ f.pc = run.pc /\ f.at = run.at /\ f.regs = run.regs
      /\ f.env = run.env /\ f.pend = run.pend /\ f.rounds = run.rounds
  <2>1. f.rounds = run.rounds
    BY <1>2, FlushedTyped
  <2> HIDE DEF f
  <2> QED  BY <1>2, <2>1, FlushedIs DEF f
<1>4. Current.op \notin {"take", "recv", "new"} /\ Current.op \notin Terminal /\ Current.op \notin {"goto", "finish"}
  BY <1>1 DEF AllKinds, Loops, Terminal, Transfers, Calls
<1> DEFINE k2 == IF taken THEN run.pc + 1 ELSE CloseIn(Segment, run.pc) + 1
<1>5. k2 \in DOMAIN Segment /\ Reaches(Segment, run.pc, k2)
  <2>1. CASE taken
    BY <1>1, <1>4, <2>1, NextIs
  <2>2. CASE ~taken
    <3>1. CloseIn(Segment, run.pc) + 1 \in DOMAIN Segment
      BY <1>1, <1>2, BehindClose DEF Right, OnCourse
    <3>2. Covers(Segment, run.pc, run.pc)
      <4>1. run.pc \in Nat /\ CloseIn(Segment, run.pc) \in Nat /\ run.pc < CloseIn(Segment, run.pc)
        BY <1>2, CloseIs
      <4> QED  BY <1>2, <4>1 DEF Covers
    <3> QED  BY <1>2, <2>2, <3>1, <3>2 DEF Reaches
  <2> QED  BY <2>1, <2>2
<1> HIDE DEF f
<1>6. /\ Typed(there(taken)) /\ there(taken).pc = k2 /\ there(taken).at = "segment"
      /\ there(taken).state = run.state /\ there(taken).regs = run.regs /\ there(taken).env = run.env
      /\ there(taken).pend = run.pend /\ there(taken).frame = f.frame /\ there(taken).rounds = run.rounds
  <2>1. Typed(there(taken))
    BY <1>1, <1>3, StepTypes
  <2> QED  BY <1>1, <1>3, <2>1 DEF Typed, IsRun
<1> HIDE DEF there, k2
<1>7. CASE Current.op = "block"
  <2>1. OnRight(there(taken))
    BY <1>1, <1>4, <1>5, <1>6, QuietRight DEF f
  <2> QED  BY <1>1, <1>7, <2>1
<1>8. CASE Current.op # "block"
  <2>1. /\ e(taken).pc = k2 /\ e(taken).at = "segment" /\ e(taken).state = run.state
        /\ e(taken).regs = run.regs /\ e(taken).env = run.env /\ e(taken).pend = run.pend
        /\ e(taken).frame = f.frame
    BY <1>6 DEF Typed, IsRun
  <2>2. Typed(e(taken))
    BY <1>1, <1>6, <1>8, RoundTypes
  <2> HIDE DEF e
  <2>3. OnRight(e(taken))
    BY <1>1, <1>4, <1>5, <2>1, QuietRight DEF f
  <2> QED  BY <1>1, <1>4, <1>8, <2>2, <2>3, FollowRight
<1> QED  BY <1>7, <1>8

LEMMA PlainCloseRight ==
    ASSUME Right, PlainClose PROVE OnRight(run')
<1> DEFINE k2 == IF Segment[Current.to].op \in Loops THEN Current.to ELSE run.pc + 1
           q == [run EXCEPT !.pc = k2]
<1>1. run.at = "segment" /\ Current.op = "close" /\ run' = q
  BY DEF PlainClose, Step, Becomes
<1>2. /\ Sound(Segment) /\ run.pc \in DOMAIN Segment /\ Current = Segment[run.pc] /\ Typed(run)
  BY <1>1, NowRight
<1>3. k2 \in DOMAIN Segment /\ Reaches(Segment, run.pc, k2)
  <2>1. Current.to \in Openings(Segment) /\ Current.to < run.pc /\ Brackets(Segment, Current.to, run.pc)
    BY <1>1, <1>2 DEF Sound, Tidy, Neat, Bracketed, Brackets
  <2>2. run.pc = CloseIn(Segment, Current.to)
    BY <1>2, <2>1, CloseIs
  <2>3. Covers(Segment, Current.to, run.pc) /\ Current.to \in DOMAIN Segment
    <3>1. Current.to \in Nat /\ run.pc \in Nat
      BY <1>2, <2>1, <2>2, CloseIs
    <3> QED  BY <2>1, <2>2, <3>1 DEF Covers, Openings
  <2>4. run.pc + 1 \in DOMAIN Segment
    BY <1>1, NextIs DEF Terminal, Transfers, Calls
  <2> QED  BY <2>1, <2>3, <2>4 DEF Reaches
<1> HIDE DEF k2
<1>4. /\ q.pc = k2 /\ q.at = "segment" /\ q.state = run.state /\ q.regs = run.regs /\ q.env = run.env
      /\ q.pend = run.pend /\ q.frame = run.frame
  BY <1>1, <1>2 DEF Typed, IsRun
<1> HIDE DEF q
<1> QED  BY <1>1, <1>3, <1>4, QuietRight DEF AllKinds, Loops

LEMMA PlainJumpRight ==
    ASSUME Right, PlainJump PROVE OnRight(run')
<1> DEFINE k2 == IF Current.op = "continue" THEN Current.to ELSE CloseIn(Segment, Current.to) + 1
           q == [run EXCEPT !.pc = k2]
<1>1. run.at = "segment" /\ Current.op \in Jumps /\ run' = Follow(q, TRUE)
  BY DEF PlainJump, Step, Becomes
<1>2. /\ Sound(Segment) /\ run.pc \in DOMAIN Segment /\ Current = Segment[run.pc] /\ Typed(run)
  BY <1>1, NowRight
<1>3. k2 \in DOMAIN Segment /\ Reaches(Segment, run.pc, k2)
  <2>1. /\ Current.to \in Openings(Segment) /\ Current.to < run.pc /\ Within(Segment, Current.to, run.pc)
        /\ Current.to \in DOMAIN Segment /\ Segment[Current.to].op \in AllKinds
    BY <1>1, <1>2 DEF Sound, Tidy, Neat, JumpsWithin, Openings
  <2>2. run.pc <= CloseIn(Segment, Current.to) /\ CloseIn(Segment, Current.to) \in DOMAIN Segment
    BY <1>2, <2>1, CloseIs DEF Within
  <2>3. Covers(Segment, Current.to, run.pc)
    BY <2>1, <2>2 DEF Covers, Within
  <2>4. CloseIn(Segment, Current.to) + 1 \in DOMAIN Segment
    BY <1>1, <2>1, BehindClose DEF Right, OnCourse
  <2> QED  BY <2>1, <2>3, <2>4 DEF Reaches
<1> HIDE DEF k2
<1>4. /\ Typed(q) /\ q.pc = k2 /\ q.at = "segment" /\ q.state = run.state /\ q.regs = run.regs /\ q.env = run.env
      /\ q.pend = run.pend /\ q.frame = run.frame
  <2>1. Typed(q)
    BY <1>1, <1>2, StepTypes
  <2> QED  BY <1>1, <1>2, <2>1 DEF Typed, IsRun
<1> HIDE DEF q
<1>5. OnRight(q)
  BY <1>1, <1>3, <1>4, QuietRight DEF AllKinds, Loops, Jumps
<1> QED  BY <1>1, <1>4, <1>5, FollowRight DEF Jumps

(* At a transfer every value of the segment is in the frame or on its way.   *)
LEMMA CutHolds ==
    ASSUME Right, run.at = "segment", Current.op \in Transfers, NEW n \in fields, n \notin Touched(run.pc)
    PROVE  Holds(run, run.frame[n], n)
<1>1. /\ Sound(Segment) /\ run.pc \in DOMAIN Segment /\ Current = Segment[run.pc] /\ InsideRight(run, Segment)
  BY NowRight
<1>2. run.pc = Len(Segment) /\ DOMAIN Segment = 1 .. Len(Segment)
  BY <1>1 DEF Sound, Tidy, Neat, EndsLast, Terminal
<1>3. ~MaySet(Segment, n, run.pc)
  <2> SUFFICES ASSUME NEW j \in DOMAIN Segment, Assigns(Segment[j], n) PROVE FALSE
    BY DEF MaySet
  <2>1. j \in 1 .. run.pc
    BY <1>2
  <2> QED  BY <2>1 DEF Touched, Assigns
<1> QED  BY <1>1, <1>3 DEF InsideRight, FrameRight

LEMMA DispatchIs ==
    ASSUME NEW r, Typed(r), r.ends = 0, NEW id
    PROVE  LET d == Dispatch(r, id) IN
           /\ Typed(d) /\ d.state = id /\ d.pc = 1 /\ d.at = "segment" /\ d.frame = r.frame
           /\ d.env = r.env /\ d.pend = r.pend /\ d.call = r.call /\ d.rounds = r.rounds
           /\ \A n \in Names : d.regs[n] = IF n \in fields THEN r.frame[n]
                                           ELSE IF id = 1 /\ n \in Locals THEN 0 ELSE None
<1> DEFINE g == [n \in Names |-> IF n \in fields THEN r.frame[n]
                                 ELSE IF id = 1 /\ n \in Locals THEN 0 ELSE None]
<1>1. Typed(Dispatch(r, id))
  BY DispatchTyped
<1>2. \A n \in Names : g[n] = IF n \in fields THEN r.frame[n]
                              ELSE IF id = 1 /\ n \in Locals THEN 0 ELSE None
  OBVIOUS
<1> HIDE DEF g
<1>3. Dispatch(r, id) = [r EXCEPT !.state = id, !.pc = 1, !.at = "segment", !.regs = g]
  BY DEF Dispatch, g
<1> DEFINE d == Dispatch(r, id)
<1>4. /\ d.state = id /\ d.pc = 1 /\ d.at = "segment" /\ d.frame = r.frame /\ d.regs = g
      /\ d.env = r.env /\ d.pend = r.pend /\ d.call = r.call /\ d.rounds = r.rounds
  BY <1>3 DEF Typed, IsRun
<1> QED  BY <1>1, <1>2, <1>4

LEMMA SoundThere ==
    ASSUME Right, NEW id \in 1 .. Len(segs) PROVE Sound(segs[id]) /\ 1 \in DOMAIN segs[id]
<1>1. Sealed(segs)
  BY DEF Right, OnCourse
<1>2. id \in DOMAIN segs /\ 1 \in DOMAIN segs[id]
  BY <1>1, TransferLands
<1>3. segs[id] \in Seq(Instr)
  BY <1>1, <1>2 DEF Sealed
<1> QED  BY <1>1, <1>2, <1>3 DEF Sealed, Sound, Right, AllTidy

(* The prologue of a segment loads what the frame holds.                     *)
LEMMA DispatchRight ==
    ASSUME Right, NEW w, Typed(w), w.ends = 0, NEW id \in 1 .. Len(segs), id # 1,
           w.pend # None => Takes(segs, id) /\ w.pend = 0 /\ w.env["rc"] = 0,
           \A n \in fields : Holds(w, w.frame[n], n) \/ (n = "rc" /\ w.pend # None)
    PROVE  OnRight(Dispatch(w, id))
<1> DEFINE d == Dispatch(w, id)
<1>1. /\ Typed(d) /\ d.state = id /\ d.pc = 1 /\ d.at = "segment" /\ d.frame = w.frame
      /\ d.env = w.env /\ d.pend = w.pend
      /\ \A n \in Names : d.regs[n] = IF n \in fields THEN w.frame[n]
                                      ELSE IF id = 1 /\ n \in Locals THEN 0 ELSE None
  BY DispatchIs
<1> HIDE DEF d
<1>2. Sound(segs[id]) /\ 1 \in DOMAIN segs[id]
  BY SoundThere
<1>3. d.pend # None => segs[id][1].op = "take"
  BY <1>1 DEF Takes
<1>4. Pends(d, segs[id])
  BY <1>1, <1>3 DEF Pends
<1>5. \A n \in Names : Holds(d, d.regs[n], n) \/ (n = "rc" /\ segs[id][1].op = "take" /\ d.pend # None)
  BY <1>1, <1>3 DEF Holds
<1>6. \A n \in fields : Holds(d, d.frame[n], n) \/ (n = "rc" /\ segs[id][1].op = "take")
  BY <1>1, <1>3 DEF Holds
<1>7. InsideRight(d, segs[id])
  BY <1>1, <1>2, <1>4, <1>5, <1>6, LandsRight
<1>8. OnRight(d)
  BY <1>1, <1>7 DEF OnRight, RunRight
<1> QED  BY <1>8 DEF d

LEMMA TransferIs ==
    ASSUME Right, run.at = "segment", Current.op \in Transfers
    PROVE  /\ Current.to \in 1 .. Len(segs) /\ Current.to # 1
           /\ Current.op = "branch" => Current.other \in 1 .. Len(segs) /\ Current.other # 1
           /\ Current.op \in Calls => Takes(segs, Current.to)
<1>1. /\ run.state \in DOMAIN segs /\ run.pc \in DOMAIN Segment /\ Segment = segs[run.state]
      /\ Current = Segment[run.pc]
  BY NowRight
<1>2. Leaves(Current, segs)
  BY <1>1 DEF Right, AllLeave
<1>3. Fits(Current, Segment, Len(segs))
  BY AtInstruction DEF Right, OnCourse, Kept
<1> QED  BY <1>2, <1>3 DEF Leaves, Fits

LEMMA WrittenBack ==
    ASSUME Right, run.at = "segment", Current.op \in {"goto", "branch"}
    PROVE  LET w == WriteBack(run, Touched(run.pc)) IN
           /\ Typed(w) /\ w.ends = 0 /\ w.pend = None /\ w.rounds = run.rounds
           /\ \A n \in fields : Holds(w, w.frame[n], n)
<1> DEFINE w == WriteBack(run, Touched(run.pc))
<1>1. Typed(run) /\ run.ends = 0 /\ InsideRight(run, Segment) /\ Current = Segment[run.pc]
  BY NowRight DEF Typed
<1>2. /\ Typed(w) /\ w.env = run.env /\ w.pend = run.pend /\ w.ends = run.ends /\ w.rounds = run.rounds
      /\ \A n \in Names : w.frame[n] = IF n \in Touched(run.pc) \cap fields THEN run.regs[n] ELSE run.frame[n]
  BY <1>1, WriteBackIs, WriteBackTyped
<1> HIDE DEF w
<1>3. w.pend = None
  BY <1>1, <1>2 DEF InsideRight, Pends
<1>4. ASSUME NEW n \in fields PROVE Holds(w, w.frame[n], n)
  <2>1. n \in Names
    BY DEF Right
  <2>2. CASE n \in Touched(run.pc)
    BY <1>2, <2>1, <2>2, RegHolds DEF Holds
  <2>3. CASE n \notin Touched(run.pc)
    BY <1>2, <2>1, <2>3, CutHolds DEF Holds, Transfers
  <2> QED  BY <2>2, <2>3
<1> QED  BY <1>1, <1>2, <1>3, <1>4 DEF w

LEMMA GotoRight ==
    ASSUME Right, Goto PROVE OnRight(run')
<1> DEFINE w == WriteBack(run, Touched(run.pc))
           there == Dispatch(w, Current.to)
<1>1. /\ run.at = "segment" /\ Current.op = "goto"
      /\ run' = IF Current.shown THEN Follow(there, TRUE) ELSE there
  BY DEF Goto, Step, Becomes
<1>2. Typed(w) /\ w.ends = 0 /\ w.pend = None /\ \A n \in fields : Holds(w, w.frame[n], n)
  BY <1>1, WrittenBack
<1>3. Current.to \in 1 .. Len(segs) /\ Current.to # 1
  BY <1>1, TransferIs DEF Transfers
<1> HIDE DEF w
<1>4. OnRight(there) /\ Typed(there)
  BY <1>2, <1>3, DispatchRight, DispatchIs
<1> HIDE DEF there
<1> QED  BY <1>1, <1>4, FollowRight

LEMMA BranchRight ==
    ASSUME Right, Branch PROVE OnRight(run')
<1> DEFINE w == WriteBack(run, Touched(run.pc))
           d(taken) == Dispatch(w, IF taken THEN Current.to ELSE Current.other)
           e(taken) == [d(taken) EXCEPT !.rounds = IF Entering(taken) THEN @ - 1 ELSE @]
<1>1. PICK taken \in BOOLEAN :
        /\ run.at = "segment" /\ Current.op = "branch"
        /\ Entering(taken) => run.rounds > 0
        /\ run' = Follow(e(taken), taken)
  BY DEF Branch, Step, Becomes
<1>2. /\ Typed(w) /\ w.ends = 0 /\ w.pend = None /\ w.rounds = run.rounds
      /\ \A n \in fields : Holds(w, w.frame[n], n)
  BY <1>1, WrittenBack
<1> DEFINE id == IF taken THEN Current.to ELSE Current.other
<1>3. id \in 1 .. Len(segs) /\ id # 1
  BY <1>1, TransferIs DEF Transfers
<1> HIDE DEF w, id
<1>4. OnRight(Dispatch(w, id)) /\ Typed(Dispatch(w, id)) /\ Dispatch(w, id).rounds = run.rounds
  BY <1>2, <1>3, DispatchRight, DispatchIs
<1>5. d(taken) = Dispatch(w, id)
  BY DEF id
<1> HIDE DEF d
<1>6. Typed(e(taken))
  BY <1>1, <1>4, <1>5, RoundTypes
<1>7. SameRun(e(taken), d(taken))
  BY <1>4, <1>5, <1>6 DEF SameRun, Typed, IsRun
<1> HIDE DEF e
<1>8. OnRight(e(taken))
  BY <1>4, <1>5, <1>7, SameRight DEF OnRight, SameRun
<1> QED  BY <1>1, <1>6, <1>8, FollowRight

(* The first step, and the calls.                                            *)
LEMMA NotStarted ==
    ASSUME Right, run.src = 0 PROVE Unstarted(run)
<1>1. /\ Final(code, segs) /\ Sealed(segs) /\ InCode(run, segs) /\ OnTrack(run)
      /\ code \in Seq(Stmt) /\ Nests(code, {})
  BY DEF Right, OnCourse, Kept, Final
<1>2. \A j \in 1 .. Len(code) + 1 : Settle(j) # 0
  <2> SUFFICES ASSUME NEW j \in 1 .. Len(code) + 1 PROVE Settle(j) # 0
    OBVIOUS
  <2>1. Settle(j) \in 1 .. Len(code) + 1
    BY <1>1, SettleTyped
  <2> QED  BY <2>1
<1>3. CASE run.at = "segment"
  <2>1. run.src = Settle(Current.src) /\ Current.src \in 1 .. Len(code) + 1
    BY <1>3, PlaceNow DEF Right
  <2> QED  BY <1>2, <2>1
<1>4. CASE run.at = "waiting"
  <2> SUFFICES ASSUME run.state \in DOMAIN segs, run.src = Settle(segs[run.state][1].src) PROVE FALSE
    BY <1>1, <1>4 DEF InCode, OnTrack
  <2>1. run.state \in 1 .. Len(segs)
    BY <1>1 DEF Sealed
  <2>2. 1 \in DOMAIN segs[run.state] /\ segs[run.state] \in Seq(Instr)
    <3>1. 1 \in DOMAIN segs[run.state]
      BY <1>1, <2>1, TransferLands
    <3>2. segs \in Seq(Seq(Instr))
      BY <1>1 DEF Sealed
    <3> QED  BY <2>1, <3>1, <3>2
  <2>3. 1 \in 1 .. Len(segs[run.state])
    BY <2>2
  <2>4. segs[run.state][1].src \in 1 .. Len(code) + 1
    BY <1>1, <2>1, <2>3, PlaceIs
  <2> QED  BY <1>2, <2>4
<1>5. CASE run.at = "stopped"
  BY <1>1, <1>5 DEF InCode
<1> QED  BY <1>1, <1>3, <1>4, <1>5 DEF InCode

LEMMA StartRuns ==
    ASSUME Right, Start PROVE OnRight(run')
<1> DEFINE d == Dispatch(run, 1)
           q == [d EXCEPT !.src = Settle(1)]
<1>1. run' = q /\ run.src = 0
  BY DEF Start, Becomes
<1>2. run.pend = None /\ (\A n \in Names : run.frame[n] = 0 /\ run.env[n] = 0) /\ Typed(run) /\ run.at = "waiting"
  BY <1>1, NotStarted DEF Right, StartRight, Running, Unstarted
<1>3. run.ends = 0
  BY <1>2 DEF Typed
<1>4. /\ Typed(d) /\ d.state = 1 /\ d.pc = 1 /\ d.at = "segment" /\ d.frame = run.frame
      /\ d.env = run.env /\ d.pend = run.pend
      /\ \A n \in Names : d.regs[n] = IF n \in fields THEN run.frame[n]
                                      ELSE IF 1 = 1 /\ n \in Locals THEN 0 ELSE None
  BY <1>2, <1>3, DispatchIs
<1> HIDE DEF d
<1>5. /\ q.state = 1 /\ q.pc = 1 /\ q.at = "segment" /\ q.frame = run.frame /\ q.env = run.env
      /\ q.pend = run.pend /\ q.regs = d.regs
  BY <1>4 DEF Typed, IsRun
<1> HIDE DEF q
<1>6. Sound(segs[1]) /\ 1 \in DOMAIN segs[1]
  <2>1. 1 \in 1 .. Len(segs)
    BY DEF Right, OnCourse, Sealed
  <2> QED  BY <2>1, SoundThere
<1>7. \A n \in Names : Holds(q, q.regs[n], n)
  BY <1>2, <1>4, <1>5 DEF Holds
<1>8. \A n \in fields : Holds(q, q.frame[n], n)
  BY <1>2, <1>5 DEF Holds, Right
<1>9. Pends(q, segs[1])
  BY <1>2, <1>5 DEF Pends
<1>10. InsideRight(q, segs[1])
  BY <1>5, <1>6, <1>7, <1>8, <1>9, LandsRight
<1> QED  BY <1>1, <1>5, <1>10 DEF OnRight, RunRight

LEMMA DeliverIs ==
    ASSUME NEW r, Typed(r), NEW call, NEW bit \in Bit
    PROVE  LET d == Deliver(r, call, bit) IN
           /\ Typed(d) /\ d.state = r.state /\ d.pc = r.pc /\ d.at = r.at /\ d.regs = r.regs
           /\ d.pend = r.pend /\ d.call = r.call /\ d.ends = r.ends
           /\ \A n \in Names : d.env[n] = IF n = "rc" THEN 0
                                          ELSE IF n = "closed" /\ call = "recv" THEN bit ELSE r.env[n]
           /\ \A n \in Names : d.frame[n] = IF n = "closed" /\ call = "recv" THEN bit ELSE r.frame[n]
<1> DEFINE d == Deliver(r, call, bit)
<1>1. Typed(d)
  BY DeliverTyped
<1>2. r.env \in [Names -> Value] /\ r.frame \in [Names -> Value]
  BY DEF Typed
<1> DEFINE e == [r.env EXCEPT !["rc"] = 0]
           e2 == IF call = "recv" THEN [e EXCEPT !["closed"] = bit] ELSE e
           f2 == IF call = "recv" THEN [r.frame EXCEPT !["closed"] = bit] ELSE r.frame
<1>3. \A n \in Names : e2[n] = IF n = "rc" THEN 0 ELSE IF n = "closed" /\ call = "recv" THEN bit ELSE r.env[n]
  BY <1>2
<1>4. \A n \in Names : f2[n] = IF n = "closed" /\ call = "recv" THEN bit ELSE r.frame[n]
  BY <1>2
<1>5. "rc" \in Names /\ "closed" \in Names
  BY DEF Names
<1>6. d.env = e2 /\ d.frame = f2
  <2>1. IsRun(r) /\ DOMAIN r.env = Names
    BY <1>2 DEF Typed
  <2> QED  BY <1>2, <2>1, <1>5 DEF Deliver, IsRun
<1>7. /\ d.state = r.state /\ d.pc = r.pc /\ d.at = r.at /\ d.regs = r.regs
      /\ d.pend = r.pend /\ d.call = r.call /\ d.ends = r.ends
  BY DEF Deliver, Typed, IsRun
<1> HIDE DEF d, e2, f2
<1>8. \A n \in Names : d.env[n] = IF n = "rc" THEN 0
                                  ELSE IF n = "closed" /\ call = "recv" THEN bit ELSE r.env[n]
  BY <1>3, <1>6
<1>9. \A n \in Names : d.frame[n] = IF n = "closed" /\ call = "recv" THEN bit ELSE r.frame[n]
  BY <1>4, <1>6
<1> QED  BY <1>1, <1>7, <1>8, <1>9 DEF d

(* A call and what is written back behind it.                                *)
CallBack(d, rc) == WriteBack([d EXCEPT !.regs["rc"] = rc], Touched(d.pc))

Backed(b, d, rc, to) ==
    /\ Typed(b) /\ b.env = d.env /\ b.pend = d.pend /\ b.at = "segment" /\ b.call = d.call /\ b.ends = 0
    /\ \A n \in Names : b.frame[n] = IF n \in Touched(d.pc) \cap fields
                                     THEN IF n = "rc" THEN rc ELSE d.regs[n] ELSE d.frame[n]
    /\ After(d, rc, to) = IF rc = Blocked THEN [b EXCEPT !.state = to, !.pc = 1, !.at = "waiting"]
                          ELSE Dispatch(b, to)

LEMMA BackIs ==
    ASSUME NEW d, Typed(d), d.at = "segment", NEW rc \in Value, NEW to
    PROVE  Backed(CallBack(d, rc), d, rc, to)
<1> DEFINE q == [d EXCEPT !.regs["rc"] = rc]
<1>1. /\ Typed(q) /\ q.at = "segment" /\ q.env = d.env /\ q.pend = d.pend /\ q.call = d.call
      /\ q.frame = d.frame /\ q.pc = d.pc
  <2>1. [d.regs EXCEPT !["rc"] = rc] \in [Names -> Value]
    BY DEF Typed
  <2> QED  BY <2>1 DEF Typed, IsRun
<1>2. \A n \in Names : q.regs[n] = IF n = "rc" THEN rc ELSE d.regs[n]
  <2>1. q.regs = [d.regs EXCEPT !["rc"] = rc]
    BY DEF Typed, IsRun
  <2>2. \A n \in Names : [d.regs EXCEPT !["rc"] = rc][n] = IF n = "rc" THEN rc ELSE d.regs[n]
    BY DEF Typed
  <2> QED  BY <2>1, <2>2
<1>3. CallBack(d, rc) = WriteBack(q, Touched(d.pc))
  BY DEF CallBack
<1>4. After(d, rc, to) = IF rc = Blocked
                         THEN [WriteBack(q, Touched(d.pc)) EXCEPT !.state = to, !.pc = 1, !.at = "waiting"]
                         ELSE Dispatch(WriteBack(q, Touched(d.pc)), to)
  BY DEF After, Verdict
<1> HIDE DEF q
<1> DEFINE b == WriteBack(q, Touched(d.pc))
<1>5. /\ Typed(b) /\ b.env = q.env /\ b.pend = q.pend /\ b.at = q.at /\ b.call = q.call
      /\ \A n \in Names : b.frame[n] = IF n \in Touched(d.pc) \cap fields THEN q.regs[n] ELSE q.frame[n]
  BY <1>1, WriteBackIs
<1> HIDE DEF b
<1>6. b.ends = 0
  BY <1>1, <1>5 DEF Typed
<1>7. \A n \in Names : b.frame[n] = IF n \in Touched(d.pc) \cap fields
                                    THEN IF n = "rc" THEN rc ELSE d.regs[n] ELSE d.frame[n]
  BY <1>1, <1>2, <1>5
<1>8. b = CallBack(d, rc)
  BY <1>3 DEF b
<1>9. After(d, rc, to) = IF rc = Blocked THEN [b EXCEPT !.state = to, !.pc = 1, !.at = "waiting"]
                         ELSE Dispatch(b, to)
  BY <1>4 DEF b
<1>10. Backed(b, d, rc, to)
  BY <1>1, <1>5, <1>6, <1>7, <1>9 DEF Backed
<1> QED  BY <1>8, <1>10

LEMMA CallIs ==
    ASSUME Right, run.at = "segment", Current.op \in Calls
    PROVE  /\ "rc" \in Touched(run.pc) /\ run.pend = None /\ Current.to \in 1 .. Len(segs) /\ Current.to # 1
           /\ Takes(segs, Current.to) /\ Typed(run) /\ run.pc \in DOMAIN Segment
           /\ \A n \in Names : Holds(run, run.regs[n], n) \/ (n = "closed" /\ Current.op = "recv")
           /\ Current.op = "recv" => run.regs["closed"] = 0
<1>1. /\ Sound(Segment) /\ run.pc \in DOMAIN Segment /\ run.pc \in Nat \ {0} /\ Current = Segment[run.pc]
      /\ InsideRight(run, Segment) /\ Typed(run)
  BY NowRight
<1>2. Current.name = "rc"
  BY <1>1 DEF Sound, Tidy, Binds
<1>3. run.pc \in 1 .. run.pc
  BY <1>1
<1>4. "rc" \in Touched(run.pc)
  BY <1>1, <1>2, <1>3 DEF Touched
<1>5. run.pend = None
  BY <1>1 DEF InsideRight, Pends, Calls
<1>6. \A n \in Names : Holds(run, run.regs[n], n) \/ (n = "closed" /\ Current.op = "recv")
  BY <1>1 DEF InsideRight, RegsRight, Calls
<1>7. Current.op = "recv" => run.regs["closed"] = 0
  BY <1>1 DEF InsideRight, Bound
<1> QED  BY <1>1, <1>4, <1>5, <1>6, <1>7, TransferIs DEF Transfers

LEMMA CompletesRight ==
    ASSUME Right, Completes PROVE OnRight(run')
<1>1. PICK bit \in Bit :
        /\ run.at = "segment" /\ Current.op \in Calls /\ (bit = 1 => "sync-out" \in Shapes)
        /\ run' = Follow(After(Deliver(run, Current.op, bit), 0, Current.to), TRUE)
  BY DEF Completes, Step, Becomes
<1>2. bit = 0
  BY <1>1 DEF Bit, Right
<1> DEFINE d == Deliver(run, Current.op, bit)
           b == CallBack(d, 0)
<1>3. /\ "rc" \in Touched(run.pc) /\ run.pend = None /\ Current.to \in 1 .. Len(segs) /\ Current.to # 1
      /\ Typed(run)
      /\ \A n \in Names : Holds(run, run.regs[n], n) \/ (n = "closed" /\ Current.op = "recv")
      /\ Current.op = "recv" => run.regs["closed"] = 0
  BY <1>1, CallIs
<1>4. /\ Typed(d) /\ d.pc = run.pc /\ d.at = run.at /\ d.regs = run.regs /\ d.pend = run.pend
      /\ \A n \in Names : d.env[n] = IF n = "rc" THEN 0
                                     ELSE IF n = "closed" /\ Current.op = "recv" THEN 0 ELSE run.env[n]
      /\ \A n \in Names : d.frame[n] = IF n = "closed" /\ Current.op = "recv" THEN 0 ELSE run.frame[n]
  BY <1>2, <1>3, DeliverIs
<1> HIDE DEF d
<1>5. 0 \in Value /\ 0 # Blocked
  BY DEF Value, Bit, Blocked
<1>6. /\ Typed(b) /\ b.env = d.env /\ b.pend = d.pend /\ b.ends = 0
      /\ \A n \in Names : b.frame[n] = IF n \in Touched(run.pc) \cap fields
                                       THEN IF n = "rc" THEN 0 ELSE run.regs[n] ELSE d.frame[n]
      /\ After(d, 0, Current.to) = Dispatch(b, Current.to)
  <2>1. d.at = "segment"
    BY <1>1, <1>4
  <2>2. Backed(b, d, 0, Current.to)
    BY <1>4, <1>5, <2>1, BackIs
  <2> HIDE DEF b
  <2> QED  BY <1>4, <1>5, <2>2 DEF Backed
<1> HIDE DEF b
<1>7. ASSUME NEW n \in fields PROVE Holds(b, b.frame[n], n)
  <2>1. n \in Names
    BY DEF Right
  <2>2. CASE n = "rc"
    BY <1>3, <1>4, <1>6, <2>1, <2>2 DEF Holds
  <2>3. CASE n = "closed" /\ Current.op = "recv"
    BY <1>3, <1>4, <1>6, <2>1, <2>3 DEF Holds
  <2>4. CASE n # "rc" /\ ~(n = "closed" /\ Current.op = "recv")
    <3>1. b.env[n] = run.env[n]
      BY <1>4, <1>6, <2>1, <2>4
    <3>2. b.frame[n] = IF n \in Touched(run.pc) THEN run.regs[n] ELSE run.frame[n]
      BY <1>4, <1>6, <2>1, <2>4
    <3>3. Holds(run, run.regs[n], n)
      BY <1>3, <2>1, <2>4
    <3>4. n \notin Touched(run.pc) => Holds(run, run.frame[n], n)
      BY <1>1, CutHolds DEF Transfers
    <3> QED  BY <3>1, <3>2, <3>3, <3>4 DEF Holds
  <2> QED  BY <2>2, <2>3, <2>4
<1>8. b.pend = None
  BY <1>3, <1>4, <1>6
<1>9. OnRight(Dispatch(b, Current.to)) /\ Typed(Dispatch(b, Current.to))
  BY <1>3, <1>6, <1>7, <1>8, DispatchRight, DispatchIs
<1>10. run' = Follow(Dispatch(b, Current.to), TRUE)
  BY <1>1, <1>6 DEF d
<1> QED  BY <1>1, <1>9, <1>10, FollowRight DEF Calls

LEMMA BlocksRight ==
    ASSUME Right, Blocks PROVE RunRight(run') /\ ~Unstarted(run')
<1> DEFINE a == After(run, Blocked, Current.to)
           q == [a EXCEPT !.call = Current.op]
           b == CallBack(run, Blocked)
<1>1. run.at = "segment" /\ Current.op \in Calls /\ run' = Follow(q, TRUE)
  BY DEF Blocks, Step, Becomes
<1>2. /\ "rc" \in Touched(run.pc) /\ run.pend = None /\ Current.to \in 1 .. Len(segs) /\ Current.to # 1
      /\ Takes(segs, Current.to) /\ Typed(run)
      /\ \A n \in Names : Holds(run, run.regs[n], n) \/ (n = "closed" /\ Current.op = "recv")
  BY <1>1, CallIs
<1>3. Blocked \in Value
  BY DEF Value
<1>4. /\ Typed(b) /\ b.env = run.env /\ b.pend = run.pend /\ b.ends = 0
      /\ \A n \in Names : b.frame[n] = IF n \in Touched(run.pc) \cap fields
                                       THEN IF n = "rc" THEN Blocked ELSE run.regs[n] ELSE run.frame[n]
      /\ a = [b EXCEPT !.state = Current.to, !.pc = 1, !.at = "waiting"]
  <2>1. Backed(b, run, Blocked, Current.to)
    BY <1>1, <1>2, <1>3, BackIs
  <2> HIDE DEF b
  <2> QED  BY <2>1 DEF Backed
<1>5. Typed(a)
  <2>1. Current.to \in Nat
    BY <1>2
  <2> QED  BY <1>1, <1>2, <1>3, <2>1, AfterTyped
<1> HIDE DEF b
<1>6. /\ a.state = Current.to /\ a.at = "waiting" /\ a.frame = b.frame /\ a.env = run.env /\ a.pend = run.pend
  BY <1>4 DEF Typed, IsRun
<1> HIDE DEF a
<1>7. /\ Typed(q) /\ q.state = Current.to /\ q.at = "waiting" /\ q.frame = b.frame /\ q.env = run.env
      /\ q.pend = run.pend /\ q.call = Current.op
  BY <1>1, <1>5, <1>6 DEF Typed, IsRun
<1> HIDE DEF q
<1>8. ASSUME NEW n \in fields, n # "rc", ~(n = "closed" /\ q.call = "recv") PROVE Holds(q, q.frame[n], n)
  <2>1. n \in Names
    BY DEF Right
  <2>2. q.frame[n] = IF n \in Touched(run.pc) THEN run.regs[n] ELSE run.frame[n]
    BY <1>4, <1>7, <1>8, <2>1
  <2>3. Holds(run, run.regs[n], n)
    BY <1>2, <1>7, <1>8, <2>1
  <2>4. n \notin Touched(run.pc) => Holds(run, run.frame[n], n)
    BY <1>1, CutHolds DEF Transfers
  <2> QED  BY <1>7, <2>2, <2>3, <2>4 DEF Holds
<1>9. WaitRight(q)
  BY <1>2, <1>7, <1>8 DEF WaitRight
<1>10. RunRight(q)
  BY <1>7, <1>9 DEF RunRight
<1>11. SameRun(Follow(q, TRUE), q)
  BY <1>1, <1>7, FollowSame DEF Calls
<1>12. RunRight(Follow(q, TRUE))
  BY <1>10, <1>11, SameRight
<1>13. Follow(q, TRUE).call # ""
  BY <1>1, <1>7, <1>11 DEF SameRun, Calls
<1> QED  BY <1>1, <1>12, <1>13 DEF Unstarted

LEMMA WakeRight ==
    ASSUME Right, Wake PROVE OnRight(run')
<1>1. PICK bit \in Bit :
        /\ run.at = "waiting" /\ run.call # ""
        /\ run' = Dispatch([Deliver(run, run.call, bit) EXCEPT !.pend = 0, !.call = ""], run.state)
  BY DEF Wake, Becomes
<1> DEFINE d == Deliver(run, run.call, bit)
           w == [d EXCEPT !.pend = 0, !.call = ""]
<1>2. WaitRight(run) /\ Typed(run) /\ fields \subseteq Names
  BY <1>1 DEF Right, RunRight, Running
<1>3. /\ Typed(d) /\ d.at = run.at /\ d.ends = run.ends
      /\ \A n \in Names : d.env[n] = IF n = "rc" THEN 0
                                     ELSE IF n = "closed" /\ run.call = "recv" THEN bit ELSE run.env[n]
      /\ \A n \in Names : d.frame[n] = IF n = "closed" /\ run.call = "recv" THEN bit ELSE run.frame[n]
  BY <1>2, DeliverIs
<1> HIDE DEF d
<1>4. Typed(w) /\ w.env = d.env /\ w.frame = d.frame /\ w.pend = 0 /\ w.ends = 0
  BY <1>1, <1>3 DEF Typed, IsRun
<1> HIDE DEF w
<1>5. \A n \in fields : Holds(w, w.frame[n], n) \/ n = "rc"
  BY <1>2, <1>3, <1>4 DEF WaitRight, Holds
<1>6. w.env["rc"] = 0
  BY <1>3, <1>4 DEF Names
<1>7. 0 # None
  BY DEF None
<1>8. run.state \in 1 .. Len(segs) /\ run.state # 1 /\ Takes(segs, run.state)
  BY <1>2 DEF WaitRight, Takes, Right, OnCourse, Sealed
<1>9. OnRight(Dispatch(w, run.state))
  BY <1>4, <1>5, <1>6, <1>7, <1>8, DispatchRight
<1> QED  BY <1>1, <1>9 DEF w, d

LEMMA RunReturnRight ==
    ASSUME Right, RunReturn PROVE OnRight(run')
<1> DEFINE ended == [run EXCEPT !.ends = IF Current.op = "finish" THEN @ + 1 ELSE @,
                                !.src = Len(code) + 1]
<1>1. PICK verdict \in Bit :
        /\ run.at = "segment" /\ Current.op \in {"finish", "return"}
        /\ Current.op = "finish" => verdict = 1
        /\ run' = IF verdict = 1 THEN [ended EXCEPT !.at = "stopped"] ELSE Dispatch(ended, run.state)
  BY DEF RunReturn, Step, Becomes
<1>2. Current.op = "finish"
  <2>1. Fits(Current, Segment, Len(segs))
    BY <1>1, AtInstruction DEF Right, OnCourse, Kept
  <2> QED  BY <1>1, <2>1 DEF Fits, Right
<1>3. run'.at = "stopped"
  BY <1>1, <1>2 DEF Right, Running, Typed, IsRun
<1> QED  BY <1>3 DEF OnRight, RunRight

(* What any step of the machine keeps.                                       *)
LEMMA ExecuteRight ==
    ASSUME Right, Execute, phase' # "refused" PROVE RunRight(run') /\ ~Unstarted(run')
<1>1. OnRight(run') => RunRight(run') /\ ~Unstarted(run')
  BY DEF OnRight, Unstarted
<1> QED  BY <1>1, StartRuns, ReadsRight, RunNewRight, RunSpawnRight, RunTakeRight, CompletesRight, BlocksRight,
            WakeRight, GotoRight, BranchRight, PlainOpenRight, PlainCloseRight, PlainJumpRight, RunReturnRight
         DEF Execute

(* What is read where all this is kept.                                      *)
LEMMA ReadRight ==
    ASSUME Right, phase = "run" PROVE RightValues
<1> SUFFICES ASSUME run.at = "segment", Current.op \in {"use", "move"}
             PROVE  \/ Read(Current.name) \in {None, run.env[Current.name]}
                    \/ run.env[Current.name] = None
  BY DEF RightValues, InSegment
<1> DEFINE name == Current.name
<1>1. /\ Sound(Segment) /\ run.pc \in DOMAIN Segment /\ Current = Segment[run.pc] /\ run.pc \in Nat
      /\ InsideRight(run, Segment) /\ Typed(run)
  BY NowRight
<1>2. name \in Names => Holds(run, run.regs[name], name)
  BY RegHolds
<1>3. CASE Current.op = "move" /\ name \in fields
  <2>1. name \in Sites(run.pc)
    <3>1. run.pc \in run.pc .. run.pc
      BY <1>1
    <3>2. Segment[run.pc].op = "move" /\ Segment[run.pc].op \notin AllKinds
      BY <1>1, <1>3 DEF AllKinds, Loops
    <3> QED  BY <1>1, <3>1, <3>2 DEF Sites
  <2>2. Holds(run, Flushed(run).frame[name], name)
    BY <1>3, <2>1, FlushHolds
  <2> QED  BY <1>3, <2>2 DEF Read, Holds
<1>4. CASE ~(Current.op = "move" /\ name \in fields)
  <2>1. Read(name) = run.regs[name]
    BY <1>4 DEF Read
  <2>2. name \in Names
    BY <1>1 DEF Sound, Tidy, Binds, NameKnown
  <2> QED  BY <1>2, <2>1, <2>2 DEF Holds
<1> QED  BY <1>3, <1>4

-----------------------------------------------------------------------------
(* The invariant behind RightValues: segments are tidy and lead where they   *)
(* may, a run in them holds the source's values, and before the first step   *)
(* frame and source hold 0.                                                  *)
ValInv ==
    /\ TypeInv /\ OrderInv
    /\ phase = "body" => Vals(bodies, segs, cur)
    /\ phase = "run" => AllTidy(segs) /\ AllLeave(segs) /\ RunRight(run)
    /\ Unstarted(run) => StartRight(run)

(* What a run holds is about the segments and the fields of the frame.       *)
LEMMA RightPrimed ==
    ASSUME segs' = segs, fields' = fields, RunRight(run') PROVE RunRight(run)'
  BY DEF RunRight, InsideRight, WaitRight, FrameRight, MovesRight

LEMMA ValStarts == ASSUME Init PROVE ValInv
<1>1. TypeInv /\ OrderInv
  BY TypesStart, OrderStarts
<1>2. phase = "body" /\ segs = <<<<>>>> /\ cur = 1
  BY DEF Init
<1>3. PICK b : bodies = <<b>> /\ b.split
  <2> DEFINE f == [kind |-> "fn", split |-> TRUE, at |-> 0, open |-> 0, head |-> 0,
                   alt |-> 0, next |-> 0, exited |-> FALSE, binds |-> FALSE]
  <2>1. f.split
    OBVIOUS
  <2>2. bodies = <<f>>
    BY DEF Init
  <2> HIDE DEF f
  <2> QED  BY <2>1, <2>2
<1>4. DOMAIN bodies = {1} /\ bodies[1] = b
  BY <1>3
<1>5. Stacks(bodies) /\ PlainOpens(bodies) = {}
  BY <1>3, <1>4 DEF Stacks, PlainOpens
<1>6. DOMAIN segs = {1} /\ segs[1] = <<>>
  BY <1>2
<1>7. Neats(segs, cur, {})
  BY <1>6, NeatEmpty DEF Neats
<1>8. AllLeave(segs)
  BY <1>6 DEF AllLeave
<1>9. Vals(bodies, segs, cur)
  BY <1>5, <1>7, <1>8 DEF Vals
<1>10. StartRight(run)
  <2>1. run.pend = None /\ run.frame = [n \in Names |-> 0] /\ run.env = [n \in Names |-> 0]
    BY DEF Init
  <2> QED  BY <2>1 DEF StartRight
<1> QED  BY <1>1, <1>2, <1>9, <1>10 DEF ValInv

LEMMA ValSteps ==
    ASSUME Shapes = {}, ValInv, [Next]_vars PROVE ValInv'
<1>1. /\ TypeInv /\ OrderInv /\ IInv /\ TypeInv' /\ OrderInv' /\ IInv'
      /\ "plain-return" \notin Shapes
  <2>1. "plain-return" \notin Shapes
    OBVIOUS
  <2>2. TypeInv /\ OrderInv
    BY DEF ValInv
  <2>3. TypeInv' /\ OrderInv'
    BY <2>1, <2>2, TypesStep, OrderSteps
  <2> QED  BY <2>1, <2>2, <2>3 DEF TypeInv
<1>2. CASE Split
  <2>1. phase = "body"
    BY <1>2 DEF Split, New, Use, Move, Spawn, Suspend, Return, BreakOrContinue, OpenPlain,
                OpenSplit, Else, ClosePlain, CloseSplit, Finish, Writing
  <2>2. Valued /\ Unstarted(run) /\ StartRight(run)
    BY <1>1, <2>1 DEF ValInv, Valued, Fresh, Ready, OrderInv, IInv
  <2>3. run' = run
    BY <1>2, <2>1 DEF Split, New, Use, Move, Spawn, Suspend, Return, BreakOrContinue, OpenPlain,
                OpenSplit, Else, ClosePlain, CloseSplit, Finish, Writing, Write, Open
  <2>4. StartRight(run)'
    BY <2>2, <2>3 DEF StartRight
  <2>5. CASE phase' = "refused"
    BY <1>1, <2>4, <2>5 DEF ValInv
  <2>6. CASE phase' = phase /\ StillValued
    BY <1>1, <2>1, <2>4, <2>6 DEF ValInv, StillValued
  <2>7. CASE phase' = "run" /\ AllTidy(segs') /\ AllLeave(segs')
    <3>1. RunRight(run)'
      BY <2>2, <2>3 DEF RunRight, Unstarted
    <3> QED  BY <1>1, <2>4, <2>7, <3>1 DEF ValInv
  <2> QED  BY <1>2, <2>2, <2>5, <2>6, <2>7, SplitVals
<1>3. CASE Execute
  <2>1. phase = "run"
    BY <1>3 DEF Execute, Start, Reads, RunNew, RunSpawn, RunTake, Completes, Blocks, Wake,
                Goto, Branch, PlainOpen, PlainClose, PlainJump, RunReturn, Step
  <2>2. Running /\ OnCourse
    BY <1>1, <2>1 DEF IInv, TypeInv, OrderInv, Running, OnCourse, Kept
  <2>3. Right
    BY <1>1, <2>1, <2>2 DEF ValInv, TypeInv, Right
  <2>4. phase' \in {"run", "refused"} /\ UNCHANGED source /\ (phase' = "refused" => run' = run)
    BY <1>3, <2>1 DEF Execute, Start, Reads, RunNew, RunSpawn, RunTake, Completes, Blocks, Wake,
                Goto, Branch, PlainOpen, PlainClose, PlainJump, RunReturn, Becomes
  <2>5. segs' = segs /\ fields' = fields
    BY <2>4 DEF source
  <2>6. CASE phase' = "refused"
    <3>1. (Unstarted(run) => StartRight(run))'
      BY <2>4, <2>6 DEF ValInv, Unstarted, StartRight
    <3> QED  BY <1>1, <2>6, <3>1 DEF ValInv
  <2>7. CASE phase' = "run"
    <3>1. RunRight(run') /\ ~Unstarted(run')
      BY <1>3, <2>3, <2>7, ExecuteRight
    <3>2. RunRight(run)'
      BY <2>5, <3>1, RightPrimed
    <3>3. AllTidy(segs') /\ AllLeave(segs')
      BY <2>3, <2>5 DEF Right
    <3>4. ~Unstarted(run)'
      BY <3>1 DEF Unstarted
    <3> QED  BY <1>1, <2>7, <3>2, <3>3, <3>4 DEF ValInv
  <2> QED  BY <2>4, <2>6, <2>7
<1>4. CASE UNCHANGED vars
  <2>1. UNCHANGED <<phase, code, bodies, segs, cur, fields, run>>
    BY <1>4 DEF vars, source
  <2>2. Vals(bodies, segs, cur) => Vals(bodies, segs, cur)'
    BY <2>1
  <2>3. RunRight(run) => RunRight(run)'
    BY <2>1, RightPrimed
  <2>4. AllTidy(segs) /\ AllLeave(segs) => AllTidy(segs)' /\ AllLeave(segs)'
    BY <2>1
  <2>5. (Unstarted(run) => StartRight(run))'
    BY <2>1 DEF ValInv, Unstarted, StartRight
  <2> QED  BY <1>1, <2>1, <2>2, <2>3, <2>4, <2>5 DEF ValInv
<1> QED  BY <1>2, <1>3, <1>4 DEF Next

(* A name that is read has the value it has in the source at that statement, *)
(* or reading it is refused, for goroutines of any length and nesting,       *)
(* through any number of suspensions, transfers and deliveries: what the     *)
(* writeBacks at the end of a segment and emitPlain in front of a statement  *)
(* store, what the prologue of rewrite loads and what takePrologue takes are *)
(* enough, and nothing stored overtakes a newer value.  The hypothesis       *)
(* leaves out a return and a move of an assigned handle in a copied body,    *)
(* and a receive that finds its channel closed.                              *)
THEOREM RightlyRead ==
    ASSUME Shapes = {} PROVE Spec => []RightValues
<1>1. Init => ValInv
  BY ValStarts
<1>2. ValInv /\ [Next]_vars => ValInv'
  BY ValSteps
<1>3. ValInv => RightValues
  <2> SUFFICES ASSUME ValInv PROVE RightValues
    OBVIOUS
  <2>1. CASE phase = "run"
    <3>1. Running /\ OnCourse
      BY <2>1 DEF ValInv, IInv, TypeInv, OrderInv, Running, OnCourse, Kept
    <3>2. Right
      BY <2>1, <3>1 DEF ValInv, TypeInv, Right
    <3> QED  BY <2>1, <3>2, ReadRight
  <2>2. CASE phase # "run"
    BY <2>2 DEF RightValues, InSegment
  <2> QED  BY <2>1, <2>2
<1> QED  BY <1>1, <1>2, <1>3, PTL DEF Spec

=============================================================================
