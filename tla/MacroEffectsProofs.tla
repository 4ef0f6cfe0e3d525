------------------------- MODULE MacroEffectsProofs -------------------------
(* Proofs about MacroEffects, for any parameters and any number of macros of *)
(* any length.  Every part on `open` and `macros` is built from others       *)
(* (Built), and each property follows from one that all parts have and       *)
(* every construction keeps: Typed, Sound, Fair, OneSource and Booked.       *)
EXTENDS MacroEffects, TLAPS

-----------------------------------------------------------------------------
(* The constructions. *)

Leaves ==
    {Nothing, TryPart({}), ReturnPart, PanicPart}
        \cup {MovePart(p) : p \in Params} \cup {TryPart({p}) : p \in Params}

(* Part c is one of P or made of parts in P by a statement or a join. *)
Built(P, c) ==
    \/ c \in P
    \/ c \in Leaves
    \/ \E m \in P, pos \in Positions :
            Accepted(m) /\ m.ends # {} /\ c = CallPart(m, pos)
    \/ \E a, b \in P : MayFollow(a, b) /\ Plain(a, b) /\ c = Sequence(a, b)
    \/ \E a, b \in P : Plain(a, b) /\ PlainArms(a, b) /\ c = Branch(a, b)
    \/ \E a \in P :
            /\ MayLoop(a)
            /\ "leaving-arm" \in Shapes \/ ~LeavesTraces(a)
            /\ c = Loop(a)

(* What an Append leaves of a sequence. *)
LEMMA AppendRange ==
    ASSUME NEW S, NEW s \in Seq(S), NEW e, NEW i \in DOMAIN Append(s, e)
    PROVE  (i \in DOMAIN s /\ Append(s, e)[i] = s[i]) \/ Append(s, e)[i] = e
  OBVIOUS

(* A step only adds parts that are built from those there are. *)
LEMMA StepBuilds ==
    ASSUME open \in Seq(Part), macros \in Seq(Part), Next
    PROVE  \A c \in Parts' : Built(Parts, c)
<1> DEFINE Old(s) == \A i \in DOMAIN s : Built(Parts, s[i])
<1>1. Old(open) /\ Old(macros)
  BY DEF Built, Parts
<1>2. SUFFICES Old(open') /\ Old(macros')
  BY DEF Parts
<1>3. ASSUME NEW part, Built(Parts, part), Push(part) PROVE Old(open') /\ Old(macros')
  BY <1>1, <1>3, AppendRange DEF Push
<1>4. ASSUME NEW part, Built(Parts, part), Join(part), Len(open) >= 2
      PROVE  Old(open') /\ Old(macros')
  <2> DEFINE s == SubSeq(open, 1, Len(open) - 2)
  <2>1. s \in Seq(Part) /\ \A i \in DOMAIN s : i \in DOMAIN open /\ s[i] = open[i]
    BY <1>4
  <2>2. Old(Append(s, part))
    BY <2>1, <1>1, <1>4, AppendRange
  <2> QED BY <2>2, <1>1, <1>4 DEF Join
<1>5. \A part \in Leaves : Built(Parts, part)
  BY DEF Built
<1>6. CASE Skip
  BY <1>3, <1>5, <1>6 DEF Skip, Leaves
<1>7. CASE TryValue
  BY <1>3, <1>5, <1>7 DEF TryValue, Leaves
<1>8. CASE Return
  BY <1>3, <1>5, <1>8 DEF Return, Leaves
<1>9. CASE Panic
  BY <1>3, <1>5, <1>9 DEF Panic, Leaves
<1>10. ASSUME NEW p \in Params, Move(p) \/ Try(p) PROVE Old(open') /\ Old(macros')
  BY <1>3, <1>5, <1>10 DEF Move, Try, Leaves
<1>11. ASSUME NEW k \in 1..Len(macros), NEW pos \in Positions, Call(k, pos)
       PROVE  Old(open') /\ Old(macros')
  <2>1. macros[k] \in Parts
    BY DEF Parts
  <2>2. Built(Parts, CallPart(macros[k], pos))
    BY <2>1, <1>11 DEF Built, Call
  <2> QED BY <2>2, <1>3, <1>11 DEF Call
<1> DEFINE a == open[Len(open) - 1]
           b == open[Len(open)]
<1>12. Len(open) >= 2 => a \in Parts
  BY DEF Parts
<1>13. Len(open) >= 1 => b \in Parts
  BY DEF Parts
<1>14. CASE Follow
  <2>1. Len(open) >= 2 /\ MayFollow(a, b) /\ Plain(a, b) /\ Join(Sequence(a, b))
    BY <1>14 DEF Follow
  <2>2. Built(Parts, Sequence(a, b))
    BY <2>1, <1>12, <1>13 DEF Built
  <2> QED BY <2>1, <2>2, <1>4
<1>15. CASE IfElse
  <2>1. Len(open) >= 2 /\ Plain(a, b) /\ PlainArms(a, b) /\ Join(Branch(a, b))
    BY <1>15 DEF IfElse
  <2>2. Built(Parts, Branch(a, b))
    BY <2>1, <1>12, <1>13 DEF Built
  <2> QED BY <2>1, <2>2, <1>4
<1>16. CASE While
  <2>1. /\ Len(open) >= 1 /\ MayLoop(b) /\ ("leaving-arm" \in Shapes \/ ~LeavesTraces(b))
        /\ open' = [open EXCEPT ![Len(open)] = Loop(b)] /\ macros' = macros
    BY <1>16 DEF While
  <2>2. Built(Parts, Loop(b))
    BY <2>1, <1>13 DEF Built
  <2>3. \A i \in DOMAIN open' : i \in DOMAIN open /\ (open'[i] = open[i] \/ open'[i] = Loop(b))
    BY <2>1
  <2> QED BY <2>1, <2>2, <2>3, <1>1
<1>17. CASE Define
  <2>1. /\ Len(open) = 1
        /\ macros' = Append(macros, open[1])
        /\ open' = <<>>
    BY <1>17 DEF Define
  <2>2. Built(Parts, open[1])
    BY <2>1, <1>1
  <2> QED BY <2>1, <2>2, <1>1, AppendRange
<1> QED
  BY <1>6, <1>7, <1>8, <1>9, <1>10, <1>11, <1>14, <1>15, <1>16, <1>17 DEF Next

-----------------------------------------------------------------------------
(* Types. *)

Typed(c) == c \in Part /\ Seen(c)

LEMMA PartFields ==
    ASSUME NEW c
    PROVE  c \in Part <=>
             /\ c = [direct |-> c.direct, forwarded |-> c.forwarded, gone |-> c.gone,
                     tried |-> c.tried, sources |-> c.sources, book |-> c.book,
                     ends |-> c.ends, exits |-> c.exits]
             /\ c.direct \in [Params -> Effect] /\ c.forwarded \in [Params -> Effect]
             /\ c.gone \subseteq Params /\ c.tried \in BOOLEAN
             /\ c.sources \subseteq Params /\ c.book \subseteq Params
             /\ c.ends \subseteq Path /\ c.exits \subseteq Exit
  BY DEF Part

LEMMA MakePart ==
    ASSUME NEW d \in [Params -> Effect], NEW f \in [Params -> Effect], NEW g \in SUBSET Params,
           NEW t \in BOOLEAN, NEW s \in SUBSET Params, NEW k \in SUBSET Params,
           NEW ends \in SUBSET Path, NEW exits \in SUBSET Exit
    PROVE  [direct |-> d, forwarded |-> f, gone |-> g, tried |-> t, sources |-> s,
            book |-> k, ends |-> ends, exits |-> exits] \in Part
  BY DEF Part

LEMMA EffectTypes ==
    /\ \A l, r \in Effect : SequenceEffect(l, r) \in Effect /\ BranchEffect(l, r) \in Effect
    /\ \A e \in Effect : LoopEffect(e) \in Effect
    /\ \A m \in Part : Verdict(m) \in [Params -> Effect]
    /\ Never \in [Params -> Effect]
  BY DEF SequenceEffect, BranchEffect, LoopEffect, Verdict, Effect, Never, Part

LEMMA JoinedEffects ==
    ASSUME NEW a \in [Params -> Effect], NEW b \in [Params -> Effect]
    PROVE  /\ InSequence(a, b) \in [Params -> Effect]
           /\ InBranches(a, b) \in [Params -> Effect]
           /\ \A p \in Params : InSequence(a, b)[p] = SequenceEffect(a[p], b[p])
           /\ \A p \in Params : InBranches(a, b)[p] = BranchEffect(a[p], b[p])
  BY EffectTypes DEF InSequence, InBranches

(* A place in the code behind part a, on path e. *)
LEMMA BehindFields ==
    ASSUME NEW a \in Part, NEW e \in Path, NEW x \in Exit
    PROVE  /\ Behind(a, e, x) \in Exit
           /\ Behind(a, e, x).by = x.by
           /\ Behind(a, e, x).moved = x.moved \cup e.moved
           /\ Behind(a, e, x).used = x.used \cup e.used
           /\ Behind(a, e, x).source = x.source
           /\ Behind(a, e, x).book = x.book \cup a.book
  BY DEF Behind, Part, Path, Exit

LEMMA LeavesTyped == ASSUME NEW c \in Leaves PROVE Typed(c)
<1>1. Never \in [Params -> Effect] /\ Untouched \in Path
  BY EffectTypes DEF Untouched, Path
<1>2. Nothing \in Part /\ Seen(Nothing)
  BY <1>1 DEF Nothing, Part, Seen
<1>3. ASSUME NEW p \in Params PROVE Typed(MovePart(p))
  <2>1. [Nothing.direct EXCEPT ![p] = "always"] \in [Params -> Effect]
    BY <1>1 DEF Nothing, Effect
  <2>2. [moved |-> {p}, used |-> {p}] \in Path
    BY DEF Path
  <2> QED BY <2>1, <2>2, <1>1 DEF MovePart, Nothing, Typed, Seen, Part
<1>4. ASSUME NEW s \in SUBSET Params PROVE Typed(TryPart(s))
  <2>1. [p \in Params |-> IF p \in s THEN "always" ELSE "never"] \in [Params -> Effect]
    BY DEF Effect
  <2>2. [moved |-> {}, used |-> s] \in Path
    BY DEF Path
  <2>3. [by |-> "try", moved |-> {}, used |-> s, source |-> s, book |-> {}] \in Exit
    BY DEF Exit
  <2>4. TryPart(s) \in Part
    BY <2>1, <2>2, <2>3, <1>1 DEF TryPart, Part
  <2> QED BY <2>4 DEF TryPart, Typed, Seen
<1>5. ASSUME NEW by \in {"return", "panic"}
      PROVE  [by |-> by, moved |-> {}, used |-> {}, source |-> {}, book |-> {}] \in Exit
  BY DEF Exit
<1>6. ReturnPart \in Part /\ PanicPart \in Part
  BY <1>1, <1>5 DEF ReturnPart, PanicPart, Nothing, Part
<1>7. Seen(ReturnPart) /\ Seen(PanicPart)
  BY DEF ReturnPart, PanicPart, Nothing, Seen
<1> QED
  BY <1>2, <1>3, <1>4, <1>6, <1>7 DEF Leaves, Typed

LEMMA CallTyped ==
    ASSUME NEW m, Typed(m), NEW pos \in Positions
    PROVE  Typed(CallPart(m, pos))
<1>1. m \in Part /\ Seen(m) /\ pos \in [Params -> Params]
  BY DEF Typed, Positions
<1>2. \A s : Passed(pos, s) \subseteq Params
  BY DEF Passed
<1>3. Never \in [Params -> Effect] /\ [p \in Params |-> Verdict(m)[pos[p]]] \in [Params -> Effect]
  BY <1>1, EffectTypes
<1>4. \A e \in m.ends :
        [moved |-> Passed(pos, e.moved), used |-> Passed(pos, e.used)] \in Path
  BY <1>2 DEF Path
<1>5. \A x \in m.exits :
        [by |-> x.by, moved |-> Passed(pos, x.moved), used |-> Passed(pos, x.used),
         source |-> Passed(pos, x.source), book |-> Passed(pos, x.book)] \in Exit
  BY <1>1, <1>2 DEF Exit, Part
<1>6. CallPart(m, pos) \in Part
  BY <1>1, <1>2, <1>3, <1>4, <1>5 DEF CallPart, SourcesOf, Part
<1>7. Seen(CallPart(m, pos))
  BY <1>1 DEF CallPart, SourcesOf, Seen, Passed
<1> QED BY <1>6, <1>7 DEF Typed

LEMMA SequenceTyped ==
    ASSUME NEW a, NEW b, Typed(a), Typed(b)
    PROVE  Typed(Sequence(a, b))
<1>1. a \in Part /\ b \in Part /\ Seen(a) /\ Seen(b)
  BY DEF Typed
<1>2. \A e \in a.ends, f \in b.ends :
        Then(e, f) \in Path
  BY <1>1 DEF Part, Path, Then
<1>3. \A e \in a.ends, x \in b.exits :
        Behind(a, e, x) \in Exit /\ Behind(a, e, x).by = x.by /\ Behind(a, e, x).source = x.source
  BY <1>1, BehindFields, PartFields
<1>4. Sequence(a, b) \in Part
  <2>1. LaterEnds(a, b) \in SUBSET Path /\ a.exits \cup LaterExits(a, b) \in SUBSET Exit
    BY <1>1, <1>2, <1>3, PartFields DEF LaterEnds, LaterExits
  <2>2. /\ InSequence(a.direct, b.direct) \in [Params -> Effect]
        /\ InSequence(a.forwarded, b.forwarded) \in [Params -> Effect]
    BY <1>1, JoinedEffects, PartFields
  <2>3. /\ a.gone \cup b.gone \in SUBSET Params /\ (a.tried \/ b.tried) \in BOOLEAN
        /\ a.sources \cup b.sources \in SUBSET Params /\ a.book \cup b.book \in SUBSET Params
    BY <1>1, PartFields
  <2> QED BY <2>1, <2>2, <2>3, MakePart, Zenon DEF Sequence
<1>5. Seen(Sequence(a, b))
  <2>1. ASSUME NEW y \in Sequence(a, b).exits, y.by = "try"
        PROVE  (a.tried /\ y.source \subseteq a.sources) \/ (b.tried /\ y.source \subseteq b.sources)
    <3>1. CASE y \in a.exits
      BY <3>1, <2>1, <1>1 DEF Seen
    <3>2. CASE \E e \in a.ends, x \in b.exits : y = Behind(a, e, x)
      BY <3>2, <2>1, <1>1, <1>3 DEF Seen
    <3> QED BY <2>1, <3>1, <3>2 DEF Sequence, LaterExits
  <2>2. /\ Sequence(a, b).tried <=> (a.tried \/ b.tried)
        /\ Sequence(a, b).sources = a.sources \cup b.sources
    BY DEF Sequence
  <2> QED BY <2>1, <2>2, Zenon DEF Seen
<1> QED BY <1>4, <1>5 DEF Typed

LEMMA BranchTyped ==
    ASSUME NEW a, NEW b, Typed(a), Typed(b)
    PROVE  Typed(Branch(a, b))
<1>1. a \in Part /\ b \in Part /\ Seen(a) /\ Seen(b) /\ Untouched \in Path
  BY DEF Typed, Untouched, Path
<1>2. \A x \in b.exits :
        /\ Behind(a, Untouched, x) \in Exit
        /\ Behind(a, Untouched, x).by = x.by /\ Behind(a, Untouched, x).source = x.source
  BY <1>1, BehindFields, PartFields
<1>3. MergedGone(a, b) \subseteq Params
  BY <1>1, PartFields DEF MergedGone
<1>4. Branch(a, b) \in Part
  <2> DEFINE exits == a.exits \cup {Behind(a, Untouched, x) : x \in b.exits}
  <2>1. a.ends \cup b.ends \in SUBSET Path /\ exits \in SUBSET Exit
    BY <1>1, <1>2, PartFields
  <2>2. /\ InBranches(a.direct, b.direct) \in [Params -> Effect]
        /\ InBranches(a.forwarded, b.forwarded) \in [Params -> Effect]
    BY <1>1, JoinedEffects, PartFields
  <2>3. /\ (a.tried \/ b.tried) \in BOOLEAN
        /\ a.sources \cup b.sources \in SUBSET Params /\ a.book \cup b.book \in SUBSET Params
    BY <1>1, PartFields
  <2> QED BY <2>1, <2>2, <2>3, <1>3, MakePart, Zenon DEF Branch
<1>5. Seen(Branch(a, b))
  <2>1. ASSUME NEW y \in Branch(a, b).exits, y.by = "try"
        PROVE  (a.tried /\ y.source \subseteq a.sources) \/ (b.tried /\ y.source \subseteq b.sources)
    <3>1. CASE y \in a.exits
      BY <3>1, <2>1, <1>1 DEF Seen
    <3>2. CASE \E x \in b.exits : y = Behind(a, Untouched, x)
      BY <3>2, <2>1, <1>1, <1>2 DEF Seen
    <3> QED BY <2>1, <3>1, <3>2 DEF Branch
  <2>2. /\ Branch(a, b).tried <=> (a.tried \/ b.tried)
        /\ Branch(a, b).sources = a.sources \cup b.sources
    BY DEF Branch
  <2> QED BY <2>1, <2>2, Zenon DEF Seen
<1> QED BY <1>4, <1>5 DEF Typed

(* A loop keeps all but the effects and the ends. *)
LEMMA LoopFields ==
    ASSUME NEW a \in Part
    PROVE  /\ Loop(a) \in Part
           /\ Loop(a).gone = a.gone /\ Loop(a).tried = a.tried /\ Loop(a).sources = a.sources
           /\ Loop(a).book = a.book /\ Loop(a).exits = a.exits /\ Loop(a).ends = {Untouched}
           /\ \A p \in Params : /\ Loop(a).direct[p] = LoopEffect(a.direct[p])
                                /\ Loop(a).forwarded[p] = LoopEffect(a.forwarded[p])
<1>1. /\ [p \in Params |-> LoopEffect(a.direct[p])] \in [Params -> Effect]
      /\ [p \in Params |-> LoopEffect(a.forwarded[p])] \in [Params -> Effect]
  BY EffectTypes, PartFields
<1>2. Untouched \in Path
  BY DEF Untouched, Path
<1> QED BY <1>1, <1>2 DEF Loop, Part

LEMMA LoopTyped == ASSUME NEW a, Typed(a) PROVE Typed(Loop(a))
  BY LoopFields DEF Typed, Seen

(* What is built from typed parts is typed. *)
LEMMA BuiltTyped ==
    ASSUME NEW P, \A a \in P : Typed(a), NEW c, Built(P, c)
    PROVE  Typed(c)
  BY LeavesTyped, CallTyped, SequenceTyped, BranchTyped, LoopTyped DEF Built

-----------------------------------------------------------------------------
(* The paths of joined parts. *)

(* Path y goes through e and then through f. *)
Through(y, e, f) == y.moved = f.moved \cup e.moved /\ y.used = f.used \cup e.used

(* Exit y is exit x of what follows a, reached by e. *)
Later(y, a, e, x) ==
    Through(y, e, x) /\ y.by = x.by /\ y.source = x.source /\ y.book = x.book \cup a.book

LEMMA SequencePaths ==
    ASSUME NEW a \in Part, NEW b \in Part
    PROVE  /\ \A y \in Sequence(a, b).ends : \E e \in a.ends, f \in b.ends : Through(y, e, f)
           /\ \A e \in a.ends, f \in b.ends : \E y \in Sequence(a, b).ends : Through(y, e, f)
           /\ \A y \in Sequence(a, b).exits :
                 y \in a.exits \/ \E e \in a.ends, x \in b.exits : Later(y, a, e, x)
           /\ a.exits \subseteq Sequence(a, b).exits
           /\ \A e \in a.ends, x \in b.exits : \E y \in Sequence(a, b).exits : Later(y, a, e, x)
<1>1. \A e \in a.ends, x \in b.exits : Later(Behind(a, e, x), a, e, x)
  BY BehindFields, PartFields DEF Later, Through
<1>2. \A e \in a.ends, f \in b.ends :
        Through(Then(e, f), e, f)
  BY DEF Through, Then
<1>3. /\ \A y \in LaterEnds(a, b) : \E e \in a.ends, f \in b.ends : Through(y, e, f)
      /\ \A e \in a.ends, f \in b.ends : \E y \in LaterEnds(a, b) : Through(y, e, f)
  BY <1>2 DEF LaterEnds
<1>4. /\ \A y \in LaterExits(a, b) : \E e \in a.ends, x \in b.exits : Later(y, a, e, x)
      /\ \A e \in a.ends, x \in b.exits : \E y \in LaterExits(a, b) : Later(y, a, e, x)
  BY <1>1 DEF LaterExits
<1>5. Sequence(a, b).ends = LaterEnds(a, b) /\ Sequence(a, b).exits = a.exits \cup LaterExits(a, b)
  BY DEF Sequence
<1> QED BY <1>3, <1>4, <1>5

LEMMA BranchPaths ==
    ASSUME NEW a \in Part, NEW b \in Part
    PROVE  /\ Branch(a, b).ends = a.ends \cup b.ends
           /\ \A y \in Branch(a, b).exits :
                 y \in a.exits \/ \E x \in b.exits : Later(y, a, Untouched, x)
           /\ a.exits \subseteq Branch(a, b).exits
           /\ \A x \in b.exits : \E y \in Branch(a, b).exits : Later(y, a, Untouched, x)
<1>1. Untouched \in Path
  BY DEF Untouched, Path
<1>2. \A x \in b.exits : Later(Behind(a, Untouched, x), a, Untouched, x)
  BY <1>1, BehindFields, PartFields DEF Later, Through
<1> QED BY <1>2 DEF Branch

LEMMA SequenceFields ==
    ASSUME NEW a \in Part, NEW b \in Part
    PROVE  /\ \A p \in Params :
                 /\ Sequence(a, b).direct[p] = SequenceEffect(a.direct[p], b.direct[p])
                 /\ Sequence(a, b).forwarded[p] = SequenceEffect(a.forwarded[p], b.forwarded[p])
           /\ Sequence(a, b).gone = a.gone \cup b.gone
           /\ Sequence(a, b).sources = a.sources \cup b.sources
           /\ Sequence(a, b).book = a.book \cup b.book
           /\ Sequence(a, b).tried <=> (a.tried \/ b.tried)
<1>1. /\ a.direct \in [Params -> Effect] /\ b.direct \in [Params -> Effect]
      /\ a.forwarded \in [Params -> Effect] /\ b.forwarded \in [Params -> Effect]
  BY PartFields
<1>2. /\ Sequence(a, b).direct = InSequence(a.direct, b.direct)
      /\ Sequence(a, b).forwarded = InSequence(a.forwarded, b.forwarded)
  BY DEF Sequence
<1>3. Sequence(a, b).tried <=> (a.tried \/ b.tried)
  BY DEF Sequence
<1>4. /\ Sequence(a, b).gone = a.gone \cup b.gone /\ Sequence(a, b).sources = a.sources \cup b.sources
      /\ Sequence(a, b).book = a.book \cup b.book
  BY DEF Sequence
<1>5. \A p \in Params :
        /\ Sequence(a, b).direct[p] = SequenceEffect(a.direct[p], b.direct[p])
        /\ Sequence(a, b).forwarded[p] = SequenceEffect(a.forwarded[p], b.forwarded[p])
  BY <1>1, <1>2, JoinedEffects
<1> QED BY <1>3, <1>4, <1>5, Zenon

LEMMA BranchFields ==
    ASSUME NEW a \in Part, NEW b \in Part
    PROVE  /\ \A p \in Params :
                 /\ Branch(a, b).direct[p] = BranchEffect(a.direct[p], b.direct[p])
                 /\ Branch(a, b).forwarded[p] = BranchEffect(a.forwarded[p], b.forwarded[p])
           /\ Branch(a, b).gone = MergedGone(a, b)
           /\ Branch(a, b).sources = a.sources \cup b.sources
           /\ Branch(a, b).book = a.book \cup b.book
           /\ Branch(a, b).tried <=> (a.tried \/ b.tried)
<1>1. /\ a.direct \in [Params -> Effect] /\ b.direct \in [Params -> Effect]
      /\ a.forwarded \in [Params -> Effect] /\ b.forwarded \in [Params -> Effect]
  BY PartFields
<1>2. /\ Branch(a, b).direct = InBranches(a.direct, b.direct)
      /\ Branch(a, b).forwarded = InBranches(a.forwarded, b.forwarded)
  BY DEF Branch
<1>3. Branch(a, b).tried <=> (a.tried \/ b.tried)
  BY DEF Branch
<1>4. /\ Branch(a, b).gone = MergedGone(a, b) /\ Branch(a, b).sources = a.sources \cup b.sources
      /\ Branch(a, b).book = a.book \cup b.book
  BY DEF Branch
<1>5. \A p \in Params :
        /\ Branch(a, b).direct[p] = BranchEffect(a.direct[p], b.direct[p])
        /\ Branch(a, b).forwarded[p] = BranchEffect(a.forwarded[p], b.forwarded[p])
  BY <1>1, <1>2, JoinedEffects
<1> QED BY <1>3, <1>4, <1>5, Zenon

LEMMA CallFields ==
    ASSUME NEW m \in Part, NEW pos \in Positions
    PROVE  /\ \A p \in Params : /\ pos[p] \in Params
                                /\ CallPart(m, pos).direct[p] = "never"
                                /\ CallPart(m, pos).forwarded[p] = Verdict(m)[pos[p]]
                                /\ p \in CallPart(m, pos).gone <=> Verdict(m)[pos[p]] # "never"
                                /\ \A s : p \in Passed(pos, s) <=> pos[p] \in s
           /\ CallPart(m, pos).sources = Passed(pos, m.sources)
           /\ CallPart(m, pos).book = Passed(pos, m.book)
           /\ CallPart(m, pos).tried = m.tried
  BY EffectTypes DEF CallPart, Positions, Never, Passed, SourcesOf

(* A path or an exit of a call is one of the macro, seen by the caller. *)
Renamed(pos, y, e) == y.moved = Passed(pos, e.moved) /\ y.used = Passed(pos, e.used)

RenamedExit(pos, y, x) ==
    /\ Renamed(pos, y, x) /\ y.by = x.by
    /\ y.source = Passed(pos, x.source) /\ y.book = Passed(pos, x.book)

LEMMA CallPaths ==
    ASSUME NEW m \in Part, NEW pos \in Positions
    PROVE  /\ \A y \in CallPart(m, pos).ends : \E e \in m.ends : Renamed(pos, y, e)
           /\ \A e \in m.ends : \E y \in CallPart(m, pos).ends : Renamed(pos, y, e)
           /\ \A y \in CallPart(m, pos).exits : \E x \in m.exits : RenamedExit(pos, y, x)
           /\ \A x \in m.exits : \E y \in CallPart(m, pos).exits : RenamedExit(pos, y, x)
<1>1. /\ CallPart(m, pos).ends =
            {[moved |-> Passed(pos, e.moved), used |-> Passed(pos, e.used)] : e \in m.ends}
      /\ CallPart(m, pos).exits =
            {[by |-> x.by, moved |-> Passed(pos, x.moved), used |-> Passed(pos, x.used),
              source |-> Passed(pos, x.source), book |-> Passed(pos, x.book)] : x \in m.exits}
  BY DEF CallPart
<1>2. \A e \in m.ends :
        Renamed(pos, [moved |-> Passed(pos, e.moved), used |-> Passed(pos, e.used)], e)
  BY DEF Renamed
<1>3. \A x \in m.exits :
        RenamedExit(pos, [by |-> x.by, moved |-> Passed(pos, x.moved), used |-> Passed(pos, x.used),
                          source |-> Passed(pos, x.source), book |-> Passed(pos, x.book)], x)
  BY DEF RenamedExit, Renamed
<1> QED BY <1>1, <1>2, <1>3, Zenon

LEMMA Verdicts ==
    ASSUME NEW m \in Part, NEW p \in Params
    PROVE  /\ Verdict(m)[p] = "never" <=> m.direct[p] = "never" /\ m.forwarded[p] = "never"
           /\ Verdict(m)[p] # "never" <=> p \in Uses(m)
           /\ Verdict(m)[p] = "always" =>
                 m.direct[p] = "always" \/ (m.direct[p] = "never" /\ m.forwarded[p] = "always")
           /\ Verdict(m)[p] = "conditional" =>
                 m.direct[p] = "conditional"
                    \/ (m.direct[p] = "never" /\ m.forwarded[p] = "conditional")
           /\ m.direct[p] \in Effect /\ m.forwarded[p] \in Effect
  BY PartFields DEF Verdict, Uses, Effect

(* The effects of joined parts, one parameter at a time. *)
LEMMA EffectLaws ==
    ASSUME NEW l \in Effect, NEW r \in Effect
    PROVE  /\ SequenceEffect(l, r) = "never" <=> l = "never" /\ r = "never"
           /\ SequenceEffect(l, r) = "always" <=> l = "always" \/ r = "always"
           /\ BranchEffect(l, r) = "never" <=> l = "never" /\ r = "never"
           /\ BranchEffect(l, r) = "always" <=> l = "always" /\ r = "always"
           /\ LoopEffect(l) = "never" <=> l = "never"
           /\ LoopEffect(l) # "always"
  BY DEF SequenceEffect, BranchEffect, LoopEffect, Effect

LEMMA LeafFields ==
    /\ \A p \in Params :
          /\ Nothing.direct[p] = "never" /\ Nothing.forwarded[p] = "never"
          /\ ReturnPart.direct[p] = "never" /\ ReturnPart.forwarded[p] = "never"
          /\ PanicPart.direct[p] = "never" /\ PanicPart.forwarded[p] = "never"
    /\ \A p, q \in Params :
          /\ MovePart(q).direct[p] = (IF p = q THEN "always" ELSE "never")
          /\ MovePart(q).forwarded[p] = "never"
    /\ \A s : \A p \in Params :
          /\ TryPart(s).direct[p] = (IF p \in s THEN "always" ELSE "never")
          /\ TryPart(s).forwarded[p] = "never"
    /\ Nothing.ends = {Untouched} /\ Nothing.exits = {} /\ Nothing.book = {}
    /\ Nothing.sources = {} /\ ~Nothing.tried
    /\ ReturnPart.ends = {} /\ ReturnPart.sources = {} /\ ~ReturnPart.tried
    /\ PanicPart.ends = {} /\ PanicPart.sources = {} /\ ~PanicPart.tried
    /\ PanicPart.book = {}
  BY DEF Nothing, ReturnPart, PanicPart, MovePart, TryPart, Never

LEMMA MoveFields ==
    ASSUME NEW q \in Params
    PROVE  /\ MovePart(q).ends = {[moved |-> {q}, used |-> {q}]}
           /\ MovePart(q).exits = {} /\ MovePart(q).book = {q} /\ MovePart(q).gone = {q}
           /\ MovePart(q).sources = {} /\ ~MovePart(q).tried
  BY DEF MovePart, Nothing

-----------------------------------------------------------------------------
(* What the verdict says is true of every path. *)

Sound(c) ==
    \A p \in Params : \A e \in c.ends :
        /\ c.direct[p] = "always" \/ c.forwarded[p] = "always" => p \in e.used
        /\ c.direct[p] = "never" /\ c.forwarded[p] = "never" => p \notin e.used

LEMMA LeavesSound == ASSUME NEW c \in Leaves PROVE Sound(c)
<1>1. Sound(Nothing) /\ Sound(ReturnPart) /\ Sound(PanicPart)
  BY LeafFields DEF Sound, Untouched
<1>2. ASSUME NEW q \in Params PROVE Sound(MovePart(q))
  <2>1. \A e \in MovePart(q).ends : e.used = {q}
    BY MoveFields
  <2> QED BY <2>1, LeafFields DEF Sound
<1>3. ASSUME NEW s PROVE Sound(TryPart(s))
  <2>1. TryPart(s).ends = {[moved |-> {}, used |-> s]}
    BY DEF TryPart
  <2> QED BY <2>1, LeafFields DEF Sound
<1> QED BY <1>1, <1>2, <1>3 DEF Leaves

LEMMA CallSound ==
    ASSUME NEW m \in Part, Sound(m), NEW pos \in Positions
    PROVE  Sound(CallPart(m, pos))
<1> SUFFICES ASSUME NEW p \in Params, NEW y \in CallPart(m, pos).ends
             PROVE  /\ Verdict(m)[pos[p]] = "always" => p \in y.used
                    /\ Verdict(m)[pos[p]] = "never" => p \notin y.used
  BY CallFields DEF Sound
<1>1. PICK e \in m.ends : Renamed(pos, y, e)
  BY CallPaths
<1>2. pos[p] \in Params /\ (p \in y.used <=> pos[p] \in e.used)
  BY <1>1, CallFields DEF Renamed
<1> QED BY <1>2, Verdicts DEF Sound

LEMMA SequenceSound ==
    ASSUME NEW a \in Part, NEW b \in Part, Sound(a), Sound(b)
    PROVE  Sound(Sequence(a, b))
<1> SUFFICES ASSUME NEW p \in Params, NEW y \in Sequence(a, b).ends
             PROVE  /\ Sequence(a, b).direct[p] = "always" => p \in y.used
                    /\ Sequence(a, b).forwarded[p] = "always" => p \in y.used
                    /\ Sequence(a, b).direct[p] = "never" /\ Sequence(a, b).forwarded[p] = "never"
                          => p \notin y.used
  BY DEF Sound
<1>1. PICK e \in a.ends, f \in b.ends : Through(y, e, f)
  BY SequencePaths
<1>2. p \in y.used <=> p \in f.used \/ p \in e.used
  BY <1>1 DEF Through
<1> QED BY <1>2, SequenceFields, EffectLaws, Verdicts DEF Sound

LEMMA BranchSound ==
    ASSUME NEW a \in Part, NEW b \in Part, Sound(a), Sound(b)
    PROVE  Sound(Branch(a, b))
  BY BranchPaths, BranchFields, EffectLaws, Verdicts DEF Sound

LEMMA LoopSound ==
    ASSUME NEW a \in Part, Sound(a)
    PROVE  Sound(Loop(a))
  BY LoopFields, EffectLaws, Verdicts DEF Sound, Untouched

LEMMA BuiltSound ==
    ASSUME NEW P, \A a \in P : Typed(a) /\ Sound(a), NEW c, Built(P, c)
    PROVE  Sound(c)
  BY LeavesSound, CallSound, SequenceSound, BranchSound, LoopSound DEF Built, Typed

LEMMA SoundVerdict ==
    ASSUME NEW m \in Part, Sound(m)
    PROVE  \A p \in Params : \A e \in m.ends :
             /\ Verdict(m)[p] = "always" => p \in e.used
             /\ Verdict(m)[p] = "never" => p \notin e.used
  BY Verdicts DEF Sound

-----------------------------------------------------------------------------
(* What is refused deserves it. *)

(* Some path of c uses p, some does not. *)
SomeUses(c, p) == \E e \in c.ends \cup c.exits : p \in e.used
SomeSpares(c, p) == \E e \in c.ends \cup c.exits : p \notin e.used

Fair(c) ==
    /\ c.ends \cup c.exits # {}
    /\ \A p \in Params :
          /\ p \in Uses(c) => SomeUses(c, p)
          /\ c.direct[p] # "always" /\ c.forwarded[p] # "always" => SomeSpares(c, p)
          /\ c.direct[p] = "never" \/ c.forwarded[p] = "never"

(* p is consumed one way at most, and the same way in both parts. *)
OneWay(a, b, p) ==
    p \in Uses(a) \cap Uses(b) => (a.direct[p] = "never" <=> b.direct[p] = "never")

LEMMA PlainOneWay ==
    ASSUME NEW a \in Part, NEW b \in Part, "two-ways" \notin Shapes, Plain(a, b)
    PROVE  \A p \in Params : OneWay(a, b, p)
  BY DEF Plain, TwoWays, OneWay

LEMMA UsesMeans ==
    ASSUME NEW c
    PROVE  \A p \in Params : p \in Uses(c) <=> c.direct[p] # "never" \/ c.forwarded[p] # "never"
  BY DEF Uses

LEMMA LeavesFair == ASSUME NEW c \in Leaves PROVE Fair(c)
<1>1. Fair(Nothing)
  BY LeafFields, UsesMeans DEF Fair, SomeUses, SomeSpares, Untouched
<1>2. ASSUME NEW c1, c1 = ReturnPart \/ c1 = PanicPart PROVE Fair(c1)
  <2> DEFINE x(by) == [by |-> by, moved |-> {}, used |-> {}, source |-> {}, book |-> {}]
  <2>1. x("return") \in c1.exits \/ x("panic") \in c1.exits
    BY <1>2 DEF ReturnPart, PanicPart, Nothing
  <2>2. \A by : x(by).used = {}
    OBVIOUS
  <2>3. \E y \in c1.exits : y.used = {}
    BY <2>1, <2>2, Zenon
  <2> QED BY <1>2, <2>3, LeafFields, UsesMeans DEF Fair, SomeUses, SomeSpares
<1>3. ASSUME NEW q \in Params PROVE Fair(MovePart(q))
  <2> DEFINE e == [moved |-> {q}, used |-> {q}]
  <2>1. e \in MovePart(q).ends /\ e.used = {q}
    BY MoveFields
  <2> QED BY <2>1, LeafFields, UsesMeans DEF Fair, SomeUses, SomeSpares
<1>4. ASSUME NEW s PROVE Fair(TryPart(s))
  <2>1. \E e \in TryPart(s).ends : e.used = s
    BY DEF TryPart
  <2> QED BY <2>1, LeafFields, UsesMeans DEF Fair, SomeUses, SomeSpares
<1> QED BY <1>1, <1>2, <1>3, <1>4 DEF Leaves

LEMMA CallFair ==
    ASSUME NEW m \in Part, Fair(m), Accepted(m), m.ends # {}, NEW pos \in Positions
    PROVE  Fair(CallPart(m, pos))
<1> DEFINE c == CallPart(m, pos)
<1>1. c.ends # {}
  BY CallPaths
<1>2. ASSUME NEW p \in Params, NEW e \in m.ends \cup m.exits
      PROVE  \E y \in c.ends \cup c.exits : p \in y.used <=> pos[p] \in e.used
  <2>1. PICK y \in c.ends \cup c.exits : y.used = Passed(pos, e.used)
    BY CallPaths DEF Renamed, RenamedExit
  <2> QED BY <2>1, CallFields
<1> SUFFICES ASSUME NEW p \in Params
             PROVE  /\ p \in Uses(c) => SomeUses(c, p)
                    /\ c.forwarded[p] # "always" => SomeSpares(c, p)
                    /\ c.direct[p] = "never"
  BY <1>1 DEF Fair
<1>3. pos[p] \in Params /\ c.direct[p] = "never" /\ c.forwarded[p] = Verdict(m)[pos[p]]
  BY CallFields
<1>4. ASSUME p \in Uses(c) PROVE SomeUses(c, p)
  <2>1. pos[p] \in Uses(m)
    BY <1>3, <1>4, UsesMeans, Verdicts
  <2> QED BY <2>1, <1>2, <1>3 DEF Fair, SomeUses
<1>5. ASSUME c.forwarded[p] # "always" PROVE SomeSpares(c, p)
  <2>1. Verdict(m)[pos[p]] = "never"
    BY <1>3, <1>5, EffectTypes DEF Accepted, Effect
  <2>2. m.direct[pos[p]] # "always" /\ m.forwarded[pos[p]] # "always"
    BY <2>1, <1>3, Verdicts
  <2> QED BY <2>2, <1>2, <1>3 DEF Fair, SomeSpares
<1> QED BY <1>3, <1>4, <1>5

LEMMA SequenceFair ==
    ASSUME NEW a \in Part, NEW b \in Part, Fair(a), Fair(b), a.ends # {},
           \A p \in Params : OneWay(a, b, p)
    PROVE  Fair(Sequence(a, b))
<1> DEFINE c == Sequence(a, b)
<1>1. ASSUME NEW e \in a.ends, NEW f \in b.ends \cup b.exits
      PROVE  \E y \in c.ends \cup c.exits : y.used = f.used \cup e.used
  <2>1. CASE f \in b.ends
    <3>1. PICK y \in c.ends : Through(y, e, f)
      BY <2>1, SequencePaths
    <3> QED BY <3>1 DEF Through
  <2>2. CASE f \in b.exits
    <3>1. PICK y \in c.exits : Later(y, a, e, f)
      BY <2>2, SequencePaths
    <3> QED BY <3>1 DEF Later, Through
  <2> QED BY <2>1, <2>2
<1>2. c.ends \cup c.exits # {} /\ a.exits \subseteq c.exits
  BY <1>1, SequencePaths DEF Fair
<1> SUFFICES ASSUME NEW p \in Params
             PROVE  /\ p \in Uses(c) => SomeUses(c, p)
                    /\ c.direct[p] # "always" /\ c.forwarded[p] # "always" => SomeSpares(c, p)
                    /\ c.direct[p] = "never" \/ c.forwarded[p] = "never"
  BY <1>2 DEF Fair
<1>3. /\ c.direct[p] = SequenceEffect(a.direct[p], b.direct[p])
      /\ c.forwarded[p] = SequenceEffect(a.forwarded[p], b.forwarded[p])
  BY SequenceFields
<1>4. p \in Uses(c) <=> p \in Uses(a) \/ p \in Uses(b)
  BY <1>3, EffectLaws, Verdicts, UsesMeans
<1>5. ASSUME p \in Uses(c) PROVE SomeUses(c, p)
  <2>1. CASE p \in Uses(a)
    <3>1. PICK e \in a.ends \cup a.exits : p \in e.used
      BY <2>1 DEF Fair, SomeUses
    <3>2. CASE e \in a.exits
      BY <3>1, <3>2, <1>2 DEF SomeUses
    <3>3. CASE e \in a.ends
      <4>1. PICK f \in b.ends \cup b.exits : TRUE
        BY DEF Fair
      <4> QED BY <3>1, <3>3, <4>1, <1>1 DEF SomeUses
    <3> QED BY <3>2, <3>3
  <2>2. CASE p \in Uses(b)
    <3>1. PICK f \in b.ends \cup b.exits : p \in f.used
      BY <2>2 DEF Fair, SomeUses
    <3>2. PICK e \in a.ends : TRUE
      OBVIOUS
    <3> QED BY <3>1, <3>2, <1>1 DEF SomeUses
  <2> QED BY <2>1, <2>2, <1>4, <1>5
<1>6. ASSUME c.direct[p] # "always", c.forwarded[p] # "always" PROVE SomeSpares(c, p)
  <2>1. SomeSpares(a, p) /\ SomeSpares(b, p)
    BY <1>3, <1>6, EffectLaws, Verdicts DEF Fair
  <2>2. PICK e \in a.ends \cup a.exits : p \notin e.used
    BY <2>1 DEF SomeSpares
  <2>3. PICK f \in b.ends \cup b.exits : p \notin f.used
    BY <2>1 DEF SomeSpares
  <2>4. CASE e \in a.exits
    BY <2>2, <2>4, <1>2 DEF SomeSpares
  <2>5. CASE e \in a.ends
    BY <2>2, <2>3, <2>5, <1>1 DEF SomeSpares
  <2> QED BY <2>4, <2>5
<1>7. c.direct[p] = "never" \/ c.forwarded[p] = "never"
  BY <1>3, EffectLaws, Verdicts, UsesMeans DEF Fair, OneWay
<1> QED BY <1>5, <1>6, <1>7

LEMMA BranchFair ==
    ASSUME NEW a \in Part, NEW b \in Part, Fair(a), Fair(b),
           \A p \in Params : OneWay(a, b, p)
    PROVE  Fair(Branch(a, b))
<1> DEFINE c == Branch(a, b)
<1>1. ASSUME NEW p, NEW e \in a.ends \cup a.exits \cup b.ends \cup b.exits
      PROVE  \E y \in c.ends \cup c.exits : p \in y.used <=> p \in e.used
  BY BranchPaths DEF Later, Through, Untouched
<1>2. c.ends \cup c.exits # {}
  BY BranchPaths DEF Fair
<1> SUFFICES ASSUME NEW p \in Params
             PROVE  /\ p \in Uses(c) => SomeUses(c, p)
                    /\ c.direct[p] # "always" /\ c.forwarded[p] # "always" => SomeSpares(c, p)
                    /\ c.direct[p] = "never" \/ c.forwarded[p] = "never"
  BY <1>2 DEF Fair
<1>3. /\ c.direct[p] = BranchEffect(a.direct[p], b.direct[p])
      /\ c.forwarded[p] = BranchEffect(a.forwarded[p], b.forwarded[p])
  BY BranchFields
<1>4. p \in Uses(c) <=> p \in Uses(a) \/ p \in Uses(b)
  BY <1>3, EffectLaws, Verdicts, UsesMeans
<1>5. SomeUses(a, p) \/ SomeUses(b, p) => SomeUses(c, p)
  BY <1>1 DEF SomeUses
<1>6. SomeSpares(a, p) \/ SomeSpares(b, p) => SomeSpares(c, p)
  BY <1>1 DEF SomeSpares
<1>7. ASSUME c.direct[p] # "always", c.forwarded[p] # "always"
      PROVE  SomeSpares(a, p) \/ SomeSpares(b, p)
  <2>1. ~(a.direct[p] = "always" /\ b.direct[p] = "always")
    BY <1>3, <1>7, EffectLaws, Verdicts
  <2>2. ~(a.forwarded[p] = "always" /\ b.forwarded[p] = "always")
    BY <1>3, <1>7, EffectLaws, Verdicts
  <2>3. \/ a.direct[p] # "always" /\ a.forwarded[p] # "always"
        \/ b.direct[p] # "always" /\ b.forwarded[p] # "always"
    BY <2>1, <2>2, UsesMeans DEF Fair, OneWay
  <2> QED BY <2>3 DEF Fair
<1>8. c.direct[p] = "never" \/ c.forwarded[p] = "never"
  BY <1>3, EffectLaws, Verdicts, UsesMeans DEF Fair, OneWay
<1> QED BY <1>4, <1>5, <1>6, <1>7, <1>8 DEF Fair

LEMMA LoopFair ==
    ASSUME NEW a \in Part, Fair(a), MayLoop(a)
    PROVE  Fair(Loop(a))
<1> SUFFICES ASSUME NEW p \in Params
             PROVE  /\ p \in Uses(Loop(a)) => SomeUses(Loop(a), p)
                    /\ SomeSpares(Loop(a), p)
                    /\ Loop(a).direct[p] = "never" \/ Loop(a).forwarded[p] = "never"
  BY LoopFields DEF Fair
<1>1. /\ Loop(a).direct[p] = "never" <=> a.direct[p] = "never"
      /\ Loop(a).forwarded[p] = "never" <=> a.forwarded[p] = "never"
  BY LoopFields, EffectLaws, Verdicts
<1>2. SomeSpares(Loop(a), p)
  <2>1. Untouched \in Loop(a).ends /\ Untouched.used = {}
    BY LoopFields DEF Untouched
  <2> QED BY <2>1 DEF SomeSpares
<1>3. ASSUME p \in Uses(Loop(a)) PROVE SomeUses(Loop(a), p)
  <2>1. p \in Uses(a)
    BY <1>1, <1>3, UsesMeans
  <2>2. PICK x \in a.exits : p \in x.used
    BY <2>1 DEF MayLoop, Fair, SomeUses
  <2> QED BY <2>2, LoopFields DEF SomeUses
<1> QED BY <1>1, <1>2, <1>3 DEF Fair

LEMMA BuiltFair ==
    ASSUME "two-ways" \notin Shapes,
           NEW P, \A a \in P : Typed(a) /\ Fair(a), NEW c, Built(P, c)
    PROVE  Fair(c)
  BY PlainOneWay, LeavesFair, CallFair, SequenceFair, BranchFair, LoopFair
     DEF Built, Typed, MayFollow

LEMMA FairVerdict ==
    ASSUME NEW m \in Part, Fair(m), NEW p \in Params, Verdict(m)[p] = "conditional"
    PROVE  SomeUses(m, p) /\ SomeSpares(m, p)
  BY Verdicts DEF Fair

-----------------------------------------------------------------------------
(* All `?` of a part give back the same. *)

OneSource(c) ==
    /\ ~c.tried => c.sources = {}
    /\ \A x \in c.exits : (x.by = "try" => x.source = c.sources) /\ (x.by # "try" => x.source = {})

LEMMA LeavesOneSource == ASSUME NEW c \in Leaves PROVE OneSource(c)
<1>1. OneSource(Nothing) /\ \A q \in Params : OneSource(MovePart(q))
  BY LeafFields, MoveFields DEF OneSource
<1>2. ASSUME NEW s PROVE OneSource(TryPart(s))
  BY DEF TryPart, OneSource
<1>3. OneSource(ReturnPart) /\ OneSource(PanicPart)
  BY DEF ReturnPart, PanicPart, Nothing, OneSource
<1> QED BY <1>1, <1>2, <1>3 DEF Leaves

LEMMA CallOneSource ==
    ASSUME NEW m \in Part, OneSource(m), NEW pos \in Positions
    PROVE  OneSource(CallPart(m, pos))
<1>1. Passed(pos, {}) = {}
  BY DEF Passed
<1>2. ASSUME NEW y \in CallPart(m, pos).exits
      PROVE  /\ y.by = "try" => y.source = Passed(pos, m.sources)
             /\ y.by # "try" => y.source = {}
  <2>1. PICK x \in m.exits : y.by = x.by /\ y.source = Passed(pos, x.source)
    BY CallPaths DEF RenamedExit
  <2> QED BY <2>1, <1>1 DEF OneSource
<1> QED BY <1>1, <1>2, CallFields DEF OneSource

LEMMA JoinOneSource ==
    ASSUME NEW a \in Part, NEW b \in Part, Typed(a), Typed(b), OneSource(a), OneSource(b),
           ~TwoSources(a, b)
    PROVE  OneSource(Sequence(a, b)) /\ OneSource(Branch(a, b))
<1>1. a.tried => a.sources = a.sources \cup b.sources
  BY DEF OneSource, TwoSources
<1>2. b.tried => b.sources = a.sources \cup b.sources
  BY DEF OneSource, TwoSources
<1>3. ~(a.tried \/ b.tried) => a.sources \cup b.sources = {}
  BY DEF OneSource
<1>4. ASSUME NEW x \in a.exits \cup b.exits
      PROVE  /\ x.by = "try" => x.source = a.sources \cup b.sources
             /\ x.by # "try" => x.source = {}
  BY <1>1, <1>2 DEF OneSource, Typed, Seen
<1>5. /\ \A y \in Sequence(a, b).exits :
            \E x \in a.exits \cup b.exits : y.by = x.by /\ y.source = x.source
      /\ \A y \in Branch(a, b).exits :
            \E x \in a.exits \cup b.exits : y.by = x.by /\ y.source = x.source
  BY SequencePaths, BranchPaths DEF Later
<1>6. OneSource(Sequence(a, b))
  <2>1. \A y \in Sequence(a, b).exits :
          /\ y.by = "try" => y.source = a.sources \cup b.sources
          /\ y.by # "try" => y.source = {}
    BY <1>4, <1>5
  <2>2. Sequence(a, b).sources = a.sources \cup b.sources
    BY SequenceFields, Zenon DEF Typed
  <2>3. ~Sequence(a, b).tried => ~(a.tried \/ b.tried)
    BY SequenceFields, Zenon DEF Typed
  <2> QED BY <2>1, <2>2, <2>3, <1>3, Zenon DEF OneSource
<1>7. OneSource(Branch(a, b))
  <2>1. \A y \in Branch(a, b).exits :
          /\ y.by = "try" => y.source = a.sources \cup b.sources
          /\ y.by # "try" => y.source = {}
    BY <1>4, <1>5
  <2>2. Branch(a, b).sources = a.sources \cup b.sources
    BY BranchFields, Zenon DEF Typed
  <2>3. ~Branch(a, b).tried => ~(a.tried \/ b.tried)
    BY BranchFields, Zenon DEF Typed
  <2> QED BY <2>1, <2>2, <2>3, <1>3, Zenon DEF OneSource
<1> QED BY <1>6, <1>7

LEMMA BuiltOneSource ==
    ASSUME "two-sources" \notin Shapes,
           NEW P, \A a \in P : Typed(a) /\ OneSource(a), NEW c, Built(P, c)
    PROVE  OneSource(c)
<1>1. \A a \in P : OneSource(Loop(a))
  BY LoopFields DEF OneSource, Typed
<1> QED
  BY <1>1, LeavesOneSource, CallOneSource, JoinOneSource DEF Built, Typed, Plain

-----------------------------------------------------------------------------
(* The book and the paths. *)

Doubtful(c, p) == c.direct[p] = "conditional" \/ c.forwarded[p] = "conditional"

(* The book tells what path e of c has moved, where c is not in doubt. *)
Tells(c, book, e) ==
    \A p \in Params :
        /\ p \in e.moved => p \in book
        /\ p \in book => p \in e.moved \/ Doubtful(c, p)

(* What the book calls gone the checker does too, and so nothing that follows *)
(* uses it: what is in doubt stays in doubt.                                  *)
Marked(c) ==
    /\ c.ends # {} =>
          \A p \in Params :
             /\ p \in c.book => p \in c.gone /\ p \in Uses(c)
             /\ c.direct[p] = "always" \/ c.forwarded[p] = "always" => p \in c.gone
    /\ \A x \in c.exits : \A p \in Params : p \in x.book => p \in c.book /\ p \in Uses(c)

Booked(c) ==
    /\ Marked(c)
    /\ \A e \in c.ends : Tells(c, c.book, e)
    /\ \A x \in c.exits : Tells(c, x.book, x)

LEMMA LeavesBooked == ASSUME NEW c \in Leaves PROVE Booked(c)
<1>1. Booked(Nothing)
  BY LeafFields DEF Booked, Marked, Tells, Untouched
<1>2. ASSUME NEW q \in Params PROVE Booked(MovePart(q))
  <2>1. \A e \in MovePart(q).ends : e.moved = {q}
    BY MoveFields
  <2> QED BY <2>1, LeafFields, MoveFields, UsesMeans DEF Booked, Marked, Tells
<1>3. ASSUME NEW s PROVE Booked(TryPart(s))
  <2>1. /\ TryPart(s).book = {} /\ TryPart(s).gone = s
        /\ \A e \in TryPart(s).ends : e.moved = {}
        /\ \A x \in TryPart(s).exits : x.moved = {} /\ x.book = {}
    BY DEF TryPart
  <2> QED BY <2>1, LeafFields DEF Booked, Marked, Tells
<1>4. ASSUME NEW c1, c1 = ReturnPart \/ c1 = PanicPart PROVE Booked(c1)
  <2>1. /\ \A x \in ReturnPart.exits : x.moved = {} /\ x.book = {}
        /\ \A x \in PanicPart.exits : x.moved = {} /\ x.book = {}
    BY DEF ReturnPart, PanicPart, Nothing
  <2>2. c1.ends = {} /\ \A x \in c1.exits : x.moved = {} /\ x.book = {}
    BY <2>1, <1>4, LeafFields
  <2> QED BY <2>2 DEF Booked, Marked, Tells
<1> QED BY <1>1, <1>2, <1>3, <1>4 DEF Leaves

LEMMA CallBooked ==
    ASSUME NEW m \in Part, Fair(m), Booked(m), Accepted(m), m.ends # {}, NEW pos \in Positions
    PROVE  Booked(CallPart(m, pos))
<1> DEFINE c == CallPart(m, pos)
<1>1. ASSUME NEW p \in Params
      PROVE  pos[p] \in Params /\ ~Doubtful(m, pos[p])
  <2>1. pos[p] \in Params
    BY CallFields
  <2> QED BY <2>1, Verdicts DEF Accepted, Fair, Doubtful, Effect, Verdict
<1>2. \A p \in Params : p \in Uses(c) <=> pos[p] \in Uses(m)
  BY <1>1, CallFields, Verdicts, UsesMeans
<1>3. \A p \in Params : p \in c.gone <=> pos[p] \in Uses(m)
  BY <1>1, CallFields, Verdicts
<1>4. \A p \in Params : \A s : p \in Passed(pos, s) <=> pos[p] \in s
  BY CallFields
<1>5. c.book = Passed(pos, m.book)
  BY CallFields
<1>6. ASSUME NEW p \in Params
      PROVE  /\ p \in c.book => p \in c.gone /\ p \in Uses(c)
             /\ c.direct[p] = "always" \/ c.forwarded[p] = "always" => p \in c.gone
  <2>1. p \in c.book => p \in c.gone /\ p \in Uses(c)
    BY <1>1, <1>2, <1>3, <1>4, <1>5 DEF Booked, Marked
  <2>2. c.direct[p] = "always" \/ c.forwarded[p] = "always" => p \in c.gone
    BY CallFields
  <2> QED BY <2>1, <2>2
<1>7. ASSUME NEW y \in c.exits, NEW p \in Params, p \in y.book
      PROVE  p \in c.book /\ p \in Uses(c)
  <2>1. PICK x \in m.exits : y.book = Passed(pos, x.book)
    BY CallPaths DEF RenamedExit
  <2> QED BY <2>1, <1>1, <1>2, <1>4, <1>5, <1>7 DEF Booked, Marked
<1>8. ASSUME NEW y \in c.ends PROVE Tells(c, c.book, y)
  <2>1. PICK e \in m.ends : y.moved = Passed(pos, e.moved)
    BY CallPaths DEF Renamed
  <2> QED BY <2>1, <1>1, <1>4, <1>5 DEF Booked, Tells
<1>9. ASSUME NEW y \in c.exits PROVE Tells(c, y.book, y)
  <2>1. PICK x \in m.exits : y.moved = Passed(pos, x.moved) /\ y.book = Passed(pos, x.book)
    BY CallPaths DEF Renamed, RenamedExit
  <2> QED BY <2>1, <1>1, <1>4 DEF Booked, Tells
<1> QED BY <1>6, <1>7, <1>8, <1>9 DEF Booked, Marked

LEMMA SequenceLaws ==
    ASSUME NEW l \in Effect, NEW r \in Effect
    PROVE  /\ r = "never" => SequenceEffect(l, r) = l
           /\ r = "conditional" /\ l # "always" => SequenceEffect(l, r) = "conditional"
  BY DEF SequenceEffect, Effect

LEMMA SequenceBooked ==
    ASSUME NEW a \in Part, NEW b \in Part, Booked(a), Booked(b), MayFollow(a, b)
    PROVE  Booked(Sequence(a, b))
<1> DEFINE c == Sequence(a, b)
<1>1. a.ends # {} /\ Uses(b) \cap a.gone = {}
  BY DEF MayFollow
<1>2. \A p \in Params :
        /\ p \in a.book => p \in a.gone /\ p \in Uses(a)
        /\ a.direct[p] = "always" \/ a.forwarded[p] = "always" => p \in a.gone
  BY <1>1 DEF Booked, Marked
<1>3. ASSUME NEW p \in Params
      PROVE  /\ c.direct[p] = SequenceEffect(a.direct[p], b.direct[p])
             /\ c.forwarded[p] = SequenceEffect(a.forwarded[p], b.forwarded[p])
             /\ a.direct[p] \in Effect /\ b.direct[p] \in Effect
             /\ a.forwarded[p] \in Effect /\ b.forwarded[p] \in Effect
  BY SequenceFields, Verdicts
<1>4. \A p \in Params : p \in Uses(c) <=> p \in Uses(a) \/ p \in Uses(b)
  BY <1>3, EffectLaws, UsesMeans
<1>5. ASSUME NEW p \in Params, p \in a.gone PROVE Doubtful(c, p) <=> Doubtful(a, p)
  <2>1. b.direct[p] = "never" /\ b.forwarded[p] = "never"
    BY <1>1, <1>5, UsesMeans
  <2> QED BY <2>1, <1>3, SequenceLaws DEF Doubtful
<1>6. ASSUME NEW p \in Params, p \in Uses(b), Doubtful(b, p) PROVE Doubtful(c, p)
  <2>1. a.direct[p] # "always" /\ a.forwarded[p] # "always"
    BY <1>1, <1>2, <1>6
  <2> QED BY <2>1, <1>3, <1>6, SequenceLaws DEF Doubtful
<1>7. c.book = a.book \cup b.book /\ c.gone = a.gone \cup b.gone
  BY SequenceFields
<1>8. c.ends # {} => b.ends # {}
  BY SequencePaths
<1>9. ASSUME NEW p \in Params, c.ends # {}
      PROVE  /\ p \in c.book => p \in c.gone /\ p \in Uses(c)
             /\ c.direct[p] = "always" \/ c.forwarded[p] = "always" => p \in c.gone
  <2>1. /\ p \in b.book => p \in b.gone /\ p \in Uses(b)
        /\ b.direct[p] = "always" \/ b.forwarded[p] = "always" => p \in b.gone
    BY <1>8, <1>9 DEF Booked, Marked
  <2>2. p \in c.book => p \in c.gone /\ p \in Uses(c)
    BY <2>1, <1>2, <1>4, <1>7
  <2>3. c.direct[p] = "always" \/ c.forwarded[p] = "always" => p \in c.gone
    BY <2>1, <1>2, <1>3, <1>7, EffectLaws
  <2> QED BY <2>2, <2>3
<1>10. ASSUME NEW y \in c.ends PROVE Tells(c, c.book, y)
  <2>1. PICK e \in a.ends, f \in b.ends : Through(y, e, f)
    BY SequencePaths
  <2>2. y.moved = f.moved \cup e.moved
    BY <2>1 DEF Through
  <2>3. Tells(a, a.book, e) /\ Tells(b, b.book, f)
    BY DEF Booked
  <2>4. \A p \in Params : p \in b.book => p \in Uses(b)
    BY <2>1 DEF Booked, Marked
  <2> QED BY <2>2, <2>3, <2>4, <1>2, <1>5, <1>6, <1>7 DEF Tells
<1>11. ASSUME NEW y \in a.exits
       PROVE  Tells(c, y.book, y) /\ \A p \in Params : p \in y.book => p \in c.book /\ p \in Uses(c)
  <2>1. Tells(a, y.book, y) /\ \A p \in Params : p \in y.book => p \in a.book
    BY DEF Booked, Marked
  <2> QED BY <2>1, <1>2, <1>4, <1>5, <1>7 DEF Tells
<1>12. ASSUME NEW y, NEW e \in a.ends, NEW x \in b.exits, Later(y, a, e, x)
       PROVE  Tells(c, y.book, y) /\ \A p \in Params : p \in y.book => p \in c.book /\ p \in Uses(c)
  <2>1. y.moved = x.moved \cup e.moved /\ y.book = x.book \cup a.book
    BY <1>12 DEF Later, Through
  <2>2. Tells(a, a.book, e) /\ Tells(b, x.book, x)
    BY DEF Booked
  <2>3. \A p \in Params : p \in x.book => p \in b.book /\ p \in Uses(b)
    BY DEF Booked, Marked
  <2> QED BY <2>1, <2>2, <2>3, <1>2, <1>4, <1>5, <1>6, <1>7 DEF Tells
<1>13. ASSUME NEW y \in c.exits
       PROVE  Tells(c, y.book, y) /\ \A p \in Params : p \in y.book => p \in c.book /\ p \in Uses(c)
  BY <1>11, <1>12, SequencePaths
<1> QED BY <1>9, <1>10, <1>13 DEF Booked, Marked

LEMMA BranchBooked ==
    ASSUME NEW a \in Part, NEW b \in Part, Booked(a), Booked(b), Shapes = {},
           Plain(a, b), PlainArms(a, b)
    PROVE  Booked(Branch(a, b))
<1> DEFINE c == Branch(a, b)
<1>1. /\ a.ends = {} => a.book = {}
      /\ b.ends = {} => b.book = {}
      /\ a.book = {} \/ b.exits = {}
  BY DEF PlainArms, LeavesTraces
<1>2. \A p \in Params : p \in Uses(a) /\ p \in Uses(b) => (p \in a.book <=> p \in b.book)
  BY DEF Plain, TwoWays
<1>3. \A p \in Params : /\ p \in a.book => p \in Uses(a) /\ p \in a.gone /\ a.ends # {}
                        /\ p \in b.book => p \in Uses(b) /\ p \in b.gone /\ b.ends # {}
  BY <1>1 DEF Booked, Marked
<1>4. ASSUME NEW p \in Params
      PROVE  /\ c.direct[p] = BranchEffect(a.direct[p], b.direct[p])
             /\ c.forwarded[p] = BranchEffect(a.forwarded[p], b.forwarded[p])
             /\ a.direct[p] \in Effect /\ b.direct[p] \in Effect
             /\ a.forwarded[p] \in Effect /\ b.forwarded[p] \in Effect
  BY BranchFields, Verdicts
<1>5. \A p \in Params : p \in Uses(c) <=> p \in Uses(a) \/ p \in Uses(b)
  BY <1>4, EffectLaws, UsesMeans
<1>6. ASSUME NEW p \in Params, ~Doubtful(c, p)
      PROVE  /\ ~Doubtful(a, p) /\ ~Doubtful(b, p)
             /\ p \in Uses(a) <=> p \in Uses(b)
  BY <1>4, <1>6, UsesMeans DEF Doubtful, BranchEffect
<1>7. c.book = a.book \cup b.book /\ c.gone = MergedGone(a, b) /\ c.ends = a.ends \cup b.ends
  BY BranchFields, BranchPaths
<1>8. \A p \in Params : p \in c.book =>
        /\ p \in c.gone /\ p \in Uses(c)
        /\ Doubtful(c, p) \/ (p \in a.book /\ p \in b.book)
  BY <1>2, <1>3, <1>5, <1>6, <1>7 DEF MergedGone
<1>9. ASSUME NEW p \in Params, c.ends # {}, c.direct[p] = "always" \/ c.forwarded[p] = "always"
      PROVE  p \in c.gone
  <2>1. \/ a.direct[p] = "always" /\ b.direct[p] = "always"
        \/ a.forwarded[p] = "always" /\ b.forwarded[p] = "always"
    BY <1>4, <1>9, EffectLaws
  <2>2. CASE a.ends # {}
    BY <2>1, <2>2, <1>7 DEF Booked, Marked, MergedGone
  <2>3. CASE b.ends # {}
    BY <2>1, <2>3, <1>7 DEF Booked, Marked, MergedGone
  <2> QED BY <2>2, <2>3, <1>7, <1>9
<1>10. \A e \in a.ends : Tells(a, a.book, e)
  BY DEF Booked
<1>11. \A e \in b.ends : Tells(b, b.book, e)
  BY DEF Booked
<1>12. ASSUME NEW e \in c.ends PROVE Tells(c, c.book, e)
  <2>1. CASE e \in a.ends
    BY <2>1, <1>6, <1>7, <1>8, <1>10 DEF Tells
  <2>2. CASE e \in b.ends
    BY <2>2, <1>6, <1>7, <1>8, <1>11 DEF Tells
  <2> QED BY <2>1, <2>2, <1>7
<1>13. ASSUME NEW d, d = a \/ d = b, NEW x \in d.exits
       PROVE  Tells(c, x.book, x) /\ \A p \in Params : p \in x.book => p \in c.book /\ p \in Uses(c)
  <2>1. Tells(d, x.book, x) /\ \A p \in Params : p \in x.book => p \in d.book /\ p \in Uses(d)
    BY <1>13 DEF Booked, Marked
  <2> QED BY <2>1, <1>5, <1>6, <1>7, <1>13 DEF Tells
<1>14. ASSUME NEW y, NEW x \in b.exits, Later(y, a, Untouched, x)
       PROVE  y.moved = x.moved /\ y.book = x.book
  BY <1>1, <1>14 DEF Later, Through, Untouched
<1>15. ASSUME NEW y \in c.exits
       PROVE  Tells(c, y.book, y) /\ \A p \in Params : p \in y.book => p \in c.book /\ p \in Uses(c)
  <2>1. CASE y \in a.exits
    BY <2>1, <1>13
  <2>2. CASE \E x \in b.exits : Later(y, a, Untouched, x)
    BY <2>2, <1>13, <1>14 DEF Tells
  <2> QED BY <2>1, <2>2, BranchPaths
<1> QED BY <1>8, <1>9, <1>12, <1>15 DEF Booked, Marked

LEMMA LoopBooked ==
    ASSUME NEW a \in Part, Booked(a), MayLoop(a), ~LeavesTraces(a)
    PROVE  Booked(Loop(a))
<1>1. \A p \in Params : p \notin a.book
  BY DEF MayLoop, LeavesTraces, Booked, Marked
<1>2. \A x \in a.exits : \A p \in Params : p \notin x.book /\ p \notin x.moved
  BY <1>1 DEF Booked, Marked, Tells
<1>3. /\ Loop(a).book = a.book /\ Loop(a).exits = a.exits /\ Loop(a).ends = {Untouched}
      /\ \A p \in Params : Loop(a).direct[p] # "always" /\ Loop(a).forwarded[p] # "always"
  BY LoopFields, EffectLaws, Verdicts
<1> QED BY <1>1, <1>2, <1>3 DEF Booked, Marked, Tells, Untouched

LEMMA BuiltBooked ==
    ASSUME Shapes = {},
           NEW P, \A a \in P : Typed(a) /\ Fair(a) /\ Booked(a), NEW c, Built(P, c)
    PROVE  Booked(c)
  BY LeavesBooked, CallBooked, SequenceBooked, BranchBooked, LoopBooked DEF Built, Typed

-----------------------------------------------------------------------------
(* The specification. *)

(* A sequence over any set is one over every set that holds its elements. *)
LEMMA SequenceOver ==
    ASSUME NEW U, NEW T, NEW s \in Seq(U), \A i \in DOMAIN s : s[i] \in T
    PROVE  s \in Seq(T)
  OBVIOUS

(* A step leaves two sequences of parts. *)
LEMMA StepSequences ==
    ASSUME open \in Seq(Part), macros \in Seq(Part), left \in 0..MaxLeaves, Next,
           \A c \in Parts' : c \in Part
    PROVE  open' \in Seq(Part) /\ macros' \in Seq(Part) /\ left' \in 0..MaxLeaves
<1>1. \A i \in DOMAIN open' : open'[i] \in Part
  BY DEF Parts
<1>2. \A i \in DOMAIN macros' : macros'[i] \in Part
  BY DEF Parts
<1>3. ASSUME NEW part, Push(part)
      PROVE  open' \in Seq(Part) /\ macros' \in Seq(Part) /\ left' \in 0..MaxLeaves
  <2>1. open \in Seq(Part \cup {part})
    BY SequenceOver
  <2>2. open' \in Seq(Part \cup {part})
    BY <2>1, <1>3 DEF Push
  <2> QED BY <2>2, <1>1, <1>3, SequenceOver, MacroAssumption DEF Push
<1>4. ASSUME NEW part, Join(part), Len(open) >= 2
      PROVE  open' \in Seq(Part) /\ macros' \in Seq(Part) /\ left' \in 0..MaxLeaves
  <2>1. SubSeq(open, 1, Len(open) - 2) \in Seq(Part \cup {part})
    <3>1. SubSeq(open, 1, Len(open) - 2) \in Seq(Part)
      BY <1>4
    <3> QED BY <3>1, SequenceOver
  <2>2. open' \in Seq(Part \cup {part})
    BY <2>1, <1>4 DEF Join
  <2> QED BY <2>2, <1>1, <1>4, SequenceOver DEF Join
<1>5. CASE While
  <2> DEFINE l == Loop(open[Len(open)])
  <2>1. Len(open) >= 1 /\ open' = [open EXCEPT ![Len(open)] = l]
    BY <1>5 DEF While
  <2>2. open \in Seq(Part \cup {l})
    BY SequenceOver
  <2>3. l \in Part \cup {l}
    OBVIOUS
  <2> HIDE DEF l
  <2>4. open' \in Seq(Part \cup {l})
    BY <2>1, <2>2, <2>3
  <2> QED BY <2>4, <1>1, <1>5, SequenceOver DEF While
<1>6. CASE Define
  BY <1>6, <1>1, <1>2 DEF Define
<1> QED
  BY <1>3, <1>4, <1>5, <1>6
     DEF Next, Skip, TryValue, Return, Panic, Move, Try, Call, Follow, IfElse

(* What is left of the parts, when nothing happens. *)
LEMMA StutterParts == vars' = vars => Parts' = Parts
  BY DEF vars, Parts

LEMMA InitParts == Init => Parts = {}
  BY DEF Init, Parts

(* Every part keeps its shape, and each `?` and what it gives back are seen *)
(* by macroHasTry and macroParamIsTrySource, however deep in calls of macros *)
(* it stands.                                                                *)
THEOREM TypeCorrect == Spec => []TypeOK
<1>1. Init => TypeOK
  BY InitParts, MacroAssumption DEF Init, TypeOK
<1>2. ASSUME TypeOK, [Next]_vars PROVE TypeOK'
  <2>1. CASE vars' = vars
    BY <2>1, <1>2, StutterParts DEF TypeOK, vars, Seen
  <2>2. CASE Next
    <3>1. \A c \in Parts : Typed(c)
      BY <1>2 DEF TypeOK, Typed, Parts
    <3>2. \A c \in Parts' : Built(Parts, c)
      BY <1>2, <2>2, StepBuilds DEF TypeOK
    <3>3. \A c \in Parts' : Typed(c)
      BY <3>1, <3>2, BuiltTyped
    <3>4. open' \in Seq(Part) /\ macros' \in Seq(Part) /\ left' \in 0..MaxLeaves
      BY <1>2, <2>2, <3>3, StepSequences DEF TypeOK, Typed
    <3> QED BY <3>3, <3>4 DEF TypeOK, Typed
  <2> QED BY <1>2, <2>1, <2>2
<1> QED BY <1>1, <1>2, PTL DEF Spec

(* The parts of a step are built from those before it, or are the same. *)
LEMMA PartsBuilt ==
    ASSUME TypeOK, [Next]_vars
    PROVE  /\ \A c \in Parts : Typed(c)
           /\ \A c \in Parts' : Built(Parts, c)
<1>1. \A c \in Parts : Typed(c)
  BY DEF TypeOK, Typed, Parts
<1>2. CASE vars' = vars
  BY <1>1, <1>2, StutterParts DEF Built
<1>3. CASE Next
  BY <1>1, <1>3, StepBuilds DEF TypeOK
<1> QED BY <1>2, <1>3

LEMMA MacrosAreParts == \A k \in DOMAIN macros : macros[k] \in Parts
  BY DEF Parts

(* What a call is said to do to an argument it does on every path that comes *)
(* back: "always" uses it, "never" does not.  All shapes are allowed.        *)
THEOREM VerdictsHold == Spec => []VerdictRight
<1> DEFINE Inv == \A c \in Parts : Sound(c)
<1>1. Init => Inv
  BY InitParts
<1>2. TypeOK /\ Inv /\ [Next]_vars => Inv'
  BY PartsBuilt, BuiltSound
<1>3. TypeOK /\ Inv => VerdictRight
  BY MacrosAreParts, SoundVerdict DEF VerdictRight, TypeOK
<1> QED BY <1>1, <1>2, <1>3, TypeCorrect, PTL DEF Spec

(* Every part has a path, uses what it is said to use on some path and spares *)
(* what it does not always consume on some.                                   *)
LEMMA AllFair ==
    ASSUME "two-ways" \notin Shapes
    PROVE  Spec => [](\A c \in Parts : Fair(c))
<1> DEFINE Inv == \A c \in Parts : Fair(c)
<1>1. Init => Inv
  BY InitParts
<1>2. TypeOK /\ Inv /\ [Next]_vars => Inv'
  BY PartsBuilt, BuiltFair
<1> HIDE DEF Inv
<1>3. Spec => []Inv
  BY <1>1, <1>2, TypeCorrect, PTL DEF Spec
<1> QED BY <1>3 DEF Inv

(* A macro that is refused for consuming a parameter on some paths only has a *)
(* path that uses it and one that does not, if no parameter is consumed in    *)
(* two ways.                                                                  *)
THEOREM RefusalsHold ==
    ASSUME "two-ways" \notin Shapes
    PROVE  Spec => []RefusedRightly
<1>1. TypeOK /\ (\A c \in Parts : Fair(c)) => RefusedRightly
  BY MacrosAreParts, FairVerdict DEF RefusedRightly, TypeOK, SomeUses, SomeSpares
<1> QED BY <1>1, AllFair, TypeCorrect, PTL

(* The invariant behind the releases: of every part the emitter's book tells *)
(* what its paths have moved away, and its `?` all give back the same.       *)
BooksAgree == \A c \in Parts : Booked(c) /\ OneSource(c)

THEOREM BooksKept ==
    ASSUME Shapes = {}
    PROVE  Spec => []BooksAgree
<1> DEFINE Even == \A c \in Parts : Fair(c)
<1>1. Init => BooksAgree
  BY InitParts DEF BooksAgree
<1>2. TypeOK /\ Even /\ BooksAgree /\ [Next]_vars => BooksAgree'
  BY PartsBuilt, BuiltBooked, BuiltOneSource DEF BooksAgree
<1>3. Spec => []Even
  BY AllFair
<1> QED BY <1>1, <1>2, <1>3, TypeCorrect, PTL DEF Spec

(* A parameter of an accepted macro is not in doubt. *)
LEMMA NoDoubt ==
    ASSUME NEW m \in Part, Fair(m), Accepted(m), NEW p \in Params
    PROVE  ~Doubtful(m, p)
  BY Verdicts DEF Accepted, Fair, Doubtful, Effect, Verdict

LEMMA TellsExactly ==
    ASSUME NEW m \in Part, Fair(m), Accepted(m), NEW e, NEW book,
           e.moved \subseteq Params, book \subseteq Params, Tells(m, book, e)
    PROVE  e.moved = book
  BY NoDoubt DEF Tells

(* Behind a call of an accepted macro the emitter's book holds exactly what  *)
(* each path has moved away.                                                 *)
THEOREM BookHolds ==
    ASSUME Shapes = {}
    PROVE  Spec => []BookRight
<1> DEFINE Even == \A c \in Parts : Fair(c)
<1>1. ASSUME TypeOK, Even, BooksAgree PROVE BookRight
  <2> SUFFICES ASSUME NEW k \in DOMAIN macros, Accepted(macros[k]), NEW e \in macros[k].ends
               PROVE  e.moved = macros[k].book
    BY DEF BookRight
  <2>1. macros[k] \in Part /\ Fair(macros[k]) /\ Tells(macros[k], macros[k].book, e)
    BY <1>1, MacrosAreParts DEF TypeOK, BooksAgree, Booked
  <2>2. e.moved \subseteq Params /\ macros[k].book \subseteq Params
    BY <2>1, PartFields DEF Path
  <2> QED BY <2>1, <2>2, TellsExactly
<1>2. Spec => []Even
  BY AllFair
<1> QED BY <1>1, <1>2, BooksKept, TypeCorrect, PTL

(* Where an accepted macro leaves the caller's function, exactly what the    *)
(* caller still owns is released: nothing moved, nothing given back, nothing *)
(* twice, and nothing left behind.                                           *)
THEOREM ExitsHold ==
    ASSUME Shapes = {}
    PROVE  Spec => []ExitsClean
<1> DEFINE Even == \A c \in Parts : Fair(c)
<1>1. ASSUME TypeOK, Even, BooksAgree PROVE ExitsClean
  <2> SUFFICES ASSUME NEW k \in DOMAIN macros, Accepted(macros[k]),
                      NEW x \in macros[k].exits, x.by # "panic"
               PROVE  Released(macros[k], x) = Params \ (x.moved \cup x.source)
    BY DEF ExitsClean
  <2> DEFINE m == macros[k]
  <2>1. m \in Part /\ Fair(m) /\ Tells(m, x.book, x) /\ OneSource(m)
    BY <1>1, MacrosAreParts DEF TypeOK, BooksAgree, Booked
  <2>2. x \in Exit
    BY <2>1, PartFields
  <2>3. x.moved = x.book
    BY <2>1, <2>2, TellsExactly DEF Exit
  <2>4. CASE x.by = "return"
    BY <2>1, <2>3, <2>4 DEF Released, OneSource
  <2>5. CASE x.by = "try"
    BY <2>1, <2>3, <2>5 DEF Released, OneSource
  <2> QED BY <2>2, <2>4, <2>5 DEF Exit
<1>2. Spec => []Even
  BY AllFair
<1> QED BY <1>1, <1>2, BooksKept, TypeCorrect, PTL
=============================================================================
