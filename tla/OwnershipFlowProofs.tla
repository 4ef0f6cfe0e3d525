------------------------ MODULE OwnershipFlowProofs ------------------------
(* Proofs about OwnershipFlow, for every set of bindings and every bound. *)
EXTENDS OwnershipFlow, SequenceTheorems, FiniteSetTheorems, TLAPS

----------------------------------------------------------------------------
(* Types of the operators on flows *)

LEMMA SetInTyped ==
    ASSUME NEW X, NEW f \in [Vars -> X], NEW S, NEW x \in X
    PROVE  /\ SetIn(f, S, x) \in [Vars -> X]
           /\ \A v \in Vars : SetIn(f, S, x)[v] = IF v \in S THEN x ELSE f[v]
BY DEF SetIn

LEMMA SetPathsTyped ==
    ASSUME NEW P \in SUBSET Valuation, NEW S, NEW x \in Value
    PROVE  /\ SetPaths(P, S, x) \in SUBSET Valuation
           /\ \A q \in SetPaths(P, S, x) : \E p \in P : q = SetIn(p, S, x)
           /\ SetPaths(P, S, x) = {} <=> P = {}
<1>1. \A p \in P : SetIn(p, S, x) \in Valuation
  BY SetInTyped DEF Valuation
<1> QED  BY <1>1 DEF SetPaths

LEMMA FlowOpsTyped ==
    ASSUME NEW F \in Flow, NEW W \in SUBSET Vars
    PROVE  /\ ConsumeIn(F, W) \in Flow
           /\ \A v \in Vars : DefineIn(F, v) \in Flow /\ DeclareIn(F, v) \in Flow
           /\ PopIn(F, W) \in Flow
           /\ Dead(F) \in Flow
<1>1. /\ "absent" \in SymState /\ "active" \in SymState
      /\ "consumed" \in SymState /\ "uninitialized" \in SymState
      /\ "none" \in Value /\ "live" \in Value
      /\ "gone" \in Value /\ "uninit" \in Value
  BY DEF SymState, Value
<1>2. /\ F.sym \in [Vars -> SymState] /\ F.rel \in SUBSET Vars
      /\ F.paths \in SUBSET Valuation
  BY DEF Flow
<1>3. ConsumeIn(F, W) \in Flow
  BY <1>1, <1>2, SetInTyped, SetPathsTyped DEF ConsumeIn, Flow
<1>4. ASSUME NEW v \in Vars PROVE DefineIn(F, v) \in Flow
  BY <1>1, <1>2, SetInTyped, SetPathsTyped DEF DefineIn, Flow
<1>5. ASSUME NEW v \in Vars PROVE DeclareIn(F, v) \in Flow
  BY <1>1, <1>2, SetInTyped, SetPathsTyped DEF DeclareIn, Flow
<1>6. PopIn(F, W) \in Flow
  BY <1>1, <1>2, SetInTyped, SetPathsTyped DEF PopIn, Flow
<1>7. Dead(F) \in Flow
  BY DEF Dead, Flow
<1> QED  BY <1>3, <1>4, <1>5, <1>6, <1>7

(* The checker's intersection returns one of the states it is given,       *)
(* `uninitialized` if it is given that, and `active` or `absent` only if   *)
(* every branch agrees.                                                    *)
LEMMA IntersectProperties ==
    ASSUME NEW xs \in SUBSET SymState, xs # {}
    PROVE  /\ IntersectStates(xs) \in SymState
           /\ IntersectStates(xs) \in {"absent", "active"} => xs = {IntersectStates(xs)}
           /\ IntersectStates(xs) = "uninitialized" => "uninitialized" \in xs
           /\ (IntersectStates(xs) = "consumed" /\ "consumed" \notin xs) =>
                \E x, y \in xs : x # y /\ "uninitialized" \notin xs
<1>1. CASE \A x, y \in xs : x = y
  <2>1. PICK z \in xs : xs = {z}
    BY <1>1
  <2>2. (CHOOSE x \in xs : TRUE) = z
    BY <2>1
  <2>3. IntersectStates(xs) = z
    BY <1>1, <2>2 DEF IntersectStates
  <2> QED  BY <2>1, <2>3
<1>2. CASE ~ \A x, y \in xs : x = y
  <2>1. IntersectStates(xs) = IF "uninitialized" \in xs THEN "uninitialized" ELSE "consumed"
    BY <1>2 DEF IntersectStates
  <2> QED  BY <1>2, <2>1 DEF SymState
<1> QED  BY <1>1, <1>2

LEMMA MergeTyped ==
    ASSUME NEW pre \in Flow, NEW checked \in SUBSET Arm, NEW emitted \in SUBSET Arm
    PROVE  MergeFlow(pre, checked, emitted) \in Flow
<1>1. \A a \in Arm : /\ a.flow \in Flow /\ a.flow.sym \in [Vars -> SymState]
                     /\ a.flow.rel \in SUBSET Vars
                     /\ a.flow.paths \in SUBSET Valuation
  BY DEF Arm, Flow
<1>2. MergeSym(pre.sym, checked) \in [Vars -> SymState]
  <2> DEFINE live == {a \in checked : a.falls}
  <2>1. pre.sym \in [Vars -> SymState]
    BY DEF Flow
  <2>2. ASSUME NEW v \in Vars, live # {}
        PROVE  IntersectStates({a.flow.sym[v] : a \in live}) \in SymState
    <3>1. {a.flow.sym[v] : a \in live} \in SUBSET SymState
      BY <1>1
    <3>2. {a.flow.sym[v] : a \in live} # {}
      BY <2>2
    <3> QED  BY <3>1, <3>2, IntersectProperties
  <2> QED  BY <2>1, <2>2 DEF MergeSym
<1>3. MergeRel(pre.rel, emitted) \in SUBSET Vars
  BY <1>1 DEF MergeRel, LiveArms, Flow
<1>4. MergePaths(emitted) \in SUBSET Valuation
  <2>1. "gone" \in Value
    BY DEF Value
  <2>2. ASSUME NEW a \in emitted
        PROVE  SetPaths(a.flow.paths, Balance(emitted, a), "gone") \in SUBSET Valuation
    BY <1>1, <2>1, SetPathsTyped
  <2> QED  BY <2>2 DEF MergePaths, LiveArms
<1> QED  BY <1>2, <1>3, <1>4 DEF MergeFlow, Flow

----------------------------------------------------------------------------
(* Types of the parts of the stack *)

LEMMA TopTyped ==
    ASSUME stack \in Seq(Frame), stack # <<>>
    PROVE  /\ Len(stack) \in Nat \ {0}
           /\ Len(stack) \in DOMAIN stack
           /\ Top \in Frame
           /\ Pop \in Seq(Frame)
           /\ Len(Pop) = Len(stack) - 1
           /\ \A i \in 1 .. Len(stack) - 1 : Pop[i] = stack[i]
<1>1. Len(stack) \in Nat \ {0} /\ DOMAIN stack = 1 .. Len(stack)
  BY EmptySeq, LenProperties
<1>2. \A i \in 1 .. Len(stack) : stack[i] \in Frame
  BY ElementOfSeq
<1>3. Top \in Frame
  BY <1>1, <1>2 DEF Top
<1>4. /\ SubSeq(stack, 1, Len(stack) - 1) \in Seq(Frame)
      /\ Len(SubSeq(stack, 1, Len(stack) - 1)) = Len(stack) - 1
      /\ \A i \in 1 .. Len(stack) - 1 : SubSeq(stack, 1, Len(stack) - 1)[i] = stack[i]
  <2>1. 1 \in Int /\ Len(stack) - 1 \in Int
    BY <1>1
  <2>2. \A i \in 1 .. Len(stack) - 1 : stack[i] \in Frame
    BY <1>1, <1>2
  <2> HIDE DEF Frame
  <2>3. /\ SubSeq(stack, 1, Len(stack) - 1) \in Seq(Frame)
        /\ Len(SubSeq(stack, 1, Len(stack) - 1)) =
             IF 1 <= Len(stack) - 1 THEN Len(stack) - 1 - 1 + 1 ELSE 0
        /\ \A i \in 1 .. Len(stack) - 1 - 1 + 1 :
             SubSeq(stack, 1, Len(stack) - 1)[i] = stack[1 + i - 1]
    BY <2>1, <2>2, SubSeqProperties
  <2> QED  BY <1>1, <2>3
<1> QED  BY <1>1, <1>3, <1>4 DEF Pop

LEMMA LoopTyped ==
    ASSUME stack \in Seq(Frame), \A i \in DOMAIN stack : stack[i].loop \in 0 .. i
    PROVE  /\ CurrentLoop \in 0 .. Len(stack)
           /\ InLoop => /\ CurrentLoop \in 1 .. Len(stack)
                        /\ stack # <<>>
                        /\ LoopFrame \in Frame
<1>1. CASE stack = <<>>
  BY <1>1, EmptySeq DEF CurrentLoop, InLoop
<1>2. CASE stack # <<>>
  <2>1. Top.loop \in 0 .. Len(stack)
    BY <1>2, TopTyped DEF Top
  <2>2. CurrentLoop = Top.loop /\ CurrentLoop \in 0 .. Len(stack)
    BY <1>2, <2>1 DEF CurrentLoop
  <2>3. InLoop => CurrentLoop \in 1 .. Len(stack)
    BY <2>2 DEF InLoop
  <2> QED  BY <1>2, <2>2, <2>3, ElementOfSeq DEF LoopFrame
<1> QED  BY <1>1, <1>2

(* A state kept by name is a state. *)
LEMMA ByNameTyped ==
    ASSUME TypeOK, NEW sym \in [Vars -> SymState]
    PROVE  ByName(sym) \in [Vars -> SymState]
<1>1. \A v \in Vars : name[v] \in Vars
  BY OwnershipAssumption DEF TypeOK
<1> QED  BY <1>1 DEF ByName

LEMMA SavedTyped ==
    ASSUME TypeOK, NEW F \in Flow
    PROVE  Saved(F) \in Flow
<1>1. F.sym \in [Vars -> SymState]
  BY DEF Flow
<1>2. ByName(F.sym) \in [Vars -> SymState]
  BY <1>1, ByNameTyped
<1> QED  BY <1>2 DEF Saved, Flow

(* Every fault the operators report is a fault about a binding. *)
LEMMA FaultsTyped ==
    ASSUME NEW P, NEW S \in SUBSET Vars, NEW F
    PROVE  /\ Stale(P, S) \subseteq FaultKind \X Vars
           /\ Doubled(P, S) \subseteq FaultKind \X Vars
           /\ Leaked(P, S) \subseteq FaultKind \X Vars
           /\ Carried(F, P) \subseteq FaultKind \X Vars
           /\ \A G : EndFaults(G) \subseteq FaultKind \X Vars
<1>1. \A kind \in FaultKind, T \in SUBSET Vars : Faulty(kind, T) \subseteq FaultKind \X Vars
  BY DEF Faulty
<1>2. {"use-after-move", "use-before-init", "double-release", "leak", "loop-carried"} = FaultKind
  BY DEF FaultKind
<1>3. \A Q, T : T \in SUBSET Vars => Doubled(Q, T) \cup Leaked(Q, T) \subseteq FaultKind \X Vars
  BY <1>1, <1>2 DEF Doubled, Leaked
<1>4. Stale(P, S) \subseteq FaultKind \X Vars
  BY <1>1, <1>2 DEF Stale
<1>5. Carried(F, P) \subseteq FaultKind \X Vars
  BY <1>1, <1>2 DEF Carried, Open
<1>6. \A G : EndFaults(G) \subseteq FaultKind \X Vars
  BY <1>3 DEF EndFaults, Locals, Open
<1> QED  BY <1>3, <1>4, <1>5, <1>6

LEMMA BalanceFaultsTyped ==
    ASSUME NEW arms \in SUBSET Arm
    PROVE  BalanceFaults(arms) \subseteq FaultKind \X Vars
<1>1. \A a \in arms : Balance(arms, a) \in SUBSET Vars
  BY DEF Balance, MergeRel, LiveArms, Arm, Flow
<1>2. \A a \in arms : Doubled(a.flow.paths, Balance(arms, a)) \subseteq FaultKind \X Vars
  BY <1>1, FaultsTyped
<1> QED  BY <1>2 DEF BalanceFaults, LiveArms

(* The end of a body leaves a flow, and an arm, of the right shape. *)
LEMMA EndOfBodyTyped ==
    ASSUME TypeOK, NEW G \in Flow
    PROVE  EndOfBody(G) \in Flow
BY FlowOpsTyped DEF TypeOK, EndOfBody, Locals, Open

LEMMA ThisArmTyped ==
    ASSUME TypeOK, stack # <<>>
    PROVE  /\ Top.pre \in Flow /\ Top.arms \in SUBSET Arm
           /\ Top.breaks \in SUBSET Valuation /\ Top.back \in SUBSET Valuation
           /\ Saved(Top.pre) \in Flow
           /\ ThisArm \in Arm /\ SavedArm \in Arm /\ SkipArm \in Arm
<1>1. Top \in Frame
  BY TopTyped DEF TypeOK
<1>2. /\ Top.pre \in Flow /\ Top.arms \in SUBSET Arm
      /\ Top.breaks \in SUBSET Valuation /\ Top.back \in SUBSET Valuation
  BY <1>1 DEF Frame
<1>3. term \in BOOLEAN /\ (~term) \in BOOLEAN
  BY DEF TypeOK
<1>4. EndOfBody(Top.pre) \in Flow /\ Saved(Top.pre) \in Flow
  BY <1>2, EndOfBodyTyped, SavedTyped
<1>5. ThisArm \in Arm /\ SkipArm \in Arm
  BY <1>3, <1>4 DEF ThisArm, SkipArm, Arm
<1>6. ThisArm.flow \in Flow /\ Saved(ThisArm.flow) \in Flow
  BY <1>5, SavedTyped DEF Arm
<1>7. SavedArm \in Arm
  BY <1>5, <1>6 DEF SavedArm, Arm
<1> QED  BY <1>2, <1>4, <1>5, <1>7

----------------------------------------------------------------------------
(* Type correctness *)

LEMMA InitTyped == Init => TypeOK
<1> SUFFICES ASSUME Init PROVE TypeOK
  OBVIOUS
<1>1. cur \in Flow
  BY DEF Init, Flow, Valuation, Value, SymState
<1>2. stack \in Seq(Frame) /\ DOMAIN stack = {}
  BY EmptySeq, LenProperties DEF Init
<1>3. left \in 0 .. MaxStmts
  BY OwnershipAssumption DEF Init
<1>4. term \in BOOLEAN /\ faults \subseteq FaultKind \X Vars /\ name \in Namings
  BY DEF Init
<1> QED  BY <1>1, <1>2, <1>3, <1>4 DEF TypeOK

(* Steps that leave the stack alone. *)
LEMMA StatementTyped ==
    ASSUME TypeOK, UNCHANGED <<stack, name>>, cur' \in Flow, term' \in BOOLEAN,
           left > 0, left' = left - 1, faults' \subseteq FaultKind \X Vars
    PROVE  TypeOK'
BY OwnershipAssumption DEF TypeOK

(* Steps that close a body. *)
LEMMA CloseTyped ==
    ASSUME TypeOK, stack # <<>>, stack' = Pop, cur' \in Flow, term' \in BOOLEAN,
           UNCHANGED <<left, name>>, faults' \subseteq FaultKind \X Vars
    PROVE  TypeOK'
<1>1. /\ Pop \in Seq(Frame) /\ Len(Pop) = Len(stack) - 1
      /\ \A i \in 1 .. Len(stack) - 1 : Pop[i] = stack[i]
      /\ Len(stack) \in Nat \ {0}
  BY TopTyped DEF TypeOK
<1>2. DOMAIN stack = 1 .. Len(stack) /\ DOMAIN Pop = 1 .. Len(stack) - 1
  BY <1>1, LenProperties DEF TypeOK
<1>3. \A i \in DOMAIN Pop : Pop[i].loop \in 0 .. i
  BY <1>1, <1>2 DEF TypeOK
<1> QED  BY <1>1, <1>3 DEF TypeOK

(* Steps that change one frame of the stack. *)
LEMMA UpdateTyped ==
    ASSUME TypeOK, NEW k \in 1 .. Len(stack), NEW f \in Frame, f.loop = stack[k].loop,
           stack' = [stack EXCEPT ![k] = f], cur' \in Flow, term' \in BOOLEAN,
           left > 0, left' = left - 1, faults' \subseteq FaultKind \X Vars, UNCHANGED name
    PROVE  TypeOK'
<1>1. DOMAIN stack = 1 .. Len(stack) /\ Len(stack) \in Nat
  BY LenProperties DEF TypeOK
<1>2. stack' \in Seq(Frame)
  BY ExceptSeq DEF TypeOK
<1>3. \A i \in DOMAIN stack' : stack'[i].loop \in 0 .. i
  BY <1>1 DEF TypeOK
<1> QED  BY <1>2, <1>3, OwnershipAssumption DEF TypeOK

LEMMA NextTyped == TypeOK /\ [Next]_vars => TypeOK'
<1> SUFFICES ASSUME TypeOK, [Next]_vars PROVE TypeOK'
  OBVIOUS
<1> USE DEF Operands
<1>a. UNCHANGED name
  BY DEF Next, vars
<1> USE <1>a
<1>0. cur \in Flow /\ Open(cur) \in SUBSET Vars /\ Owned \in SUBSET Vars
  BY DEF TypeOK, Open, Owned
<1>1. ASSUME NEW v \in Owned, NEW W \in Operands, Let(v, W) PROVE TypeOK'
  <2>1. W \in SUBSET Vars /\ v \in Vars
    BY <1>0
  <2>2. cur' \in Flow
    BY <1>0, <1>1, <2>1, FlowOpsTyped DEF Let
  <2>3. faults' \subseteq FaultKind \X Vars
    BY <1>1, <2>1, FaultsTyped DEF Let, TypeOK
  <2> QED  BY <1>1, <2>2, <2>3, StatementTyped DEF Let, Statement, TypeOK
<1>2. ASSUME NEW s \in Scalars, Var(s) PROVE TypeOK'
  <2>1. cur' \in Flow
    BY <1>0, <1>2, FlowOpsTyped, OwnershipAssumption DEF Var
  <2> QED  BY <1>2, <2>1, StatementTyped DEF Var, Statement, TypeOK
<1>3. ASSUME NEW v \in Vars, Use(v) PROVE TypeOK'
  <2>1. faults' \subseteq FaultKind \X Vars
    BY <1>3, FaultsTyped DEF Use, TypeOK
  <2> QED  BY <1>0, <1>3, <2>1, StatementTyped DEF Use, Statement, TypeOK
<1>4. ASSUME NEW v \in Vars, Consume(v) PROVE TypeOK'
  <2>1. faults' \subseteq FaultKind \X Vars
    BY <1>4, FaultsTyped DEF Consume, TypeOK
  <2>2. cur' \in Flow
    BY <1>0, <1>4, FlowOpsTyped DEF Consume
  <2> QED  BY <1>4, <2>1, <2>2, StatementTyped DEF Consume, Statement, TypeOK
<1>5. ASSUME NEW v \in Vars, NEW W \in Operands, Assign(v, W) PROVE TypeOK'
  <2>1. W \in SUBSET Vars
    BY <1>0
  <2>2. cur' \in Flow
    BY <1>0, <1>5, <2>1, FlowOpsTyped DEF Assign
  <2>3. {v} \ (cur.rel \cup W) \in SUBSET Vars /\ {v} \cap cur.rel \in SUBSET Vars
    OBVIOUS
  <2>4. faults' \subseteq FaultKind \X Vars
    BY <1>5, <2>1, <2>3, FaultsTyped DEF Assign, TypeOK
  <2>5. stack' = stack /\ term' = term /\ left > 0 /\ left' = left - 1
    BY <1>5 DEF Assign, Statement
  <2>6. term' \in BOOLEAN
    BY <2>5 DEF TypeOK
  <2> QED  BY <2>2, <2>4, <2>5, <2>6, StatementTyped
<1>6. ASSUME NEW kind \in {"branch", "loop", "block"}, NEW exits \in BOOLEAN,
             OpenBody(kind, exits)
      PROVE  TypeOK'
  <2>1. CurrentLoop \in 0 .. Len(stack) /\ Len(stack) \in Nat
    BY LoopTyped, LenProperties DEF TypeOK
  <2>2. NewFrame(kind, exits) \in Frame /\ NewFrame(kind, exits).loop \in 0 .. Len(stack) + 1
    BY <1>0, <2>1 DEF NewFrame, Frame
  <2>3. stack' = Append(stack, NewFrame(kind, exits))
    BY <1>6 DEF OpenBody
  <2>4. /\ stack' \in Seq(Frame) /\ Len(stack') = Len(stack) + 1
        /\ \A i \in 1 .. Len(stack) : stack'[i] = stack[i]
        /\ stack'[Len(stack) + 1] = NewFrame(kind, exits)
        /\ DOMAIN stack' = 1 .. Len(stack) + 1 /\ DOMAIN stack = 1 .. Len(stack)
    <3> HIDE DEF NewFrame, Frame
    <3> QED  BY <2>2, <2>3 DEF TypeOK
  <2>5. \A i \in DOMAIN stack' : stack'[i].loop \in 0 .. i
    <3> TAKE i \in DOMAIN stack'
    <3>1. CASE i \in 1 .. Len(stack)
      BY <2>4, <3>1 DEF TypeOK
    <3>2. CASE i = Len(stack) + 1
      BY <2>2, <2>4, <3>2
    <3> QED  BY <2>1, <2>4, <3>1, <3>2
  <2> QED  BY <1>6, <2>4, <2>5, OwnershipAssumption DEF OpenBody, Statement, TypeOK
<1>7. CASE NextArm
  <2>1. stack # <<>> /\ Len(stack) \in 1 .. Len(stack) /\ Top \in Frame
    BY <1>7, TopTyped, LenProperties DEF NextArm, TypeOK
  <2>2. /\ SavedArm \in Arm /\ Saved(Top.pre) \in Flow /\ Top.arms \in SUBSET Arm
    BY <2>1, ThisArmTyped
  <2>3. [Top EXCEPT !.arms = @ \cup {SavedArm}] \in Frame
    BY <2>1, <2>2 DEF Frame
  <2>4. stack' = [stack EXCEPT ![Len(stack)] = [Top EXCEPT !.arms = @ \cup {SavedArm}]]
    BY <1>7 DEF NextArm, Top
  <2>5. faults' \subseteq FaultKind \X Vars
    BY <1>7, FaultsTyped DEF NextArm, TypeOK
  <2>6. [Top EXCEPT !.arms = @ \cup {SavedArm}].loop = stack[Len(stack)].loop
    BY <2>1 DEF Top, Frame
  <2> QED
    BY <1>7, <2>1, <2>2, <2>3, <2>4, <2>5, <2>6, UpdateTyped DEF NextArm
<1>8. ASSUME stack # <<>>, NEW checked \in SUBSET Arm, NEW emitted \in SUBSET Arm,
             NEW terminates \in BOOLEAN, CloseArms(checked, emitted, terminates)
      PROVE  TypeOK'
  <2>1. cur' \in Flow
    BY <1>8, ThisArmTyped, MergeTyped DEF CloseArms
  <2>2. faults' \subseteq FaultKind \X Vars
    BY <1>8, FaultsTyped, BalanceFaultsTyped DEF CloseArms, TypeOK
  <2> QED  BY <1>8, <2>1, <2>2, CloseTyped DEF CloseArms
<1>9. CASE CloseExhaustive
  <2>1. PICK last \in LastArms :
          CloseArms(Top.arms \cup {last}, Top.arms \cup {last},
                    \A x \in Top.arms \cup {last} : ~x.falls)
    BY <1>9 DEF CloseExhaustive
  <2>2. stack # <<>>
    BY <1>9 DEF CloseExhaustive
  <2>3. last \in Arm /\ Top.arms \in SUBSET Arm
    BY <2>1, <2>2, ThisArmTyped DEF LastArms
  <2>4. Top.arms \cup {last} \in SUBSET Arm
    BY <2>3
  <2> QED  BY <1>8, <2>1, <2>2, <2>4
<1>10. CASE CloseIf
  <2>1. {SavedArm, SkipArm} \in SUBSET Arm
    BY <1>10, ThisArmTyped DEF CloseIf
  <2> QED  BY <1>8, <1>10, <2>1 DEF CloseIf
<1>11. CASE CloseSwitch
  <2>1. /\ Top.arms \cup {SavedArm} \in SUBSET Arm
        /\ Top.arms \cup {SavedArm} \cup {SkipArm} \in SUBSET Arm
    BY <1>11, ThisArmTyped DEF CloseSwitch
  <2> QED  BY <1>8, <1>11, <2>1 DEF CloseSwitch
<1>12. CASE CloseBlock
  <2>1. cur' \in Flow
    BY <1>12, ThisArmTyped, EndOfBodyTyped DEF CloseBlock
  <2>2. faults' \subseteq FaultKind \X Vars
    BY <1>12, FaultsTyped DEF CloseBlock, TypeOK
  <2> QED  BY <1>12, <2>1, <2>2, CloseTyped DEF CloseBlock
<1>13. CASE CloseLoop
  <2> DEFINE end == EndOfBody(Top.pre)
             back == Top.back \cup end.paths
  <2>1. /\ end \in Flow /\ Top.pre \in Flow /\ back \in SUBSET Valuation
        /\ Top.breaks \in SUBSET Valuation
    BY <1>13, ThisArmTyped, EndOfBodyTyped DEF CloseLoop, Flow
  <2>2. LoopExit(Top.pre, end.sym, back, Top.breaks) \in Flow
    <3>1. end.sym \in [Vars -> SymState] /\ Top.pre.sym \in [Vars -> SymState]
      BY <2>1 DEF Flow
    <3>2. ByName(Top.pre.sym) \in [Vars -> SymState]
      BY <3>1, ByNameTyped
    <3>3. RestoreUninitialized(end.sym, ByName(Top.pre.sym)) \in [Vars -> SymState]
      BY <3>1, <3>2 DEF RestoreUninitialized
    <3> HIDE DEF end, back
    <3> QED  BY <2>1, <3>3 DEF LoopExit, Flow
  <2>3. cur' \in Flow
    BY <1>13, <2>2 DEF CloseLoop
  <2>4. faults' \subseteq FaultKind \X Vars
    BY <1>13, FaultsTyped DEF CloseLoop, TypeOK
  <2> QED  BY <1>13, <2>3, <2>4, CloseTyped DEF CloseLoop
<1>14. ASSUME NEW f \in Frame, f.loop = LoopFrame.loop, LeaveBody,
              stack' = [stack EXCEPT ![CurrentLoop] = f]
       PROVE  TypeOK'
  <2>1. CurrentLoop \in 1 .. Len(stack) /\ f.loop = stack[CurrentLoop].loop
    BY <1>14, LoopTyped DEF LeaveBody, LoopFrame, TypeOK
  <2>2. cur' \in Flow
    BY <1>0, <1>14, FlowOpsTyped DEF LeaveBody
  <2>3. JumpFaults \subseteq FaultKind \X Vars
    <3>1. LoopLocals \in SUBSET Vars /\ UNION {Found(v) : v \in LoopLocals \cap Active(cur)} \in SUBSET Vars
      BY <1>0 DEF LoopLocals, Locals, Found, Hiders, Active
    <3> QED  BY <1>0, <3>1, FaultsTyped DEF JumpFaults
  <2>4. faults' \subseteq FaultKind \X Vars
    BY <1>14, <2>3 DEF LeaveBody, TypeOK
  <2>5. term' \in BOOLEAN /\ left > 0 /\ left' = left - 1
    BY <1>14 DEF LeaveBody, Statement
  <2> QED  BY <1>14, <2>1, <2>2, <2>4, <2>5, UpdateTyped
<1>17. ASSUME LeaveBody
       PROVE  /\ Arrived \in SUBSET Valuation /\ LoopFrame \in Frame
              /\ [LoopFrame EXCEPT !.breaks = @ \cup Arrived] \in Frame
              /\ [LoopFrame EXCEPT !.back = @ \cup Arrived] \in Frame
              /\ [LoopFrame EXCEPT !.breaks = @ \cup Arrived].loop = LoopFrame.loop
              /\ [LoopFrame EXCEPT !.back = @ \cup Arrived].loop = LoopFrame.loop
  <2>1. LoopFrame \in Frame
    BY <1>17, LoopTyped DEF LeaveBody, TypeOK
  <2>2. Arrived \in SUBSET Valuation
    BY <1>0, SetPathsTyped DEF Flow, Value, Arrived
  <2> QED  BY <2>1, <2>2 DEF Frame
<1>18. CASE Break
  <2>1. stack' = [stack EXCEPT ![CurrentLoop] = [LoopFrame EXCEPT !.breaks = @ \cup Arrived]]
    BY <1>18 DEF Break, LoopFrame
  <2> QED  BY <1>14, <1>17, <1>18, <2>1 DEF Break
<1>19. CASE Continue
  <2>1. stack' = [stack EXCEPT ![CurrentLoop] = [LoopFrame EXCEPT !.back = @ \cup Arrived]]
    BY <1>19 DEF Continue, LoopFrame
  <2> QED  BY <1>14, <1>17, <1>19, <2>1 DEF Continue
<1>15. ASSUME NEW R \in SUBSET Vars, NEW W \in SUBSET Vars, Return(R, W) PROVE TypeOK'
  <2>1. ConsumeIn(cur, W) \in Flow
    BY <1>0, FlowOpsTyped
  <2>2. cur' \in Flow
    BY <1>15, <2>1, FlowOpsTyped DEF Return
  <2>3. R \cup W \in SUBSET Vars /\ (Open(cur) \cap Owned) \ (cur.rel \cup R \cup W) \in SUBSET Vars
    BY <1>0
  <2>4. faults' \subseteq FaultKind \X Vars
    BY <1>0, <1>15, <2>3, FaultsTyped DEF Return, TypeOK
  <2> QED  BY <1>15, <2>2, <2>4, StatementTyped DEF Return, Statement, TypeOK
<1>16. CASE UNCHANGED vars
  BY <1>16 DEF vars, TypeOK
<1> QED
  <2>1. {} \in Operands /\ {} \in SUBSET Vars /\ Operands \subseteq SUBSET Vars /\ Scalars \subseteq Vars
    BY <1>0, OwnershipAssumption, FS_EmptySet DEF Operands
  <2> QED
    BY <1>0, <1>1, <1>2, <1>3, <1>4, <1>5, <1>6, <1>7, <1>9, <1>10, <1>11, <1>12, <1>13,
       <1>15, <1>16, <1>18, <1>19, <2>1 DEF Next, Statements

(* Every part of the state keeps its shape, in a body of any length.       *)
THEOREM TypeCorrect == Spec => []TypeOK
BY InitTyped, NextTyped, PTL DEF Spec

----------------------------------------------------------------------------
(* Flows that agree with themselves *)

LEMMA MeaningValues ==
    /\ Meaning("absent") = {"none"} /\ Meaning("active") = {"live"}
    /\ Meaning("consumed") = {"gone"}
    /\ Meaning("uninitialized") = {"uninit", "live", "gone"}
BY DEF Meaning

(* A statement that writes one state and the value that state stands for   *)
(* keeps checker and values in agreement.                                  *)
LEMMA TruthfulSet ==
    ASSUME NEW F \in Flow, NEW S, NEW x \in SymState, NEW y \in Meaning(x),
           Truthful(F.sym, F.paths)
    PROVE  Truthful(SetIn(F.sym, S, x), SetPaths(F.paths, S, y))
<1>1. F.sym \in [Vars -> SymState] /\ F.paths \in SUBSET Valuation
  BY DEF Flow
<1>2. ASSUME NEW q \in SetPaths(F.paths, S, y), NEW v \in Vars
      PROVE  q[v] \in Meaning(SetIn(F.sym, S, x)[v])
  <2>1. PICK p \in F.paths : q = SetIn(p, S, y)
    BY <1>2 DEF SetPaths
  <2>2. p[v] \in Meaning(F.sym[v])
    BY DEF Truthful
  <2>3. q[v] = (IF v \in S THEN y ELSE p[v])
    BY <2>1 DEF SetIn
  <2>4. SetIn(F.sym, S, x)[v] = (IF v \in S THEN x ELSE F.sym[v])
    BY DEF SetIn
  <2> QED  BY <2>2, <2>3, <2>4
<1> QED  BY <1>2 DEF Truthful

LEMMA AgreesConsume ==
    ASSUME NEW F \in Flow, Agrees(F), NEW W \in SUBSET Vars
    PROVE  Agrees(ConsumeIn(F, W))
<1>1. BookAgrees(ConsumeIn(F, W))
  BY DEF ConsumeIn, SetIn, BookAgrees, Agrees
<1>2. Truthful(ConsumeIn(F, W).sym, ConsumeIn(F, W).paths)
  BY TruthfulSet, MeaningValues DEF ConsumeIn, Agrees, SymState
<1> QED  BY <1>1, <1>2 DEF Agrees

LEMMA AgreesDefine ==
    ASSUME NEW F \in Flow, Agrees(F), NEW v \in Vars
    PROVE  Agrees(DefineIn(F, v))
<1>1. BookAgrees(DefineIn(F, v))
  BY DEF DefineIn, SetIn, BookAgrees, Agrees
<1>2. Truthful(DefineIn(F, v).sym, DefineIn(F, v).paths)
  BY TruthfulSet, MeaningValues DEF DefineIn, Agrees, SymState
<1> QED  BY <1>1, <1>2 DEF Agrees

LEMMA AgreesDeclare ==
    ASSUME NEW F \in Flow, Agrees(F), NEW s \in Scalars
    PROVE  Agrees(DeclareIn(F, s))
<1>1. BookAgrees(DeclareIn(F, s))
  BY DEF DeclareIn, SetIn, BookAgrees, Agrees, Owned
<1>2. Truthful(DeclareIn(F, s).sym, DeclareIn(F, s).paths)
  BY TruthfulSet, MeaningValues DEF DeclareIn, Agrees, SymState
<1> QED  BY <1>1, <1>2 DEF Agrees

LEMMA AgreesPop ==
    ASSUME NEW F \in Flow, Agrees(F), NEW L \in SUBSET Vars
    PROVE  Agrees(PopIn(F, L))
<1>1. BookAgrees(PopIn(F, L))
  BY DEF PopIn, SetIn, BookAgrees, Agrees
<1>2. Truthful(PopIn(F, L).sym, PopIn(F, L).paths)
  BY TruthfulSet, MeaningValues DEF PopIn, Agrees, SymState
<1> QED  BY <1>1, <1>2 DEF Agrees

LEMMA AgreesDead ==
    ASSUME NEW F \in Flow, Agrees(F)
    PROVE  Agrees(Dead(F))
BY DEF Agrees, Dead, BookAgrees, Truthful, Flow

(* Where checker and values agree, reading or releasing an active binding  *)
(* and dropping one that is not active are harmless.                       *)
LEMMA Harmless ==
    ASSUME NEW F \in Flow, Agrees(F), NEW S \in SUBSET Vars
    PROVE  /\ (\A v \in S : F.sym[v] = "active") => Stale(F.paths, S) = {}
           /\ (\A v \in S \cap Owned : F.sym[v] = "active") => Doubled(F.paths, S) = {}
           /\ (\A v \in S \cap Owned : F.sym[v] # "active") => Leaked(F.paths, S) = {}
<1>1. \A p \in F.paths, v \in Vars : p[v] \in Meaning(F.sym[v])
  BY DEF Agrees, Truthful
<1>2. \A p \in F.paths, v \in Vars : F.sym[v] = "active" => p[v] = "live"
  BY <1>1, MeaningValues
<1>3. \A p \in F.paths, v \in Owned : F.sym[v] # "active" => p[v] # "live"
  <2> TAKE p \in F.paths, v \in Owned
  <2>1. v \in Vars /\ F.sym[v] \in {"absent", "active", "consumed"}
    BY DEF Agrees, BookAgrees, Owned, Flow, SymState
  <2> QED  BY <1>1, <2>1, MeaningValues
<1>4. (\A v \in S : F.sym[v] = "active") => Stale(F.paths, S) = {}
  BY <1>2 DEF Stale, Faulty
<1>5. (\A v \in S \cap Owned : F.sym[v] = "active") => Doubled(F.paths, S) = {}
  BY <1>2 DEF Doubled, Faulty
<1>6. (\A v \in S \cap Owned : F.sym[v] # "active") => Leaked(F.paths, S) = {}
  BY <1>3 DEF Leaked, Faulty
<1> QED  BY <1>4, <1>5, <1>6

(* A binding that is open, owned and not in the book is active.            *)
LEMMA NotInBook ==
    ASSUME NEW F \in Flow, Agrees(F), NEW v \in Open(F) \cap Owned
    PROVE  v \in F.rel <=> F.sym[v] # "active"
BY DEF Agrees, BookAgrees, Open, Owned, Flow, SymState

----------------------------------------------------------------------------
(* Merging *)

(* What the checker's intersection says of a binding is true of every arm  *)
(* once the arms have released what any of them released.                  *)
LEMMA MergeAgrees ==
    ASSUME NEW f \in Frame, NEW arms \in SUBSET Arm, FrameAgrees(f),
           \A a \in arms : ArmAgrees(f, a)
    PROVE  LET M == MergeFlow(f.pre, arms, arms)
           IN  /\ Agrees(M)
               /\ BalanceFaults(arms) = {}
               /\ M.paths = {} <=> \A a \in arms : ~a.falls
               /\ \A v \in Vars : M.sym[v] = "absent" <=> f.pre.sym[v] = "absent"
<1> DEFINE M == MergeFlow(f.pre, arms, arms)
           live == {a \in arms : a.falls}
           states(v) == {a.flow.sym[v] : a \in live}
<1>1. /\ f.pre \in Flow /\ f.pre.sym \in [Vars -> SymState] /\ Agrees(f.pre)
      /\ \A a \in arms : a.flow \in Flow /\ a.flow.sym \in [Vars -> SymState]
      /\ \A a \in arms : a.flow.paths \in SUBSET Valuation /\ a.flow.rel \in SUBSET Vars
      /\ \A a \in arms : Agrees(a.flow)
  BY DEF Frame, Arm, Flow, FrameAgrees, ArmAgrees
<1>2. LiveArms(arms) = live
  BY DEF LiveArms, ArmAgrees
<1>3. M.sym = [v \in Vars |-> IF live = {} THEN f.pre.sym[v] ELSE IntersectStates(states(v))]
  BY DEF MergeFlow, MergeSym
<1>4. M.rel = (IF live = {} THEN f.pre.rel ELSE UNION {a.flow.rel : a \in live})
  BY <1>2 DEF MergeFlow, MergeRel
<1>5. M.paths = UNION {SetPaths(a.flow.paths, Balance(arms, a), "gone") : a \in live}
  BY <1>2 DEF MergeFlow, MergePaths
<1>6. \A a \in live : a.flow.paths # {}
  BY DEF ArmAgrees
<1>7. \A a \in live : Balance(arms, a) = M.rel \ a.flow.rel
  BY <1>2, <1>4 DEF Balance, MergeRel
<1>8. M.paths = {} <=> live = {}
  <2>1. \A a \in live : SetPaths(a.flow.paths, Balance(arms, a), "gone") # {}
    BY <1>6 DEF SetPaths
  <2> QED  BY <1>5, <2>1
<1>9. ASSUME NEW v \in Vars, live # {}
      PROVE  /\ M.sym[v] = IntersectStates(states(v))
             /\ states(v) \in SUBSET SymState /\ states(v) # {}
             /\ M.sym[v] \in SymState
             /\ M.sym[v] \in {"absent", "active"} => states(v) = {M.sym[v]}
             /\ M.sym[v] = "uninitialized" => "uninitialized" \in states(v)
             /\ (M.sym[v] = "consumed" /\ "consumed" \notin states(v)) =>
                  \E x, y \in states(v) : x # y /\ "uninitialized" \notin states(v)
  <2>1. states(v) \in SUBSET SymState /\ states(v) # {}
    BY <1>1, <1>9
  <2>2. M.sym[v] = IntersectStates(states(v))
    BY <1>3, <1>9
  <2> HIDE DEF states, M, live
  <2> QED  BY <2>1, <2>2, IntersectProperties
<1>10. ASSUME NEW v \in Vars
       PROVE  M.sym[v] = "absent" <=> f.pre.sym[v] = "absent"
  <2>1. CASE live = {}
    BY <1>3, <2>1
  <2>2. CASE live # {}
    <3>1. \A a \in live : a.flow.sym[v] = "absent" <=> f.pre.sym[v] = "absent"
      BY DEF ArmAgrees
    <3>2. CASE f.pre.sym[v] = "absent"
      <4>1. states(v) = {"absent"}
        BY <2>2, <3>1, <3>2
      <4>2. IntersectStates(states(v)) = "absent"
        BY <4>1 DEF IntersectStates
      <4> QED  BY <1>9, <2>2, <3>2, <4>2
    <3>3. CASE f.pre.sym[v] # "absent"
      <4>1. "absent" \notin states(v)
        BY <3>1, <3>3
      <4>2. IntersectStates(states(v)) # "absent"
        BY <1>9, <2>2, <4>1, IntersectProperties, ZenonT(60)
      <4> QED  BY <1>9, <2>2, <3>3, <4>2
    <3> QED  BY <3>2, <3>3
  <2> QED  BY <2>1, <2>2
<1>11. ASSUME NEW v \in Vars, live # {}, M.sym[v] \in {"absent", "active"}
       PROVE  /\ v \notin M.rel
              /\ \A a \in live : a.flow.sym[v] = M.sym[v]
  <2>1. states(v) = {M.sym[v]}
    BY <1>9, <1>11
  <2>2. \A a \in live : a.flow.sym[v] = M.sym[v]
    BY <2>1
  <2>3. \A a \in live : v \notin a.flow.rel
    BY <1>1, <1>11, <2>2 DEF Agrees, BookAgrees
  <2> QED  BY <1>4, <1>11, <2>2, <2>3
<1>12. ASSUME NEW v \in Vars, live # {}, M.sym[v] = "consumed"
       PROVE  v \in M.rel
  <2>1. "consumed" \in states(v)
    <3>1. SUFFICES ASSUME "consumed" \notin states(v) PROVE FALSE
      OBVIOUS
    <3>2. PICK x, y \in states(v) : x # y /\ "uninitialized" \notin states(v)
      BY <1>9, <1>12, <3>1, IntersectProperties
    <3>3. states(v) \subseteq {"absent", "active"} /\ "absent" \in states(v) /\ "active" \in states(v)
      BY <1>9, <1>12, <3>1, <3>2 DEF SymState
    <3>4. \A a, b \in live : a.flow.sym[v] = "absent" <=> b.flow.sym[v] = "absent"
      BY DEF ArmAgrees
    <3> QED  BY <3>3, <3>4
  <2>2. PICK a \in live : a.flow.sym[v] = "consumed"
    BY <2>1
  <2>3. v \in a.flow.rel
    BY <1>1, <2>2 DEF Agrees, BookAgrees
  <2> QED  BY <1>4, <1>12, <2>3
<1>13. BookAgrees(M)
  <2>1. CASE live = {}
    BY <1>1, <1>3, <1>4, <2>1 DEF BookAgrees, Agrees
  <2>2. CASE live # {}
    <3>1. ASSUME NEW v \in Owned PROVE M.sym[v] # "uninitialized"
      <4>1. v \in Vars /\ "uninitialized" \notin states(v)
        BY <1>1 DEF Agrees, BookAgrees, Owned
      <4> QED  BY <1>9, <2>2, <4>1
    <3> QED  BY <1>11, <1>12, <2>2, <3>1 DEF BookAgrees
  <2> QED  BY <2>1, <2>2
<1>14. ASSUME NEW q \in M.paths, NEW v \in Vars
       PROVE  q[v] \in Meaning(M.sym[v])
  <2>1. PICK a \in live : q \in SetPaths(a.flow.paths, Balance(arms, a), "gone")
    BY <1>5
  <2>2. PICK p \in a.flow.paths : q = SetIn(p, M.rel \ a.flow.rel, "gone")
    BY <1>7, <2>1 DEF SetPaths
  <2>3. q[v] = (IF v \in M.rel \ a.flow.rel THEN "gone" ELSE p[v])
    BY <2>2 DEF SetIn
  <2>4. p[v] \in Meaning(a.flow.sym[v])
    BY <1>1 DEF Agrees, Truthful
  <2>5. a.flow.sym[v] \in SymState /\ M.sym[v] \in SymState /\ live # {}
    BY <1>1, <1>9, <2>1
  <2>6. CASE M.sym[v] \in {"absent", "active"}
    BY <1>11, <2>3, <2>4, <2>5, <2>6
  <2>7. CASE M.sym[v] = "consumed"
    <3>1. v \in M.rel /\ f.pre.sym[v] # "absent" /\ a.flow.sym[v] # "absent"
      BY <1>10, <1>12, <2>5, <2>7 DEF ArmAgrees
    <3>2. CASE v \in a.flow.rel
      <4>1. a.flow.sym[v] \in {"consumed", "uninitialized"}
        BY <1>1, <2>5, <3>1, <3>2 DEF Agrees, BookAgrees, SymState
      <4>2. a.flow.sym[v] # "uninitialized"
        <5>1. "uninitialized" \in states(v) => IntersectStates(states(v)) # "consumed"
          BY DEF IntersectStates
        <5> QED  BY <1>9, <2>5, <2>7, <5>1
      <4> QED  BY <2>3, <2>4, <2>7, <3>2, <4>1, <4>2, MeaningValues
    <3>3. CASE v \notin a.flow.rel
      BY <2>3, <2>7, <3>1, <3>3, MeaningValues
    <3> QED  BY <3>2, <3>3
  <2>8. CASE M.sym[v] = "uninitialized"
    <3>1. f.pre.sym[v] # "absent" /\ a.flow.sym[v] # "absent"
      BY <1>10, <2>8 DEF ArmAgrees
    <3>2. p[v] \in {"uninit", "live", "gone"}
      BY <2>4, <2>5, <3>1, MeaningValues DEF SymState
    <3> QED  BY <2>3, <2>8, <3>2, MeaningValues
  <2> QED  BY <2>5, <2>6, <2>7, <2>8 DEF SymState
<1>15. BalanceFaults(arms) = {}
  <2>1. ASSUME NEW a \in live PROVE Doubled(a.flow.paths, Balance(arms, a)) = {}
    <3>1. ASSUME NEW v \in Balance(arms, a) \cap Owned PROVE a.flow.sym[v] = "active"
      <4>1. v \in Vars /\ v \in M.rel /\ v \notin a.flow.rel /\ live # {}
        BY <1>7 DEF Owned
      <4>2. M.sym[v] \notin {"absent", "active"}
        BY <1>11, <4>1
      <4>3. a.flow.sym[v] # "absent"
        BY <1>10, <4>1, <4>2 DEF ArmAgrees
      <4>4. a.flow.sym[v] \in SymState
        BY <1>1, <4>1
      <4> QED  BY <1>1, <4>1, <4>3, <4>4 DEF Agrees, BookAgrees, SymState
    <3>2. a.flow \in Flow /\ Balance(arms, a) \in SUBSET Vars
      BY <1>1, <1>4, <1>7
    <3> QED  BY <1>1, <3>1, <3>2, Harmless
  <2> QED  BY <1>2, <2>1 DEF BalanceFaults
<1> HIDE DEF M
<1>16. Agrees(M)
  BY <1>13, <1>14 DEF Agrees, Truthful
<1> QED  BY <1>8, <1>10, <1>15, <1>16 DEF M

(* A merge changes no binding of an enclosing loop that its arms left      *)
(* alone, and the enclosing bodies' bindings stay in scope.                *)
LEMMA MergeEncloses ==
    ASSUME NEW g \in Frame, NEW f \in Frame, NEW arms \in SUBSET Arm, FrameAgrees(f),
           \A a \in arms : ArmAgrees(f, a) /\ Encloses(g, a.flow.sym),
           Encloses(g, f.pre.sym)
    PROVE  Encloses(g, MergeSym(f.pre.sym, arms))
<1> DEFINE M == MergeSym(f.pre.sym, arms)
           live == {a \in arms : a.falls}
           states(v) == {a.flow.sym[v] : a \in live}
<1>1. \A v \in Vars : M[v] = IF live = {} THEN f.pre.sym[v] ELSE IntersectStates(states(v))
  BY DEF MergeSym
<1>2. \A v \in Vars : M[v] = "absent" <=> f.pre.sym[v] = "absent"
  BY MergeAgrees DEF MergeFlow
<1>3. InScopeOf(g.pre, M)
  BY <1>2 DEF Encloses, InScopeOf
<1>4. ASSUME g.kind = "loop", NEW v \in Vars, g.pre.sym[v] # "absent"
      PROVE  \/ M[v] = g.pre.sym[v]
             \/ g.pre.sym[v] = "uninitialized" /\ M[v] = "active"
  <2>1. CASE live = {}
    BY <1>1, <1>4, <2>1 DEF Encloses, SteadySince
  <2>2. CASE live # {}
    <3>1. \/ states(v) \subseteq {g.pre.sym[v]}
          \/ g.pre.sym[v] = "uninitialized" /\ states(v) \subseteq {"uninitialized", "active"}
      BY <1>4 DEF Encloses, SteadySince
    <3>2. states(v) # {} /\ states(v) \in SUBSET SymState
      BY <2>2 DEF Arm, Flow
    <3>3. CASE states(v) \subseteq {g.pre.sym[v]}
      <4>1. states(v) = {g.pre.sym[v]}
        BY <3>2, <3>3
      <4>2. IntersectStates(states(v)) = g.pre.sym[v]
        BY <4>1 DEF IntersectStates
      <4> QED  BY <1>1, <2>2, <4>2
    <3>4. CASE g.pre.sym[v] = "uninitialized" /\ states(v) \subseteq {"uninitialized", "active"}
      <4>1. IntersectStates(states(v)) \in {"uninitialized", "active"}
        <5>1. CASE states(v) = {"uninitialized"}
          BY <5>1 DEF IntersectStates
        <5>2. CASE states(v) = {"active"}
          BY <5>2 DEF IntersectStates
        <5>3. CASE "uninitialized" \in states(v) /\ "active" \in states(v)
          BY <5>3 DEF IntersectStates
        <5> QED  BY <3>2, <3>4, <5>1, <5>2, <5>3
      <4> QED  BY <1>1, <2>2, <3>4, <4>1
    <3> QED  BY <3>1, <3>3, <3>4
  <2> QED  BY <2>1, <2>2
<1> QED  BY <1>3, <1>4 DEF Encloses, SteadySince

----------------------------------------------------------------------------
(* The open bodies *)

LEMMA InvTyped ==
    ASSUME TypeOK
    PROVE  /\ cur \in Flow /\ cur.sym \in [Vars -> SymState]
           /\ cur.rel \in SUBSET Vars /\ cur.paths \in SUBSET Valuation
           /\ \A i \in DOMAIN stack :
                /\ stack[i] \in Frame /\ stack[i].pre \in Flow
                /\ stack[i].pre.sym \in [Vars -> SymState]
           /\ Len(stack) \in Nat /\ DOMAIN stack = 1 .. Len(stack)
<1>1. cur \in Flow /\ stack \in Seq(Frame)
  BY DEF TypeOK
<1>2. \A F \in Flow : F.sym \in [Vars -> SymState] /\ F.rel \in SUBSET Vars /\ F.paths \in SUBSET Valuation
  BY DEF Flow
<1>3. ASSUME NEW i \in DOMAIN stack PROVE stack[i] \in Frame /\ stack[i].pre \in Flow
  <2>1. stack[i] \in Frame
    BY <1>1
  <2> QED  BY <2>1 DEF Frame
<1> QED  BY <1>1, <1>2, <1>3

(* Where no loop encloses v, no loop that is open had v at its head.       *)
LEMMA NotOuter ==
    ASSUME TypeOK, Coherent, NEW v \in Vars, ~OuterToLoop(v),
           NEW i \in DOMAIN stack, stack[i].kind = "loop"
    PROVE  stack[i].pre.sym[v] = "absent"
<1>1. /\ Len(stack) \in Nat /\ DOMAIN stack = 1 .. Len(stack) /\ Len(stack) \in DOMAIN stack
      /\ i \in 1 .. Len(stack) /\ stack # <<>>
  BY InvTyped
<1>2. CurrentLoop = stack[Len(stack)].loop /\ CurrentLoop \in 0 .. Len(stack)
  BY <1>1 DEF CurrentLoop, Top, TypeOK
<1>3. i <= CurrentLoop
  BY <1>1, <1>2 DEF Coherent, OneStory, LoopsIndexed
<1>4. CurrentLoop \in DOMAIN stack /\ stack[CurrentLoop].pre.sym[v] = "absent"
  BY <1>1, <1>2, <1>3 DEF OuterToLoop, InLoop, LocalToLoop, LoopFrame
<1>5. CASE i = CurrentLoop
  BY <1>4, <1>5
<1>6. CASE i < CurrentLoop
  BY <1>4, <1>6 DEF Coherent, OneStory, Nested, Encloses, InScopeOf
<1> QED  BY <1>1, <1>2, <1>3, <1>5, <1>6

(* A statement keeps the enclosing bodies' view of the table if it only    *)
(* declares new names, touches names no enclosing loop knows, or gives a   *)
(* `var` its first value.                                                  *)
LEMMA WriteNested ==
    ASSUME TypeOK, Coherent, NEW sym,
           \A v \in Vars :
                \/ sym[v] = cur.sym[v]
                \/ cur.sym[v] = "absent"
                \/ sym[v] # "absent" /\ ~OuterToLoop(v)
                \/ sym[v] = "active" /\ cur.sym[v] = "uninitialized"
    PROVE  Nested(stack, sym)
<1>1. ASSUME NEW i \in DOMAIN stack PROVE Encloses(stack[i], sym)
  <2>1. Encloses(stack[i], cur.sym)
    BY DEF Coherent, OneStory, Nested
  <2>2. InScopeOf(stack[i].pre, sym)
    BY <2>1 DEF Encloses, InScopeOf
  <2>3. ASSUME stack[i].kind = "loop", NEW v \in Vars, stack[i].pre.sym[v] # "absent"
        PROVE  \/ sym[v] = stack[i].pre.sym[v]
               \/ stack[i].pre.sym[v] = "uninitialized" /\ sym[v] = "active"
    <3>1. OuterToLoop(v)
      BY <2>3, NotOuter
    <3>2. \/ cur.sym[v] = stack[i].pre.sym[v]
          \/ stack[i].pre.sym[v] = "uninitialized" /\ cur.sym[v] = "active"
      BY <2>1, <2>3 DEF Encloses, SteadySince
    <3> QED  BY <2>3, <3>1, <3>2
  <2> QED  BY <2>2, <2>3 DEF Encloses, SteadySince
<1> QED  BY <1>1 DEF Coherent, OneStory, Nested

LEMMA EnclosesSelf ==
    ASSUME NEW f PROVE Encloses(f, f.pre.sym)
BY DEF Encloses, InScopeOf, SteadySince

LEMMA NestedPop ==
    ASSUME TypeOK, Coherent, stack # <<>>, NEW sym,
           \A i \in 1 .. Len(stack) - 1 : Encloses(stack[i], sym)
    PROVE  LoopsIndexed(Pop) /\ Nested(Pop, sym)
<1>1. /\ Len(stack) \in Nat /\ DOMAIN stack = 1 .. Len(stack) /\ stack \in Seq(Frame)
      /\ Len(stack) > 0
  BY InvTyped DEF TypeOK
<1>2. DOMAIN Pop = 1 .. Len(stack) - 1 /\ \A i \in DOMAIN Pop : Pop[i] = stack[i] /\ i \in DOMAIN stack
  BY <1>1 DEF Pop
<1>3. Nested(Pop, sym)
  BY <1>2 DEF Coherent, OneStory, Nested
<1>4. ASSUME NEW i \in DOMAIN Pop
      PROVE  /\ Pop[i].loop # 0 => Pop[Pop[i].loop].kind = "loop"
             /\ \A j \in 1 .. i : Pop[j].kind = "loop" => j <= Pop[i].loop
  <2>1. i \in Nat /\ i <= Len(stack) - 1 /\ stack[i].loop \in 0 .. i
    BY <1>1, <1>2 DEF TypeOK
  <2>2. \A j \in 1 .. i : j \in DOMAIN Pop
    BY <1>1, <1>2, <2>1
  <2>3. stack[i].loop # 0 => stack[i].loop \in DOMAIN Pop
    BY <2>1, <2>2
  <2> QED  BY <1>2, <2>2, <2>3 DEF Coherent, OneStory, LoopsIndexed
<1> QED  BY <1>3, <1>4 DEF LoopsIndexed

----------------------------------------------------------------------------
(* The end of a body *)

(* The locals a body declared are released if and only if they are live.   *)
LEMMA NoEndFaults ==
    ASSUME TypeOK, Coherent, NEW F
    PROVE  EndFaults(F) = {}
<1> DEFINE L == Locals(F)
           released == (L \cap Owned) \ cur.rel
<1>1. cur \in Flow /\ Agrees(cur) /\ L \in SUBSET Vars /\ L \subseteq Open(cur)
  BY InvTyped DEF Coherent, OneStory, Locals, Open
<1>2. \A v \in released : cur.sym[v] = "active"
  BY <1>1, NotInBook
<1>3. \A v \in (L \ released) \cap Owned : cur.sym[v] # "active"
  BY <1>1, NotInBook
<1>4. released \in SUBSET Vars /\ L \ released \in SUBSET Vars
  BY <1>1
<1>5. Doubled(cur.paths, released) = {}
  BY <1>1, <1>2, <1>4, Harmless
<1>6. Leaked(cur.paths, L \ released) = {}
  BY <1>1, <1>3, <1>4, Harmless
<1> QED  BY <1>5, <1>6 DEF EndFaults

(* What a body leaves when it ends.                                        *)
LEMMA EndAgrees ==
    ASSUME TypeOK, Coherent, stack # <<>>
    PROVE  LET end == EndOfBody(Top.pre)
           IN  /\ end \in Flow
               /\ Agrees(end)
               /\ end.paths = {} <=> term
               /\ \A v \in Vars : end.sym[v] = "absent" <=> Top.pre.sym[v] = "absent"
               /\ \A i \in DOMAIN stack : Encloses(stack[i], end.sym)
<1> DEFINE end == EndOfBody(Top.pre)
           L == Locals(Top.pre)
<1>1. /\ cur \in Flow /\ cur.sym \in [Vars -> SymState] /\ Agrees(cur)
      /\ L \in SUBSET Vars
      /\ L = {v \in Vars : cur.sym[v] # "absent" /\ Top.pre.sym[v] = "absent"}
  BY InvTyped DEF Coherent, OneStory, Locals, Open
<1>2. Len(stack) \in DOMAIN stack /\ Top = stack[Len(stack)]
  BY InvTyped DEF Top
<1>3. end \in Flow
  BY <1>1, FlowOpsTyped DEF EndOfBody
<1>4. Agrees(end)
  BY <1>1, AgreesPop DEF EndOfBody
<1>5. end.paths = {} <=> term
  <2>1. end.paths = SetPaths(cur.paths, L, "none")
    BY DEF EndOfBody, PopIn
  <2>2. end.paths = {} <=> cur.paths = {}
    BY <2>1 DEF SetPaths
  <2> QED  BY <2>2 DEF Coherent, OneStory
<1>6. \A v \in Vars : end.sym[v] = IF v \in L THEN "absent" ELSE cur.sym[v]
  BY DEF EndOfBody, PopIn, SetIn
<1>7. \A i \in DOMAIN stack : Encloses(stack[i], cur.sym)
  BY DEF Coherent, OneStory, Nested
<1>8. \A v \in Vars : end.sym[v] = "absent" <=> Top.pre.sym[v] = "absent"
  BY <1>1, <1>2, <1>6, <1>7 DEF Encloses, InScopeOf
<1>9. ASSUME NEW i \in DOMAIN stack PROVE Encloses(stack[i], end.sym)
  <2>1. \A v \in L : stack[i].pre.sym[v] = "absent"
    <3>1. CASE i = Len(stack)
      BY <1>1, <1>2, <3>1
    <3>2. CASE i < Len(stack)
      BY <1>1, <1>2, <3>2 DEF Coherent, OneStory, Nested, Encloses, InScopeOf
    <3>3. i <= Len(stack) /\ i \in Nat /\ Len(stack) \in Nat
      BY InvTyped
    <3> QED  BY <3>1, <3>2, <3>3
  <2> HIDE DEF end, L
  <2> QED  BY <1>6, <1>7, <2>1 DEF Encloses, InScopeOf, SteadySince
<1> QED  BY <1>3, <1>4, <1>5, <1>8, <1>9

(* The value of a binding at the head of the loop stands for its value     *)
(* wherever the loop's body leaves it steady.                              *)
LEMMA BackToHead ==
    ASSUME NEW G \in Flow, NEW F \in Flow, NEW P \in SUBSET Valuation, SteadySince(G, F.sym),
           InScopeOf(G, F.sym), Truthful(F.sym, P),
           \A p \in P, v \in Vars : G.sym[v] = "absent" => p[v] = "none"
    PROVE  Truthful(G.sym, P)
<1>1. SUFFICES ASSUME NEW p \in P, NEW v \in Vars PROVE p[v] \in Meaning(G.sym[v])
  BY DEF Truthful
<1>2. CASE G.sym[v] = "absent"
  BY <1>2, MeaningValues
<1>3. CASE G.sym[v] # "absent"
  <2>1. p[v] \in Meaning(F.sym[v])
    BY DEF Truthful
  <2> QED  BY <1>3, <2>1, MeaningValues DEF SteadySince
<1> QED  BY <1>2, <1>3

(* A path that arrives back at a loop's head in that state carries nothing *)
(* over from the iteration.                                                *)
LEMMA NothingCarried ==
    ASSUME NEW G \in Flow, Agrees(G), NEW P \in SUBSET Valuation, Truthful(G.sym, P)
    PROVE  Carried(G, P) = {}
<1>1. SUFFICES ASSUME NEW v \in Open(G), NEW p \in P
               PROVE  /\ ~(G.sym[v] = "active" /\ p[v] # "live")
                      /\ ~(v \in Owned /\ (v \in G.rel <=> p[v] = "live"))
  BY DEF Carried, Faulty
<1>2. v \in Vars /\ p[v] \in Meaning(G.sym[v])
  BY DEF Open, Truthful
<1>3. CASE v \in Owned
  <2>1. G.sym[v] \in {"active", "consumed"}
    BY <1>3 DEF Agrees, BookAgrees, Open, Flow, SymState, Owned
  <2> QED  BY <1>2, <2>1, MeaningValues DEF Agrees, BookAgrees
<1>4. CASE v \notin Owned
  BY <1>2, <1>4, MeaningValues
<1> QED  BY <1>3, <1>4

----------------------------------------------------------------------------
(* Bodies that use none of the rarer shapes *)

LEMMA ConsumeStays ==
    ASSUME Shapes = {}, NEW v \in Vars, MayConsume(v)
    PROVE  cur.sym[v] = "active" /\ ~OuterToLoop(v)
BY DEF MayConsume, ConsumeShape, LoopGuardAccepts, OuterToLoop

LEMMA LetCoherent ==
    ASSUME Shapes = {}, TypeOK, Coherent, NEW v \in Owned, NEW W \in Operands, Let(v, W)
    PROVE  OneStory'
<1>1. v \in Vars /\ W \in SUBSET Vars /\ cur \in Flow /\ Agrees(cur)
  BY InvTyped DEF Owned, Operands, Coherent, OneStory
<1>2. \A w \in W : cur.sym[w] = "active" /\ ~OuterToLoop(w)
  BY <1>1, ConsumeStays DEF Let
<1>3. ConsumeIn(cur, W) \in Flow /\ Agrees(ConsumeIn(cur, W))
  BY <1>1, FlowOpsTyped, AgreesConsume
<1>4. Agrees(cur')
  BY <1>1, <1>3, AgreesDefine DEF Let
<1>5. Stale(cur.paths, W) = {}
  BY <1>1, <1>2, Harmless
<1>6. cur'.paths = {} <=> cur.paths = {}
  BY DEF Let, DefineIn, ConsumeIn, SetPaths
<1>7. \A u \in Vars : cur'.sym[u] = IF u = v THEN "active" ELSE IF u \in W THEN "consumed" ELSE cur.sym[u]
  BY DEF Let, DefineIn, ConsumeIn, SetIn
<1>8. Nested(stack, cur'.sym)
  <2>1. cur.sym[v] = "absent"
    BY DEF Let, MayDeclare
  <2> QED  BY <1>2, <1>7, <2>1, WriteNested
<1> QED  BY <1>4, <1>5, <1>6, <1>8 DEF Coherent, OneStory, Let

LEMMA VarCoherent ==
    ASSUME TypeOK, Coherent, NEW s \in Scalars, Var(s)
    PROVE  OneStory'
<1>1. s \in Vars /\ cur \in Flow /\ Agrees(cur)
  BY InvTyped, OwnershipAssumption DEF Coherent, OneStory
<1>2. Agrees(cur')
  BY <1>1, AgreesDeclare DEF Var
<1>3. cur'.paths = {} <=> cur.paths = {}
  BY DEF Var, DeclareIn, SetPaths
<1>4. \A u \in Vars : cur'.sym[u] = IF u = s THEN "uninitialized" ELSE cur.sym[u]
  BY DEF Var, DeclareIn, SetIn
<1>5. Nested(stack, cur'.sym)
  <2>1. cur.sym[s] = "absent"
    BY DEF Var, MayDeclare
  <2> QED  BY <1>4, <2>1, WriteNested
<1> QED  BY <1>2, <1>3, <1>5 DEF Coherent, OneStory, Var

LEMMA UseCoherent ==
    ASSUME TypeOK, Coherent, NEW v \in Vars, Use(v)
    PROVE  OneStory'
<1>1. cur \in Flow /\ Agrees(cur) /\ cur.sym[v] = "active" /\ {v} \in SUBSET Vars
  BY InvTyped DEF Coherent, OneStory, Use
<1>2. Stale(cur.paths, {v}) = {}
  BY <1>1, Harmless
<1> QED  BY <1>2 DEF Coherent, OneStory, Use

LEMMA ConsumeCoherent ==
    ASSUME Shapes = {}, TypeOK, Coherent, NEW v \in Vars, Consume(v)
    PROVE  OneStory'
<1>1. cur \in Flow /\ Agrees(cur) /\ {v} \in SUBSET Vars /\ cur.sym[v] = "active" /\ ~OuterToLoop(v)
  BY InvTyped, ConsumeStays DEF Coherent, OneStory, Consume
<1>2. Stale(cur.paths, {v}) = {}
  BY <1>1, Harmless
<1>3. Agrees(cur')
  BY <1>1, AgreesConsume DEF Consume
<1>4. cur'.paths = {} <=> cur.paths = {}
  BY DEF Consume, ConsumeIn, SetPaths
<1>5. \A u \in Vars : cur'.sym[u] = IF u = v THEN "consumed" ELSE cur.sym[u]
  BY DEF Consume, ConsumeIn, SetIn
<1>6. Nested(stack, cur'.sym)
  BY <1>1, <1>5, WriteNested
<1> QED  BY <1>2, <1>3, <1>4, <1>6 DEF Coherent, OneStory, Consume

(* The old value is released exactly when the target still holds one.      *)
LEMMA AssignCoherent ==
    ASSUME Shapes = {}, TypeOK, Coherent, NEW v \in Vars, NEW W \in SUBSET Owned, Assign(v, W)
    PROVE  OneStory'
<1> DEFINE held == {v} \ (cur.rel \cup W)
           lost == {v} \cap cur.rel
<1>1. /\ W \in SUBSET Vars /\ held \in SUBSET Vars /\ lost \in SUBSET Vars
      /\ cur \in Flow /\ cur.sym \in [Vars -> SymState] /\ Agrees(cur)
      /\ cur.sym[v] # "absent"
  BY InvTyped DEF Owned, Coherent, OneStory, Assign
<1>2. \A w \in W : cur.sym[w] = "active" /\ (w # v => ~OuterToLoop(w))
  BY <1>1, ConsumeStays DEF Assign
<1>3. ConsumeIn(cur, W) \in Flow /\ Agrees(ConsumeIn(cur, W))
  BY <1>1, FlowOpsTyped, AgreesConsume
<1>4. Agrees(cur')
  BY <1>1, <1>3, AgreesDefine DEF Assign
<1>5. Stale(cur.paths, W) = {}
  BY <1>1, <1>2, Harmless
<1>6. Doubled(cur.paths, held) = {} /\ Leaked(cur.paths, lost) = {}
  <2>1. \A u \in held \cap Owned : cur.sym[u] = "active"
    BY <1>1, NotInBook DEF Open
  <2>2. \A u \in lost \cap Owned : cur.sym[u] # "active"
    BY <1>1 DEF Agrees, BookAgrees
  <2> QED  BY <1>1, <2>1, <2>2, Harmless
<1>7. cur'.paths = {} <=> cur.paths = {}
  BY DEF Assign, DefineIn, ConsumeIn, SetPaths
<1>8. \A u \in Vars : cur'.sym[u] = IF u = v THEN "active" ELSE IF u \in W THEN "consumed" ELSE cur.sym[u]
  BY DEF Assign, DefineIn, ConsumeIn, SetIn
<1>9. Nested(stack, cur'.sym)
  <2>1. cur.sym[v] = "consumed" => ~OuterToLoop(v)
    BY DEF Assign, AssignShape
  <2>2. cur.sym[v] \in {"active", "uninitialized", "consumed"}
    BY <1>1 DEF SymState
  <2> QED  BY <1>2, <1>8, <2>1, <2>2, WriteNested
<1>10. faults' = {} /\ UNCHANGED <<stack, term>>
  BY <1>5, <1>6 DEF Assign, Coherent, OneStory
<1> QED  BY <1>4, <1>7, <1>9, <1>10 DEF Coherent, OneStory

LEMMA OpenCoherent ==
    ASSUME TypeOK, Coherent, NEW kind \in {"branch", "loop", "block"}, NEW exits \in BOOLEAN,
           OpenBody(kind, exits)
    PROVE  OneStory'
<1> DEFINE f == NewFrame(kind, exits)
           n == Len(stack)
<1>1. /\ n \in Nat /\ DOMAIN stack = 1 .. n /\ stack \in Seq(Frame)
      /\ stack' = Append(stack, f)
      /\ Len(stack') = n + 1 /\ DOMAIN stack' = 1 .. n + 1 /\ stack'[n + 1] = f
      /\ \A i \in 1 .. n : stack'[i] = stack[i]
  BY InvTyped DEF TypeOK, OpenBody
<1>2. f.pre = cur /\ f.kind = kind /\ f.arms = {} /\ f.breaks = {} /\ f.back = {}
  BY DEF NewFrame
<1>3. f.loop = IF kind = "loop" THEN n + 1 ELSE CurrentLoop
  BY DEF NewFrame
<1>4. CurrentLoop = IF n = 0 THEN 0 ELSE stack[n].loop
  BY <1>1 DEF CurrentLoop, Top
<1> HIDE DEF f, n
<1>5. FrameAgrees(f)
  BY <1>2 DEF FrameAgrees, Coherent, OneStory, OpenBody, Statement, Truthful
<1>6. Nested(stack', cur.sym)
  <2>1. ASSUME NEW i \in 1 .. n
        PROVE  /\ FrameAgrees(stack[i]) /\ Encloses(stack[i], cur.sym)
               /\ \A j \in 1 .. n : i < j =>
                    /\ Encloses(stack[i], stack[j].pre.sym)
                    /\ \A a \in stack[j].arms : Encloses(stack[i], a.flow.sym)
    BY <1>1 DEF Coherent, OneStory, Nested
  <2>2. Encloses(f, cur.sym)
    BY <1>2, EnclosesSelf
  <2>3. ASSUME NEW i \in 1 .. n + 1
        PROVE  FrameAgrees(stack'[i]) /\ Encloses(stack'[i], cur.sym)
    <3>1. i \in 1 .. n \/ i = n + 1
      BY <1>1
    <3> QED  BY <1>1, <1>5, <2>1, <2>2, <3>1
  <2>4. ASSUME NEW i \in 1 .. n + 1, NEW j \in 1 .. n + 1, i < j
        PROVE  /\ Encloses(stack'[i], stack'[j].pre.sym)
               /\ \A a \in stack'[j].arms : Encloses(stack'[i], a.flow.sym)
    <3>1. i \in 1 .. n /\ (j \in 1 .. n \/ j = n + 1)
      BY <1>1, <2>4
    <3> QED  BY <1>1, <1>2, <2>1, <2>4, <3>1
  <2> QED  BY <1>1, <2>3, <2>4 DEF Nested
<1>7. LoopsIndexed(stack')
  <2>1. ASSUME NEW i \in 1 .. n
        PROVE  /\ stack[i].loop \in 0 .. i
               /\ stack[i].loop # 0 => stack[stack[i].loop].kind = "loop"
               /\ \A j \in 1 .. i : stack[j].kind = "loop" => j <= stack[i].loop
    BY <1>1 DEF Coherent, OneStory, LoopsIndexed, TypeOK
  <2>2. ASSUME NEW i \in 1 .. n
        PROVE  /\ stack'[i].loop # 0 => stack'[stack'[i].loop].kind = "loop"
               /\ \A j \in 1 .. i : stack'[j].kind = "loop" => j <= stack'[i].loop
    BY <1>1, <2>1
  <2>3. /\ f.loop # 0 => stack'[f.loop].kind = "loop"
        /\ \A j \in 1 .. n + 1 : stack'[j].kind = "loop" => j <= f.loop
    <3>1. CASE kind = "loop"
      BY <1>1, <1>2, <1>3, <3>1
    <3>2. CASE kind # "loop" /\ n = 0
      <4>1. f.loop = 0 /\ \A j \in 1 .. n + 1 : j = n + 1
        BY <1>3, <1>4, <3>2
      <4> QED  BY <1>1, <1>2, <3>2, <4>1
    <3>3. CASE kind # "loop" /\ n # 0
      <4>1. n \in 1 .. n /\ f.loop = stack[n].loop
        BY <1>1, <1>3, <1>4, <3>3
      <4>2. f.loop # 0 => stack'[f.loop].kind = "loop"
        BY <1>1, <2>1, <4>1
      <4>3. \A j \in 1 .. n : stack'[j].kind = "loop" => j <= f.loop
        BY <1>1, <2>1, <4>1
      <4>4. ASSUME NEW j \in 1 .. n + 1, stack'[j].kind = "loop" PROVE j <= f.loop
        <5>1. j # n + 1
          BY <1>1, <1>2, <3>3, <4>4
        <5>2. j \in 1 .. n
          BY <1>1, <5>1
        <5> QED  BY <4>3, <4>4, <5>2
      <4> QED  BY <4>2, <4>4
    <3> QED  BY <3>1, <3>2, <3>3
  <2>4. ASSUME NEW i \in 1 .. n + 1
        PROVE  /\ stack'[i].loop # 0 => stack'[stack'[i].loop].kind = "loop"
               /\ \A j \in 1 .. i : stack'[j].kind = "loop" => j <= stack'[i].loop
    <3>1. i \in 1 .. n \/ i = n + 1
      BY <1>1
    <3> QED  BY <1>1, <2>2, <2>3, <3>1
  <2> QED  BY <1>1, <2>4 DEF LoopsIndexed
<1> QED  BY <1>6, <1>7 DEF Coherent, OneStory, OpenBody

(* The arm that has just been written.                                     *)
LEMMA ThisArmAgrees ==
    ASSUME TypeOK, Coherent, stack # <<>>
    PROVE  /\ ThisArm \in Arm
           /\ ArmAgrees(Top, ThisArm)
           /\ \A i \in DOMAIN stack : Encloses(stack[i], ThisArm.flow.sym)
<1>1. ThisArm.flow = EndOfBody(Top.pre) /\ ThisArm.falls = ~term /\ term \in BOOLEAN
  BY DEF ThisArm, TypeOK
<1>2. /\ EndOfBody(Top.pre) \in Flow /\ Agrees(EndOfBody(Top.pre))
      /\ EndOfBody(Top.pre).paths = {} <=> term
      /\ \A v \in Vars : EndOfBody(Top.pre).sym[v] = "absent" <=> Top.pre.sym[v] = "absent"
      /\ \A i \in DOMAIN stack : Encloses(stack[i], EndOfBody(Top.pre).sym)
  BY EndAgrees
<1>3. ThisArm \in Arm
  BY <1>1, <1>2 DEF ThisArm, Arm
<1>4. ArmAgrees(Top, ThisArm)
  BY <1>1, <1>2 DEF ArmAgrees
<1> QED  BY <1>1, <1>2, <1>3, <1>4

LEMMA TopAgrees ==
    ASSUME TypeOK, Coherent, stack # <<>>
    PROVE  /\ Len(stack) \in DOMAIN stack /\ Top = stack[Len(stack)] /\ Top \in Frame
           /\ Top.pre \in Flow /\ FrameAgrees(Top)
           /\ \A i \in 1 .. Len(stack) - 1 :
                /\ i \in DOMAIN stack /\ stack[i] \in Frame
                /\ Encloses(stack[i], Top.pre.sym)
                /\ \A a \in Top.arms : Encloses(stack[i], a.flow.sym)
<1>1. Len(stack) \in DOMAIN stack /\ Top = stack[Len(stack)]
  BY InvTyped DEF Top
<1>2. \A i \in 1 .. Len(stack) - 1 : i \in DOMAIN stack /\ i < Len(stack)
  BY InvTyped
<1> QED  BY <1>1, <1>2, InvTyped DEF Coherent, OneStory, Nested

(* Where no binding is hidden a state by name is that of the binding.      *)
LEMMA ClearByName ==
    ASSUME NEW F \in Flow, Clear(F.sym)
    PROVE  ByName(F.sym) = F.sym /\ Saved(F) = F
<1>1. F.sym \in [Vars -> SymState]
  BY DEF Flow
<1>2. ASSUME NEW v \in Vars PROVE ByName(F.sym)[v] = F.sym[v]
  BY DEF Clear, ByName
<1>3. ByName(F.sym) = F.sym
  BY <1>1, <1>2 DEF ByName
<1> QED  BY <1>3 DEF Saved, Flow

(* So the arms of a branch are merged as they were written.                *)
LEMMA SavedSame ==
    ASSUME TypeOK, Coherent, stack # <<>>
    PROVE  /\ Saved(Top.pre) = Top.pre /\ ByName(Top.pre.sym) = Top.pre.sym
           /\ SavedArm = ThisArm /\ LastArms = {ThisArm}
<1>1. /\ Top.pre \in Flow /\ Clear(Top.pre.sym)
  BY TopAgrees DEF Coherent, ClearBodies
<1>2. /\ ThisArm.flow = EndOfBody(Top.pre) /\ ThisArm.flow \in Flow /\ ThisArm \in Arm
      /\ \A v \in Vars : ThisArm.flow.sym[v] = "absent" <=> Top.pre.sym[v] = "absent"
  BY ThisArmAgrees DEF ArmAgrees, ThisArm, Arm
<1>3. \A v \in Vars : name[v] \in Vars
  BY OwnershipAssumption DEF TypeOK
<1>4. Clear(ThisArm.flow.sym)
  BY <1>1, <1>2, <1>3 DEF Clear
<1>5. Saved(ThisArm.flow) = ThisArm.flow
  BY <1>2, <1>4, ClearByName
<1>6. SavedArm = ThisArm
  BY <1>2, <1>5 DEF SavedArm, Arm
<1> QED  BY <1>1, <1>6, ClearByName DEF LastArms

LEMMA NextArmCoherent ==
    ASSUME TypeOK, Coherent, NextArm
    PROVE  OneStory'
<1> DEFINE n == Len(stack)
           f == [Top EXCEPT !.arms = @ \cup {ThisArm}]
<1>1. stack # <<>> /\ Top.kind = "branch"
  BY DEF NextArm
<1>2. /\ n \in DOMAIN stack /\ Top = stack[n] /\ Top \in Frame /\ FrameAgrees(Top)
      /\ DOMAIN stack = 1 .. n /\ n \in Nat
  BY <1>1, TopAgrees, InvTyped
<1>3. stack' = [stack EXCEPT ![n] = f] /\ cur' = Top.pre
  BY <1>1, <1>2, SavedSame DEF NextArm
<1>4. /\ DOMAIN stack' = DOMAIN stack /\ stack'[n] = f
      /\ \A i \in DOMAIN stack : i # n => stack'[i] = stack[i]
  BY <1>2, <1>3, InvTyped
<1>5. /\ f.pre = Top.pre /\ f.kind = Top.kind /\ f.loop = Top.loop
      /\ f.arms = Top.arms \cup {ThisArm} /\ f.breaks = Top.breaks /\ f.back = Top.back
  BY <1>2 DEF Frame
<1> HIDE DEF f
<1>6. FrameAgrees(f)
  <2>1. ArmAgrees(Top, ThisArm)
    BY <1>1, ThisArmAgrees
  <2> QED  BY <1>2, <1>5, <2>1 DEF FrameAgrees, ArmAgrees
<1>7. \A i \in DOMAIN stack : stack'[i].pre = stack[i].pre /\ stack'[i].kind = stack[i].kind
                             /\ stack'[i].loop = stack[i].loop
  BY <1>2, <1>4, <1>5
<1>8. Nested(stack', Top.pre.sym)
  <2>1. ASSUME NEW i \in DOMAIN stack
        PROVE  FrameAgrees(stack'[i]) /\ Encloses(stack'[i], Top.pre.sym)
    <3>1. CASE i = n
      BY <1>4, <1>5, <1>6, <3>1, EnclosesSelf
    <3>2. CASE i # n
      BY <1>2, <1>4, <3>2 DEF Coherent, OneStory, Nested
    <3> QED  BY <3>1, <3>2
  <2>2. ASSUME NEW i \in DOMAIN stack, NEW j \in DOMAIN stack, i < j
        PROVE  /\ Encloses(stack'[i], stack'[j].pre.sym)
               /\ \A a \in stack'[j].arms : Encloses(stack'[i], a.flow.sym)
    <3>1. i # n /\ stack'[i] = stack[i]
      BY <1>2, <1>4, <2>2
    <3>2. /\ Encloses(stack[i], stack[j].pre.sym)
          /\ \A a \in stack[j].arms : Encloses(stack[i], a.flow.sym)
      BY <2>2 DEF Coherent, OneStory, Nested
    <3>3. CASE j # n
      BY <1>4, <3>1, <3>2, <3>3
    <3>4. CASE j = n
      <4>1. Encloses(stack[i], ThisArm.flow.sym)
        BY <1>1, ThisArmAgrees
      <4> QED  BY <1>2, <1>4, <1>5, <3>1, <3>2, <3>4, <4>1
    <3> QED  BY <3>3, <3>4
  <2> QED  BY <1>4, <2>1, <2>2 DEF Nested
<1>9. LoopsIndexed(stack')
  <2>1. \A i \in DOMAIN stack : stack[i].loop \in 0 .. i /\ \A j \in 1 .. i : j \in DOMAIN stack
    BY <1>2 DEF TypeOK
  <2>2. \A i \in DOMAIN stack : stack[i].loop # 0 => stack[i].loop \in DOMAIN stack
    BY <2>1, <1>2
  <2> QED  BY <1>4, <1>7, <2>1, <2>2 DEF Coherent, OneStory, LoopsIndexed
<1>10. Agrees(Top.pre) /\ Top.pre.paths # {}
  BY <1>2 DEF FrameAgrees
<1>11. faults' = {}
  BY NoEndFaults DEF NextArm, Coherent, OneStory
<1> QED  BY <1>3, <1>8, <1>9, <1>10, <1>11 DEF OneStory, NextArm

(* The end of a branch, whichever of its arms fall through.                *)
LEMMA CloseArmsCoherent ==
    ASSUME TypeOK, Coherent, stack # <<>>, NEW arms \in SUBSET Arm, NEW terminates \in BOOLEAN,
           CloseArms(arms, arms, terminates),
           \A a \in arms : a = ThisArm \/ a = SkipArm \/ a \in Top.arms,
           terminates <=> \A a \in arms : ~a.falls
    PROVE  OneStory'
<1> DEFINE M == MergeFlow(Top.pre, arms, arms)
<1>1. /\ Top \in Frame /\ FrameAgrees(Top) /\ Top.pre \in Flow
      /\ \A i \in 1 .. Len(stack) - 1 :
            /\ i \in DOMAIN stack /\ stack[i] \in Frame
            /\ Encloses(stack[i], Top.pre.sym)
            /\ \A a \in Top.arms : Encloses(stack[i], a.flow.sym)
  BY TopAgrees
<1>2. ArmAgrees(Top, ThisArm) /\ \A i \in DOMAIN stack : Encloses(stack[i], ThisArm.flow.sym)
  BY ThisArmAgrees
<1>3. ArmAgrees(Top, SkipArm) /\ SkipArm.flow = Top.pre
  BY <1>1, SavedSame DEF SkipArm, ArmAgrees, FrameAgrees
<1>4. \A a \in arms : ArmAgrees(Top, a)
  BY <1>1, <1>2, <1>3 DEF FrameAgrees
<1>5. Agrees(M) /\ BalanceFaults(arms) = {} /\ (M.paths = {} <=> \A a \in arms : ~a.falls)
  BY <1>1, <1>4, MergeAgrees
<1>6. \A i \in 1 .. Len(stack) - 1 : Encloses(stack[i], M.sym)
  <2>1. TAKE i \in 1 .. Len(stack) - 1
  <2>2. \A a \in arms : Encloses(stack[i], a.flow.sym)
    BY <1>1, <1>2, <1>3
  <2>3. Encloses(stack[i], MergeSym(Top.pre.sym, arms))
    BY <1>1, <1>4, <2>2, MergeEncloses
  <2> QED  BY <2>3 DEF MergeFlow
<1>7. LoopsIndexed(Pop) /\ Nested(Pop, M.sym)
  BY <1>6, NestedPop
<1>8. cur' = M /\ stack' = Pop /\ term' = terminates /\ faults' = {}
  BY <1>5, NoEndFaults, SavedSame DEF CloseArms, Coherent, OneStory
<1> QED  BY <1>5, <1>7, <1>8 DEF Coherent, OneStory

LEMMA ArmsTyped ==
    ASSUME TypeOK, Coherent, stack # <<>>
    PROVE  /\ Top.arms \in SUBSET Arm /\ ThisArm \in Arm /\ SkipArm \in Arm
           /\ SkipArm.falls /\ \A a \in Arm : a.falls \in BOOLEAN
<1>1. Top \in Frame /\ Top.pre \in Flow
  BY TopAgrees
<1> QED  BY <1>1, ThisArmAgrees, SavedSame DEF Frame, Arm, SkipArm

LEMMA CloseExhaustiveCoherent ==
    ASSUME TypeOK, Coherent, CloseExhaustive
    PROVE  OneStory'
<1> DEFINE arms == Top.arms \cup {ThisArm}
           terminates == \A a \in arms : ~a.falls
<1>1. stack # <<>> /\ CloseArms(arms, arms, terminates)
  BY SavedSame DEF CloseExhaustive
<1>2. arms \in SUBSET Arm /\ terminates \in BOOLEAN
  BY <1>1, ArmsTyped
<1> QED  BY <1>1, <1>2, CloseArmsCoherent

LEMMA CloseIfCoherent ==
    ASSUME TypeOK, Coherent, CloseIf
    PROVE  OneStory'
<1> DEFINE arms == {ThisArm, SkipArm}
<1>1. stack # <<>> /\ CloseArms(arms, arms, FALSE)
  BY SavedSame DEF CloseIf
<1>2. arms \in SUBSET Arm /\ SkipArm \in arms /\ SkipArm.falls
  BY <1>1, ArmsTyped
<1> HIDE DEF arms
<1>3. \A a \in arms : a = ThisArm \/ a = SkipArm \/ a \in Top.arms
  BY DEF arms
<1> QED  BY <1>1, <1>2, <1>3, CloseArmsCoherent

(* Where the path that matches no case does not matter, the checker's      *)
(* merge of the cases is the merge of all paths.                           *)
LEMMA CloseSwitchCoherent ==
    ASSUME Shapes = {}, TypeOK, Coherent, CloseSwitch
    PROVE  OneStory'
<1> DEFINE cases == Top.arms \cup {ThisArm}
           arms == cases \cup {SkipArm}
<1>1. /\ stack # <<>> /\ CloseArms(cases, arms, FALSE)
      /\ MergeSym(Top.pre.sym, cases) = MergeSym(Top.pre.sym, arms)
  BY SavedSame DEF CloseSwitch
<1>2. CloseArms(arms, arms, FALSE)
  BY <1>1, SavedSame DEF CloseArms, MergeFlow
<1>3. arms \in SUBSET Arm /\ SkipArm \in arms /\ SkipArm.falls
  BY <1>1, ArmsTyped
<1>4. \A a \in arms : a = ThisArm \/ a = SkipArm \/ a \in Top.arms
  OBVIOUS
<1> HIDE DEF arms
<1> QED  BY <1>1, <1>2, <1>3, <1>4, CloseArmsCoherent

LEMMA CloseBlockCoherent ==
    ASSUME Shapes = {}, TypeOK, Coherent, CloseBlock
    PROVE  OneStory'
<1>1. stack # <<>> /\ term = FALSE
  BY DEF CloseBlock, TypeOK
<1>2. /\ Agrees(cur') /\ cur'.paths # {}
      /\ \A i \in DOMAIN stack : Encloses(stack[i], cur'.sym)
  BY <1>1, EndAgrees DEF CloseBlock
<1>3. LoopsIndexed(Pop) /\ Nested(Pop, cur'.sym)
  BY <1>1, <1>2, NestedPop, TopAgrees
<1>4. stack' = Pop /\ term' = FALSE /\ faults' = {}
  BY NoEndFaults DEF CloseBlock, Coherent, OneStory
<1> QED  BY <1>2, <1>3, <1>4 DEF Coherent, OneStory

(* The states a loop body ends with are those before the loop.             *)
LEMMA CloseLoopCoherent ==
    ASSUME TypeOK, Coherent, CloseLoop
    PROVE  OneStory'
<1> DEFINE end  == EndOfBody(Top.pre)
           back == Top.back \cup end.paths
           G    == Top.pre
<1>1. stack # <<>> /\ Top.kind = "loop"
  BY DEF CloseLoop
<1>2. /\ Top \in Frame /\ G \in Flow /\ FrameAgrees(Top) /\ Agrees(G)
      /\ G.sym \in [Vars -> SymState] /\ G.paths \in SUBSET Valuation
      /\ Top.back \in SUBSET Valuation /\ Top.breaks \in SUBSET Valuation
      /\ Truthful(G.sym, Top.breaks \cup Top.back) /\ G.paths # {}
  BY <1>1, TopAgrees DEF Frame, FrameAgrees, Flow
<1>3. /\ end \in Flow /\ Agrees(end)
      /\ end.sym \in [Vars -> SymState] /\ end.paths \in SUBSET Valuation
      /\ \A v \in Vars : end.sym[v] = "absent" <=> G.sym[v] = "absent"
      /\ InScopeOf(G, end.sym) /\ SteadySince(G, end.sym)
  BY <1>1, EndAgrees, TopAgrees DEF Flow, Encloses
<1>4. RestoreUninitialized(end.sym, G.sym) = G.sym
  BY <1>2, <1>3 DEF RestoreUninitialized, SteadySince
<1>5. Truthful(G.sym, end.paths)
  <2>1. \A p \in end.paths, v \in Vars : G.sym[v] = "absent" => p[v] = "none"
    BY <1>3, MeaningValues DEF Agrees, Truthful
  <2> QED  BY <1>2, <1>3, <2>1, BackToHead DEF Agrees
<1>6. back \in SUBSET Valuation /\ Truthful(G.sym, back)
  BY <1>2, <1>3, <1>5 DEF Truthful
<1>7. Carried(G, back) = {}
  BY <1>2, <1>6, NothingCarried
<1>8. cur' = [sym |-> G.sym, rel |-> G.rel, paths |-> G.paths \cup back \cup Top.breaks]
  BY <1>1, <1>4, SavedSame DEF CloseLoop, LoopExit
<1>9. Agrees(cur') /\ cur'.paths # {}
  <2>1. Truthful(G.sym, G.paths \cup back \cup Top.breaks)
    BY <1>2, <1>6 DEF Truthful, Agrees
  <2>2. BookAgrees(cur')
    BY <1>2, <1>8 DEF Agrees, BookAgrees
  <2> QED  BY <1>2, <1>8, <2>1, <2>2 DEF Agrees
<1>10. LoopsIndexed(Pop) /\ Nested(Pop, cur'.sym)
  BY <1>1, <1>8, NestedPop, TopAgrees
<1>11. stack' = Pop /\ term' = FALSE /\ faults' = {}
  BY <1>7, NoEndFaults DEF CloseLoop, Coherent, OneStory
<1> QED  BY <1>9, <1>10, <1>11 DEF Coherent, OneStory

(* A jump releases the locals of the loop that are live and no others, and *)
(* arrives at the head or behind the loop with what was there before it.   *)
LEMMA JumpAgrees ==
    ASSUME TypeOK, Coherent, InLoop
    PROVE  /\ CurrentLoop \in DOMAIN stack /\ LoopFrame \in Frame
           /\ (\A v \in LoopLocals : Visible(v)) => JumpFaults = {}
           /\ Arrived \in SUBSET Valuation
           /\ Truthful(LoopFrame.pre.sym, Arrived)
<1> DEFINE G == LoopFrame.pre
<1>1. stack # <<>> /\ CurrentLoop \in DOMAIN stack
  <2>1. stack # <<>> /\ CurrentLoop = Top.loop /\ CurrentLoop # 0
    BY DEF InLoop, CurrentLoop
  <2>2. Top = stack[Len(stack)] /\ Len(stack) \in DOMAIN stack
    BY <2>1, TopAgrees
  <2> QED  BY <2>1, <2>2, InvTyped DEF TypeOK
<1>2. LoopFrame \in Frame /\ G \in Flow /\ LoopFrame.kind = "loop"
  <2>1. stack[CurrentLoop].kind = "loop"
    <3>1. CurrentLoop = stack[Len(stack)].loop /\ Len(stack) \in DOMAIN stack /\ CurrentLoop # 0
      BY <1>1, TopAgrees DEF InLoop, CurrentLoop, Top
    <3> QED  BY <3>1 DEF Coherent, OneStory, LoopsIndexed
  <2> QED  BY <1>1, <2>1, InvTyped DEF LoopFrame
<1>3. InScopeOf(G, cur.sym) /\ SteadySince(G, cur.sym)
  BY <1>1, <1>2 DEF Coherent, OneStory, Nested, Encloses, LoopFrame
<1>4. /\ cur \in Flow /\ Agrees(cur) /\ cur.paths \in SUBSET Valuation
      /\ LoopLocals \in SUBSET Vars /\ LoopLocals \subseteq Open(cur)
      /\ LoopLocals = {v \in Vars : cur.sym[v] # "absent" /\ G.sym[v] = "absent"}
  BY InvTyped DEF Coherent, OneStory, LoopLocals, Locals, Open
<1>5. ASSUME \A v \in LoopLocals : Visible(v) PROVE JumpFaults = {}
  <2> DEFINE found == UNION {Found(v) : v \in LoopLocals \cap Active(cur)}
             released == (LoopLocals \cap Active(cur) \cap Owned) \ cur.rel
  <2>a. found = LoopLocals \cap Active(cur)
    BY <1>5 DEF Found
  <2>1. \A v \in released : cur.sym[v] = "active"
    BY DEF Active
  <2>2. ASSUME NEW v \in (LoopLocals \ released) \cap Owned PROVE cur.sym[v] # "active"
    <3>1. cur.sym[v] = "active" => v \notin cur.rel
      BY <1>4 DEF Agrees, BookAgrees
    <3> QED  BY <1>4, <2>2, <3>1 DEF Active
  <2>3. released \in SUBSET Vars /\ LoopLocals \ released \in SUBSET Vars
    BY <1>4
  <2>4. Doubled(cur.paths, released) = {}
    BY <1>4, <2>1, <2>3, Harmless
  <2>5. Leaked(cur.paths, LoopLocals \ released) = {}
    BY <1>4, <2>2, <2>3, Harmless
  <2> QED  BY <2>a, <2>4, <2>5 DEF JumpFaults
<1>6. /\ Arrived = PopIn(cur, LoopLocals).paths
      /\ PopIn(cur, LoopLocals) \in Flow /\ Agrees(PopIn(cur, LoopLocals))
      /\ Arrived \in SUBSET Valuation
  BY <1>4, FlowOpsTyped, AgreesPop DEF Arrived, PopIn, Flow
<1>7. \A v \in Vars : PopIn(cur, LoopLocals).sym[v] = IF v \in LoopLocals THEN "absent" ELSE cur.sym[v]
  BY DEF PopIn, SetIn
<1>8. Truthful(G.sym, Arrived)
  <2> DEFINE F == PopIn(cur, LoopLocals)
  <2>1. F \in Flow /\ Truthful(F.sym, Arrived)
    BY <1>6 DEF Agrees
  <2>2. InScopeOf(G, F.sym) /\ SteadySince(G, F.sym)
    <3> HIDE DEF F
    <3>1. \A v \in Vars : F.sym[v] = IF v \in LoopLocals THEN "absent" ELSE cur.sym[v]
      BY <1>7 DEF F
    <3> QED  BY <1>3, <1>4, <3>1 DEF InScopeOf, SteadySince
  <2>3. \A v \in Vars : G.sym[v] = "absent" => F.sym[v] = "absent"
    BY <1>4, <1>7
  <2> HIDE DEF F
  <2>4. \A p \in Arrived, v \in Vars : G.sym[v] = "absent" => p[v] = "none"
    BY <2>1, <2>3, MeaningValues DEF Truthful
  <2> QED  BY <1>2, <1>6, <2>1, <2>2, <2>4, BackToHead
<1> QED  BY <1>1, <1>2, <1>5, <1>6, <1>8

(* After a jump only the loop's account of arriving paths has changed.     *)
LEMMA JumpNested ==
    ASSUME TypeOK, Coherent, InLoop, NEW f \in Frame, FrameAgrees(f),
           f.pre = LoopFrame.pre, f.kind = LoopFrame.kind, f.loop = LoopFrame.loop,
           f.arms = LoopFrame.arms, stack' = [stack EXCEPT ![CurrentLoop] = f]
    PROVE  LoopsIndexed(stack') /\ Nested(stack', cur.sym)
<1>1. /\ CurrentLoop \in DOMAIN stack /\ DOMAIN stack' = DOMAIN stack
      /\ DOMAIN stack = 1 .. Len(stack) /\ Len(stack) \in Nat
  BY JumpAgrees, InvTyped
<1>2. ASSUME NEW i \in DOMAIN stack
      PROVE  /\ stack'[i].pre = stack[i].pre /\ stack'[i].kind = stack[i].kind
             /\ stack'[i].loop = stack[i].loop /\ stack'[i].arms = stack[i].arms
             /\ FrameAgrees(stack'[i])
  <2>1. CASE i = CurrentLoop
    BY <1>1, <2>1 DEF LoopFrame
  <2>2. CASE i # CurrentLoop
    BY <1>1, <2>2 DEF Coherent, OneStory, Nested
  <2> QED  BY <2>1, <2>2
<1>3. Nested(stack', cur.sym)
  BY <1>1, <1>2 DEF Coherent, OneStory, Nested, Encloses
<1>4. LoopsIndexed(stack')
  <2>1. \A i \in DOMAIN stack : stack[i].loop \in 0 .. i /\ \A j \in 1 .. i : j \in DOMAIN stack
    BY <1>1 DEF TypeOK
  <2>2. \A i \in DOMAIN stack : stack[i].loop # 0 => stack[i].loop \in DOMAIN stack
    BY <2>1, <1>1
  <2> QED  BY <1>1, <1>2, <2>1, <2>2 DEF Coherent, OneStory, LoopsIndexed
<1> QED  BY <1>3, <1>4

LEMMA LeaveCoherent ==
    ASSUME Shapes = {}, TypeOK, Coherent, LeaveBody
    PROVE  /\ Agrees(cur') /\ cur'.paths = {} /\ cur'.sym = cur.sym
           /\ term' = TRUE /\ faults' = {} /\ InLoop
<1>1. InLoop /\ cur' = Dead(cur) /\ cur \in Flow /\ Agrees(cur)
  BY InvTyped DEF LeaveBody, Coherent, OneStory
<1>2. cur'.paths = {} /\ cur'.sym = cur.sym
  BY <1>1 DEF Dead, Flow
<1>3. Agrees(cur')
  BY <1>1, AgreesDead
<1>4. faults' = {} /\ term' = TRUE
  BY <1>1, JumpAgrees DEF LeaveBody, Coherent, OneStory
<1> QED  BY <1>1, <1>2, <1>3, <1>4

LEMMA BreakCoherent ==
    ASSUME Shapes = {}, TypeOK, Coherent, Break
    PROVE  OneStory'
<1> DEFINE f == [LoopFrame EXCEPT !.breaks = @ \cup Arrived]
<1>1. /\ Agrees(cur') /\ cur'.paths = {} /\ cur'.sym = cur.sym
      /\ term' = TRUE /\ faults' = {} /\ InLoop
  BY LeaveCoherent DEF Break
<1>2. /\ CurrentLoop \in DOMAIN stack /\ LoopFrame \in Frame /\ FrameAgrees(LoopFrame)
      /\ Arrived \in SUBSET Valuation /\ Truthful(LoopFrame.pre.sym, Arrived)
  BY <1>1, JumpAgrees DEF LoopFrame, Coherent, OneStory, Nested
<1>3. /\ f \in Frame /\ f.pre = LoopFrame.pre /\ f.kind = LoopFrame.kind
      /\ f.loop = LoopFrame.loop /\ f.arms = LoopFrame.arms
      /\ f.breaks = LoopFrame.breaks \cup Arrived /\ f.back = LoopFrame.back
  BY <1>2 DEF Frame
<1>4. stack' = [stack EXCEPT ![CurrentLoop] = f]
  BY <1>2 DEF Break, LoopFrame
<1> HIDE DEF f
<1>5. FrameAgrees(f)
  BY <1>2, <1>3 DEF FrameAgrees, ArmAgrees, Truthful
<1>6. LoopsIndexed(stack') /\ Nested(stack', cur.sym)
  BY <1>1, <1>3, <1>4, <1>5, JumpNested
<1> QED  BY <1>1, <1>6 DEF Coherent, OneStory

LEMMA ContinueCoherent ==
    ASSUME Shapes = {}, TypeOK, Coherent, Continue
    PROVE  OneStory'
<1> DEFINE f == [LoopFrame EXCEPT !.back = @ \cup Arrived]
<1>1. /\ Agrees(cur') /\ cur'.paths = {} /\ cur'.sym = cur.sym
      /\ term' = TRUE /\ faults' = {} /\ InLoop
  BY LeaveCoherent DEF Continue
<1>2. /\ CurrentLoop \in DOMAIN stack /\ LoopFrame \in Frame /\ FrameAgrees(LoopFrame)
      /\ Arrived \in SUBSET Valuation /\ Truthful(LoopFrame.pre.sym, Arrived)
  BY <1>1, JumpAgrees DEF LoopFrame, Coherent, OneStory, Nested
<1>3. /\ f \in Frame /\ f.pre = LoopFrame.pre /\ f.kind = LoopFrame.kind
      /\ f.loop = LoopFrame.loop /\ f.arms = LoopFrame.arms
      /\ f.breaks = LoopFrame.breaks /\ f.back = LoopFrame.back \cup Arrived
  BY <1>2 DEF Frame
<1>4. stack' = [stack EXCEPT ![CurrentLoop] = f]
  BY <1>2 DEF Continue, LoopFrame
<1> HIDE DEF f
<1>5. FrameAgrees(f)
  BY <1>2, <1>3 DEF FrameAgrees, ArmAgrees, Truthful
<1>6. LoopsIndexed(stack') /\ Nested(stack', cur.sym)
  BY <1>1, <1>3, <1>4, <1>5, JumpNested
<1> QED  BY <1>1, <1>6 DEF Coherent, OneStory

LEMMA ReturnCoherent ==
    ASSUME Shapes = {}, TypeOK, Coherent, NEW R \in SUBSET Owned, NEW W \in SUBSET Owned,
           Return(R, W)
    PROVE  OneStory'
<1> DEFINE released == (Open(cur) \cap Owned) \ (cur.rel \cup R \cup W)
           kept == Open(cur) \ (released \cup R \cup W)
<1>1. /\ cur \in Flow /\ Agrees(cur) /\ Open(cur) \in SUBSET Vars
      /\ R \in SUBSET Vars /\ W \in SUBSET Vars
  BY InvTyped DEF Coherent, OneStory, Open, Owned
<1>2. \A v \in R \cup W : cur.sym[v] = "active"
  BY DEF Return
<1>3. \A w \in W : ~OuterToLoop(w)
  BY DEF Return, ReturnShape
<1>4. Stale(cur.paths, R \cup W) = {}
  BY <1>1, <1>2, Harmless
<1>5. Doubled(cur.paths, released) = {}
  <2>1. \A v \in released \cap Owned : cur.sym[v] = "active"
    BY <1>1, NotInBook
  <2>2. released \in SUBSET Vars
    BY <1>1
  <2> HIDE DEF released
  <2> QED  BY <1>1, <2>1, <2>2, Harmless
<1>6. Leaked(cur.paths, kept) = {}
  <2>1. \A v \in kept \cap Owned : cur.sym[v] # "active"
    BY <1>1, NotInBook
  <2>2. kept \in SUBSET Vars
    BY <1>1
  <2> HIDE DEF kept
  <2> QED  BY <1>1, <2>1, <2>2, Harmless
<1>7. ConsumeIn(cur, W) \in Flow /\ Agrees(ConsumeIn(cur, W))
  BY <1>1, FlowOpsTyped, AgreesConsume
<1>8. cur' = Dead(ConsumeIn(cur, W)) /\ Agrees(cur') /\ cur'.paths = {}
  BY <1>7, AgreesDead DEF Return, Dead, ConsumeIn
<1>9. \A u \in Vars : cur'.sym[u] = IF u \in W THEN "consumed" ELSE cur.sym[u]
  BY <1>8 DEF Dead, ConsumeIn, SetIn
<1>10. Nested(stack, cur'.sym)
  BY <1>3, <1>9, WriteNested
<1>11. faults' = {} /\ term' = TRUE /\ stack' = stack
  BY <1>4, <1>5, <1>6 DEF Return, Coherent, OneStory
<1> QED  BY <1>8, <1>10, <1>11 DEF Coherent, OneStory

----------------------------------------------------------------------------
(* Soundness *)

LEMMA InitCoherent == Init => Coherent
<1> SUFFICES ASSUME Init PROVE Coherent
  OBVIOUS
<1>1. Agrees(cur)
  BY MeaningValues DEF Init, Agrees, BookAgrees, Truthful
<1>2. term = FALSE /\ cur.paths # {} /\ stack = <<>> /\ faults = {}
  BY DEF Init
<1>3. LoopsIndexed(stack) /\ Nested(stack, cur.sym)
  BY <1>2 DEF LoopsIndexed, Nested
<1>4. ClearBodies
  BY <1>2 DEF ClearBodies
<1> QED  BY <1>1, <1>2, <1>3, <1>4 DEF Coherent, OneStory

LEMMA NextTells == Shapes = {} /\ TypeOK /\ Coherent /\ [Next]_vars => OneStory'
<1> SUFFICES ASSUME Shapes = {}, TypeOK, Coherent, [Next]_vars PROVE OneStory'
  OBVIOUS
<1>1. ASSUME NEW v \in Owned, NEW W \in Operands, Let(v, W) PROVE OneStory'
  BY <1>1, LetCoherent
<1>2. ASSUME NEW s \in Scalars, Var(s) PROVE OneStory'
  BY <1>2, VarCoherent
<1>3. ASSUME NEW v \in Vars, Use(v) PROVE OneStory'
  BY <1>3, UseCoherent
<1>4. ASSUME NEW v \in Vars, Consume(v) PROVE OneStory'
  BY <1>4, ConsumeCoherent
<1>5. ASSUME NEW v \in Vars, NEW W \in SUBSET Owned, Assign(v, W) PROVE OneStory'
  BY <1>5, AssignCoherent
<1>6. ASSUME NEW kind \in {"branch", "block", "loop"}, NEW exits \in BOOLEAN, OpenBody(kind, exits)
      PROVE OneStory'
  BY <1>6, OpenCoherent
<1>7. ASSUME NextArm \/ CloseExhaustive \/ CloseIf \/ CloseSwitch \/ CloseBlock \/ CloseLoop
      PROVE OneStory'
  BY <1>7, NextArmCoherent, CloseExhaustiveCoherent, CloseIfCoherent, CloseSwitchCoherent,
     CloseBlockCoherent, CloseLoopCoherent
<1>8. ASSUME Break \/ Continue PROVE OneStory'
  BY <1>8, BreakCoherent, ContinueCoherent
<1>9. ASSUME NEW R \in SUBSET Owned, NEW W \in SUBSET Owned, Return(R, W) PROVE OneStory'
  BY <1>9, ReturnCoherent
<1>10. CASE UNCHANGED vars
  BY <1>10 DEF vars, Coherent, OneStory
<1>11. Owned \subseteq Vars /\ Scalars \subseteq Vars /\ Operands \subseteq SUBSET Owned
       /\ {} \in SUBSET Owned
  BY OwnershipAssumption DEF Owned, Operands
<1> QED  BY <1>1, <1>2, <1>3, <1>4, <1>5, <1>6, <1>7, <1>8, <1>9, <1>10, <1>11 DEF Next, Statements

(* A body is opened where no binding is hidden, and keeps the states it    *)
(* was opened with.                                                        *)
LEMMA OpenClear ==
    ASSUME Shapes = {}, TypeOK, ClearBodies, UNCHANGED name,
           NEW kind \in {"branch", "block", "loop"}, NEW exits \in BOOLEAN, OpenBody(kind, exits)
    PROVE  ClearBodies'
<1>1. /\ stack' = Append(stack, NewFrame(kind, exits)) /\ NewFrame(kind, exits).pre = cur
      /\ \A v \in Open(cur) : Visible(v)
  BY DEF OpenBody, NewFrame
<1>2. Clear(cur.sym)
  <2>1. \A v \in Vars : name[v] \in Vars
    BY OwnershipAssumption DEF TypeOK
  <2> QED  BY <1>1, <2>1 DEF Clear, Visible, Hiders, Open
<1>3. ASSUME NEW i \in DOMAIN stack'
      PROVE  Clear(stack'[i].pre.sym)
  <2>1. /\ Len(stack) \in Nat /\ DOMAIN stack = 1 .. Len(stack)
        /\ i \in 1 .. Len(stack) \/ i = Len(stack) + 1
        /\ \A j \in 1 .. Len(stack) : stack'[j] = stack[j]
        /\ stack'[Len(stack) + 1] = NewFrame(kind, exits)
    BY <1>1, InvTyped DEF TypeOK
  <2> QED  BY <1>1, <1>2, <2>1 DEF ClearBodies
<1> QED  BY <1>3 DEF ClearBodies, Clear

LEMMA KeepClear ==
    ASSUME TypeOK, ClearBodies, UNCHANGED name, DOMAIN stack' \subseteq DOMAIN stack,
           \A i \in DOMAIN stack' : stack'[i].pre = stack[i].pre
    PROVE  ClearBodies'
BY DEF ClearBodies, Clear

LEMMA UpdateClear ==
    ASSUME TypeOK, ClearBodies, UNCHANGED name, NEW n \in DOMAIN stack, NEW f,
           f.pre = stack[n].pre, stack' = [stack EXCEPT ![n] = f]
    PROVE  ClearBodies'
BY InvTyped, KeepClear DEF ClearBodies

LEMMA PopClear ==
    ASSUME TypeOK, ClearBodies, UNCHANGED name, stack # <<>>, stack' = Pop
    PROVE  ClearBodies'
<1>1. /\ Len(stack) \in Nat \ {0} /\ Pop \in Seq(Frame) /\ Len(Pop) = Len(stack) - 1
      /\ \A i \in 1 .. Len(stack) - 1 : Pop[i] = stack[i]
      /\ DOMAIN stack = 1 .. Len(stack)
  BY TopTyped, InvTyped DEF TypeOK
<1>2. DOMAIN Pop = 1 .. Len(stack) - 1
  BY <1>1, LenProperties
<1> QED  BY <1>1, <1>2, KeepClear

LEMMA NextClear == Shapes = {} /\ TypeOK /\ Coherent /\ [Next]_vars => ClearBodies'
<1> SUFFICES ASSUME Shapes = {}, TypeOK, Coherent, [Next]_vars PROVE ClearBodies'
  OBVIOUS
<1>1. UNCHANGED name /\ ClearBodies
  BY DEF Next, vars, Coherent
<1>2. ASSUME UNCHANGED stack PROVE ClearBodies'
  BY <1>1, <1>2 DEF ClearBodies, Clear
<1>3. ASSUME NEW kind \in {"branch", "block", "loop"}, NEW exits \in BOOLEAN, OpenBody(kind, exits)
      PROVE ClearBodies'
  BY <1>1, <1>3, OpenClear
<1>4. CASE NextArm
  <2>1. stack # <<>> /\ Top \in Frame /\ Len(stack) \in DOMAIN stack /\ Top = stack[Len(stack)]
    BY <1>4, TopAgrees DEF NextArm
  <2>2. /\ stack' = [stack EXCEPT ![Len(stack)] = [Top EXCEPT !.arms = @ \cup {SavedArm}]]
        /\ [Top EXCEPT !.arms = @ \cup {SavedArm}].pre = stack[Len(stack)].pre
    BY <1>4, <2>1 DEF NextArm, Frame
  <2> QED  BY <1>1, <2>1, <2>2, UpdateClear
<1>5. ASSUME CloseExhaustive \/ CloseIf \/ CloseSwitch \/ CloseBlock \/ CloseLoop
      PROVE ClearBodies'
  <2>1. stack # <<>> /\ stack' = Pop
    BY <1>5 DEF CloseExhaustive, CloseIf, CloseSwitch, CloseArms, CloseBlock, CloseLoop
  <2> QED  BY <1>1, <2>1, PopClear
<1>6. ASSUME Break \/ Continue PROVE ClearBodies'
  <2>1. CurrentLoop \in DOMAIN stack /\ LoopFrame \in Frame /\ LoopFrame = stack[CurrentLoop]
    BY <1>6, JumpAgrees DEF Break, Continue, LeaveBody, LoopFrame
  <2>2. CASE Break
    <3>1. /\ stack' = [stack EXCEPT ![CurrentLoop] = [LoopFrame EXCEPT !.breaks = @ \cup Arrived]]
          /\ [LoopFrame EXCEPT !.breaks = @ \cup Arrived].pre = stack[CurrentLoop].pre
      BY <2>1, <2>2 DEF Break, Frame
    <3> QED  BY <1>1, <2>1, <3>1, UpdateClear
  <2>3. CASE Continue
    <3>1. /\ stack' = [stack EXCEPT ![CurrentLoop] = [LoopFrame EXCEPT !.back = @ \cup Arrived]]
          /\ [LoopFrame EXCEPT !.back = @ \cup Arrived].pre = stack[CurrentLoop].pre
      BY <2>1, <2>3 DEF Continue, Frame
    <3> QED  BY <1>1, <2>1, <3>1, UpdateClear
  <2> QED  BY <1>6, <2>2, <2>3
<1>7. ASSUME \/ \E v \in Owned, W \in Operands : Let(v, W)
             \/ \E s \in Scalars : Var(s)
             \/ \E v \in Vars : Use(v) \/ Consume(v)
             \/ \E v \in Owned, W \in Operands : Assign(v, W)
             \/ \E s \in Scalars : Assign(s, {})
             \/ \E W \in Operands : Return({}, W) \/ Return(W, {})
             \/ UNCHANGED vars
      PROVE  ClearBodies'
  <2>1. UNCHANGED stack
    BY <1>7 DEF Let, Var, Use, Consume, Assign, Return, vars
  <2> QED  BY <1>2, <2>1
<1> QED  BY <1>3, <1>4, <1>5, <1>6, <1>7 DEF Next, Statements

LEMMA NextCoherent == Shapes = {} /\ TypeOK /\ Coherent /\ [Next]_vars => Coherent'
BY NextTells, NextClear DEF Coherent

(* In a body that uses none of the rarer shapes, of any length, depth and  *)
(* number of bindings, the checker's states, the emitter's book and the    *)
(* values on every path agree at every point, and no statement written so  *)
(* far commits a fault.                                                    *)
THEOREM Soundness == Shapes = {} => (Spec => []Coherent)
<1> SUFFICES ASSUME Shapes = {} PROVE Spec => []Coherent
  OBVIOUS
<1>1. TypeOK /\ Coherent /\ [Next]_vars => Coherent'
  BY NextCoherent
<1> QED  BY <1>1, InitCoherent, TypeCorrect, PTL DEF Spec

(* What Coherent says of the emitted code: no path uses a moved or an      *)
(* unassigned value, releases one twice, leaks one, or comes back to a     *)
(* loop head in another state.                                             *)
THEOREM NoFaults ==
    Shapes = {} =>
        (Spec => [](NoUseAfterMove /\ NoUseBeforeInit /\ NoDoubleRelease /\ NoLeak /\ LoopHeadStable))
<1> SUFFICES ASSUME Shapes = {}
             PROVE  Spec => [](NoUseAfterMove /\ NoUseBeforeInit /\ NoDoubleRelease
                                 /\ NoLeak /\ LoopHeadStable)
  OBVIOUS
<1>1. Coherent => NoUseAfterMove /\ NoUseBeforeInit /\ NoDoubleRelease /\ NoLeak /\ LoopHeadStable
  BY DEF Coherent, OneStory, NoUseAfterMove, NoUseBeforeInit, NoDoubleRelease, NoLeak, LoopHeadStable, NoFault
<1> QED  BY <1>1, Soundness, PTL

(* A binding the checker calls consumed holds no value on any path, so a   *)
(* reassignment has none to drop.                                          *)
THEOREM OldValueGone == Shapes = {} => (Spec => []ConsumedHasNoOldValue)
<1> SUFFICES ASSUME Shapes = {} PROVE Spec => []ConsumedHasNoOldValue
  OBVIOUS
<1>1. Coherent => ConsumedHasNoOldValue
  BY MeaningValues DEF Coherent, OneStory, Agrees, Truthful, ConsumedHasNoOldValue, Owned
<1> QED  BY <1>1, Soundness, PTL

(* No path uses or moves a binding that was moved on it: the merge of the  *)
(* checker's states loses no move of any path.                             *)
THEOREM MovedNotUsed == Shapes = {} => (Spec => []NoUseAfterMove)
BY NoFaults, PTL

(* No path uses a binding it has not assigned, although arms may assign it *)
(* separately.                                                             *)
THEOREM AssignedBeforeUse == Shapes = {} => (Spec => []NoUseBeforeInit)
BY NoFaults, PTL

(* No path releases a value twice, through any nesting of scopes, arms and *)
(* early returns that each emit releases.                                  *)
THEOREM ReleasedOnce == Shapes = {} => (Spec => []NoDoubleRelease)
BY NoFaults, PTL

(* Every value a path owns is released by its end: at a block's end, by    *)
(* the compensation at a merge, or on the way out of a jump or return.     *)
THEOREM ReleasedAlways == Shapes = {} => (Spec => []NoLeak)
BY NoFaults, PTL

(* A path that comes back to a loop head finds its values as the checker   *)
(* assumed when it went through the body once.                             *)
THEOREM LoopComesBack == Shapes = {} => (Spec => []LoopHeadStable)
BY NoFaults, PTL
=============================================================================
