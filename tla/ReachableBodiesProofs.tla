----------------------- MODULE ReachableBodiesProofs -----------------------
(* Proofs about ReachableBodies, for all sources, modules and bounds. *)
EXTENDS ReachableBodies, FiniteSetTheorems, SequenceTheorems, TLAPS

----------------------------------------------------------------------------
(* Worklists *)

LEMMA Sequenced ==
    ASSUME NEW S, IsFiniteSet(S)
    PROVE  /\ SetToSeq(S) \in Seq(S)
           /\ Range(SetToSeq(S)) = S
<1> DEFINE n == Cardinality(S)
           f == SetToSeq(S)
<1>1. n \in Nat /\ ExistsBijection(1..n, S)
  BY FS_CardinalityType
<1>2. \E g \in [1..n -> S] : IsInjective(g)
  BY <1>1 DEF ExistsBijection, Bijection, Injection
<1>3. f \in [1..n -> S] /\ IsInjective(f)
  BY <1>2 DEF SetToSeq
<1>4. f \in Seq(S)
  BY <1>1, <1>3, SeqDef
<1>5. ASSUME NEW x \in S, x \notin Range(f) PROVE FALSE
  <2>1. IsFiniteSet(S \ {x}) /\ Cardinality(S \ {x}) = n - 1
    BY FS_RemoveElement
  <2>2. IsFiniteSet(1..n) /\ Cardinality(1..n) = n
    BY <1>1, FS_Interval
  <2>3. f \in [1..n -> S \ {x}]
    BY <1>3, <1>5 DEF Range
  <2>4. \E i, j \in 1..n : i # j /\ f[i] = f[j]
    <3>1. Cardinality(S \ {x}) < Cardinality(1..n)
      BY <1>1, <2>1, <2>2
    <3> HIDE DEF f, n
    <3> QED  BY <2>1, <2>2, <2>3, <3>1, FS_PigeonHole
  <2> QED  BY <1>3, <2>4 DEF IsInjective
<1> QED  BY <1>3, <1>4, <1>5 DEF Range

LEMMA SymbolsFinite == \A S \in SUBSET Callers : IsFiniteSet(S)
<1>1. IsFiniteSet(Names)
  BY FS_Union, ReachAssumption DEF Names
<1>2. IsFiniteSet({"plain"} \X Names) /\ IsFiniteSet({"alias"} \X Funcs)
  BY <1>1, FS_Product, FS_Singleton, ReachAssumption
<1>3. IsFiniteSet(Symbols) /\ IsFiniteSet({Root})
  BY <1>2, FS_Union, FS_Singleton DEF Symbols
<1> QED  BY <1>3, FS_Union, FS_Subset DEF Callers

LEMMA Queued ==
    ASSUME NEW S \in SUBSET Callers
    PROVE  SetToSeq(S) \in Seq(S) /\ Range(SetToSeq(S)) = S
BY Sequenced, SymbolsFinite

----------------------------------------------------------------------------
(* What a walk does *)

Kinds == {"direct", "associated", "imported_macro"}
Records(callers) == [kind : Kinds, caller : callers, call : Calls]

LEMMA MarkedIndexed ==
    ASSUME NEW index, NEW known, NEW s, NEW body
    PROVE  Marked(index, known, s, body) \subseteq index
BY DEF Marked, Candidates

LEMMA NamedCallsTyped ==
    ASSUME NEW body \in SUBSET Calls, NEW known \in BOOLEAN, source[Macro] \subseteq Funcs
    PROVE  NamedCalls(body, known) \subseteq Calls
BY DEF NamedCalls, Expansion, Calls

LEMMA UnresolvedTyped ==
    ASSUME NEW body \in SUBSET Calls, NEW known \in BOOLEAN, source[Macro] \subseteq Funcs,
           NEW index, NEW s
    PROVE  Unresolved(index, known, s, body) \subseteq Records({s})
BY NamedCallsTyped DEF Unresolved, Records, Kinds

(* A walk keeps what there is, adds what the bodies of its callers mark or *)
(* leave open, and queues what it adds.                                    *)
WalkEffect(callers, queue, mods, known) ==
    /\ reach \subseteq reach' /\ reach' \subseteq reach \cup Index(mods)
    /\ reach' \subseteq Symbols
    /\ refs \subseteq refs' /\ refs' \subseteq Calls
    /\ work' \in Seq(reach') /\ Range(work') = Range(queue) \cup (reach' \ reach)
    /\ records \subseteq records' /\ records' \subseteq Records(reach' \cup {Root})
    /\ \A s \in callers :
          /\ Marked(Index(mods), known, s, Body(s)) \subseteq reach'
          /\ Unresolved(Index(mods), known, s, Body(s)) \subseteq records'
          /\ Undeclared(Index(mods), Body(s)) \subseteq refs'
    /\ \A x \in reach' \ reach :
          \E s \in callers : x \in Marked(Index(mods), known, s, Body(s))

LEMMA WalkHasEffect ==
    ASSUME reach \subseteq Symbols, refs \subseteq Calls, records \subseteq Records(reach \cup {Root}),
           source[Macro] \subseteq Funcs,
           NEW callers \in SUBSET (reach \cup {Root}),
           \A s \in callers : Body(s) \subseteq Calls,
           NEW queue \in Seq(reach), NEW mods, NEW known \in BOOLEAN,
           Walk(callers, queue, mods, known)
    PROVE  WalkEffect(callers, queue, mods, known)
<1> DEFINE marked(s) == Marked(Index(mods), known, s, Body(s))
           unresolved(s) == Unresolved(Index(mods), known, s, Body(s))
<1>1. /\ reach' = reach \cup UNION {marked(s) : s \in callers}
      /\ records' = records \cup UNION {unresolved(s) : s \in callers}
      /\ refs' = refs \cup UNION {Undeclared(Index(mods), Body(s)) : s \in callers}
      /\ work' = queue \o SetToSeq(reach' \ reach)
  BY DEF Walk
<1>2. \A s \in callers : marked(s) \subseteq Index(mods)
  BY MarkedIndexed
<1>3. Index(mods) \subseteq Symbols
  BY DEF Index
<1>4. /\ reach \subseteq reach' /\ reach' \subseteq reach \cup Index(mods)
      /\ reach' \subseteq Symbols
      /\ \A x \in reach' \ reach : \E s \in callers : x \in marked(s)
      /\ \A s \in callers : marked(s) \subseteq reach'
  <2> HIDE DEF marked
  <2> QED  BY <1>1, <1>2, <1>3
<1>5. /\ refs \subseteq refs' /\ refs' \subseteq Calls
      /\ \A s \in callers : Undeclared(Index(mods), Body(s)) \subseteq refs'
  BY <1>1 DEF Undeclared
<1>6. /\ records \subseteq records' /\ records' \subseteq Records(reach' \cup {Root})
      /\ \A s \in callers : unresolved(s) \subseteq records'
  <2>1. \A s \in callers : unresolved(s) \subseteq Records({s})
    BY UnresolvedTyped
  <2>2. \A s \in callers : Records({s}) \subseteq Records(reach' \cup {Root})
    BY <1>4 DEF Records
  <2>3. Records(reach \cup {Root}) \subseteq Records(reach' \cup {Root})
    BY <1>4 DEF Records
  <2>4. \A s \in callers : unresolved(s) \subseteq Records(reach' \cup {Root})
    BY <2>1, <2>2
  <2>5. records' = records \cup UNION {unresolved(s) : s \in callers}
    BY <1>1
  <2> HIDE DEF unresolved, Records
  <2> QED  BY <2>3, <2>4, <2>5
<1>7. /\ SetToSeq(reach' \ reach) \in Seq(reach' \ reach)
      /\ Range(SetToSeq(reach' \ reach)) = reach' \ reach
  BY <1>4, Queued DEF Callers
<1>8. /\ work' \in Seq(reach') /\ Range(work') = Range(queue) \cup (reach' \ reach)
  <2>1. queue \in Seq(reach') /\ SetToSeq(reach' \ reach) \in Seq(reach')
    BY <1>4, <1>7, SeqMonotonic
  <2>2. Range(queue \o SetToSeq(reach' \ reach)) = Range(queue) \cup Range(SetToSeq(reach' \ reach))
    BY <2>1, RangeConcatenation
  <2> QED  BY <1>1, <1>7, <2>1, <2>2, ConcatProperties
<1> QED  BY <1>4, <1>5, <1>6, <1>8 DEF WalkEffect

----------------------------------------------------------------------------
(* What more modules mean to a body *)

(* A name resolves exactly when the function is declared in the modules, *)
(* whichever of its symbols the caller prefers.                          *)
LEMMA DirectIndexed ==
    ASSUME NEW mods, NEW caller, NEW call \in Calls
    PROVE  Direct(Index(mods), caller, call) \in Index(mods)
              <=> call[2] \in Funcs \cap Defined /\ Home[call[2]] \in mods
<1>1. \A x \in Funcs : /\ <<"alias", x>> \in Index(mods) <=> x \in Defined /\ Home[x] \in mods
                       /\ <<"plain", x>> \in Index(mods) <=> x \in Defined /\ Home[x] \in mods
  BY DEF Index, Symbols, Names
<1>2. \A x \in Spoken \cup {Macro} : <<"alias", x>> \notin Index(mods) /\ <<"plain", x>> \notin Index(mods)
  BY ReachAssumption DEF Index, Symbols, Names
<1>3. CASE call[1] = "qualified"
  BY <1>1, <1>3 DEF Direct, Calls
<1>4. CASE call[1] # "qualified"
  <2>1. call[2] \in Funcs \cup (Spoken \cup {Macro})
    BY DEF Calls
  <2>2. Direct(Index(mods), caller, call) \in {<<"alias", call[2]>>, <<"plain", call[2]>>}
    BY <1>4 DEF Direct, Target
  <2>3. call[2] \in Spoken \cup {Macro} => call[2] \notin Funcs
    BY ReachAssumption DEF Names
  <2> QED  BY <1>1, <1>2, <2>1, <2>2, <2>3
<1> QED  BY <1>3, <1>4

LEMMA FunctionCandidates ==
    ASSUME NEW mods, NEW x \in Funcs \cap Defined, Home[x] \in mods
    PROVE  <<"alias", x>> \in Candidates(Index(mods), x)
BY DEF Candidates, Index, Symbols

LEMMA OpenUnresolvable ==
    ASSUME NEW mods, NEW known \in BOOLEAN, NEW s, NEW body \in SUBSET Calls,
           source[Macro] \subseteq Funcs,
           NEW r \in Unresolved(Index(mods), known, s, body)
    PROVE  ~CanResolve(Index(mods), r) /\ (r.kind = "imported_macro" => ~known)
<1> DEFINE index == Index(mods)
<1>1. CASE r.kind = "direct"
  <2>1. Direct(index, r.caller, r.call) \notin index
    BY <1>1 DEF Unresolved
  <2> QED  BY <1>1, <2>1 DEF CanResolve
<1>2. CASE r.kind = "associated"
  <2>1. Candidates(index, r.call[2]) = {} /\ r.call \in Calls
    BY <1>2 DEF Unresolved
  <2>2. Direct(index, r.caller, r.call) \notin index
    BY <2>1, DirectIndexed, FunctionCandidates
  <2> QED  BY <1>2, <2>1, <2>2 DEF CanResolve
<1>3. CASE r.kind = "imported_macro"
  BY <1>3 DEF Unresolved, CanResolve
<1> QED  BY <1>1, <1>2, <1>3 DEF Unresolved

LEMMA ResolvableGrows ==
    ASSUME NEW mods, NEW more, mods \subseteq more, NEW r, r.call \in Calls,
           CanResolve(Index(mods), r)
    PROVE  CanResolve(Index(more), r)
<1>1. Candidates(Index(mods), r.call[2]) \subseteq Candidates(Index(more), r.call[2])
  BY DEF Candidates, Index
<1>2. Direct(Index(mods), r.caller, r.call) \in Index(mods)
         => Direct(Index(more), r.caller, r.call) \in Index(more)
  BY DirectIndexed
<1> QED  BY <1>1, <1>2 DEF CanResolve

LEMMA UnresolvedShrinks ==
    ASSUME NEW mods, NEW more, mods \subseteq more, NEW known \in BOOLEAN, NEW s,
           NEW body \in SUBSET Calls, source[Macro] \subseteq Funcs
    PROVE  Unresolved(Index(more), known, s, body) \subseteq Unresolved(Index(mods), known, s, body)
<1>1. \A x : Candidates(Index(mods), x) \subseteq Candidates(Index(more), x)
  BY DEF Candidates, Index
<1>2. \A c \in NamedCalls(body, known) :
         Direct(Index(mods), s, c) \in Index(mods) => Direct(Index(more), s, c) \in Index(more)
  BY DirectIndexed, NamedCallsTyped
<1> QED  BY <1>1, <1>2 DEF Unresolved

(* A call keeps the symbol it has once resolved to. *)
LEMMA DirectStable ==
    ASSUME NEW mods, NEW more, mods \subseteq more, NEW s, NEW call \in Calls,
           Direct(Index(mods), s, call) \in Index(mods)
    PROVE  Direct(Index(more), s, call) = Direct(Index(mods), s, call)
<1>1. call[2] \in Funcs \cap Defined /\ Home[call[2]] \in mods
  BY DirectIndexed
<1>2. <<"alias", call[2]>> \in Index(mods) /\ <<"alias", call[2]>> \in Index(more)
  BY <1>1 DEF Index, Symbols
<1> QED  BY <1>2 DEF Direct, Target

LEMMA MarkedGrows ==
    ASSUME NEW mods, NEW more, mods \subseteq more,
           NEW known \in BOOLEAN, NEW after \in BOOLEAN, known => after,
           NEW s, NEW body \in SUBSET Calls, source[Macro] \subseteq Funcs
    PROVE  Marked(Index(mods), known, s, body) \subseteq Marked(Index(more), after, s, body)
<1>1. NamedCalls(body, known) \subseteq NamedCalls(body, after)
  BY DEF NamedCalls, Expansion
<1>2. \A c \in NamedCalls(body, known) :
         Direct(Index(mods), s, c) \in Index(mods)
            => /\ Direct(Index(more), s, c) = Direct(Index(mods), s, c)
               /\ Direct(Index(more), s, c) \in Index(more)
  BY DirectStable, DirectIndexed, NamedCallsTyped
<1>3. \A x : Candidates(Index(mods), x) \subseteq Candidates(Index(more), x)
  BY DEF Candidates, Index
<1> QED  BY <1>1, <1>2, <1>3 DEF Marked

(* No two methods are called by the same name.  Without it a candidate that *)
(* is there keeps a later one from being recorded as open.                  *)
NoTwins == \A m1, m2 \in Methods : Bare[m1] = Bare[m2] => m1 = m2

LEMMA CandidatesTogether ==
    ASSUME NoTwins, NEW mods, NEW more, mods \subseteq more,
           NEW x \in Funcs \cup Spoken \cup {Macro}, Candidates(Index(mods), x) # {}
    PROVE  Candidates(Index(more), x) \subseteq Candidates(Index(mods), x)
<1> SUFFICES ASSUME NEW t \in Candidates(Index(more), x) PROVE t \in Index(mods)
  BY DEF Candidates
<1>1. PICK s \in Candidates(Index(mods), x) : TRUE
  OBVIOUS
<1>2. /\ s \in Index(mods) /\ t \in Index(more)
      /\ s = <<"alias", x>> \/ (s[2] \in Methods /\ Bare[s[2]] = x)
      /\ t = <<"alias", x>> \/ (t[2] \in Methods /\ Bare[t[2]] = x)
  BY <1>1 DEF Candidates
<1>3. t[2] \in Methods /\ Bare[t[2]] = x /\ t = <<"alias", x>> => FALSE
  <2>1. SUFFICES ASSUME x \in Methods, Bare[x] = x PROVE FALSE
    OBVIOUS
  <2> QED  BY <2>1, ReachAssumption DEF Spoken, Names
<1>4. \A r \in Index(more) : r[2] \in Methods /\ Bare[r[2]] = x => r # <<"alias", x>> /\ x \in Spoken
  BY ReachAssumption DEF Spoken, Names
<1>5. x \in Spoken => x \notin Funcs
  BY ReachAssumption DEF Names
<1>6. \A r \in Index(more) : r = <<"alias", x>> => x \in Funcs
  BY DEF Index, Symbols
<1>7. Index(mods) \subseteq Index(more)
  BY DEF Index
<1>8. s[2] = t[2]
  BY <1>2, <1>4, <1>5, <1>6, <1>7 DEF NoTwins
<1> QED  BY <1>2, <1>8 DEF Index

(* When no open call of a body can be resolved, the body marks nothing new. *)
LEMMA NothingNew ==
    ASSUME NoTwins, NEW mods, NEW more, mods \subseteq more, NEW known \in BOOLEAN, NEW s,
           NEW body \in SUBSET Calls, source[Macro] \subseteq Funcs,
           \A r \in Unresolved(Index(mods), known, s, body) : ~CanResolve(Index(more), r)
    PROVE  Marked(Index(more), known, s, body) \subseteq Marked(Index(mods), known, s, body)
<1>1. ASSUME NEW c \in NamedCalls(body, known), Direct(Index(more), s, c) \in Index(more)
      PROVE  /\ Direct(Index(mods), s, c) \in Index(mods)
             /\ Direct(Index(more), s, c) = Direct(Index(mods), s, c)
  <2> DEFINE r == [kind |-> "direct", caller |-> s, call |-> c]
  <2>1. CASE Direct(Index(mods), s, c) \notin Index(mods)
    <3>1. r \in Unresolved(Index(mods), known, s, body)
      BY <2>1 DEF Unresolved
    <3>2. CanResolve(Index(more), r)
      BY <1>1 DEF CanResolve
    <3> QED  BY <3>1, <3>2
  <2> QED  BY <2>1, DirectStable, NamedCallsTyped
<1>2. ASSUME NEW c \in body, c[1] = "bare"
      PROVE  Candidates(Index(more), c[2]) \subseteq Candidates(Index(mods), c[2])
  <2> DEFINE r == [kind |-> "associated", caller |-> s, call |-> c]
  <2>1. CASE Candidates(Index(mods), c[2]) = {}
    <3>1. r \in Unresolved(Index(mods), known, s, body)
      BY <1>2, <2>1 DEF Unresolved
    <3>2. ~CanResolve(Index(more), r)
      BY <3>1
    <3> QED  BY <3>2 DEF CanResolve
  <2> QED  BY <1>2, <2>1, CandidatesTogether DEF Calls
<1> QED  BY <1>1, <1>2 DEF Marked

(* Nor does the macro mean anything to a body that does not call it. *)
LEMMA NothingExpanded ==
    ASSUME NEW index, NEW s, NEW body, Expand \notin body
    PROVE  /\ Marked(index, TRUE, s, body) = Marked(index, FALSE, s, body)
           /\ Unresolved(index, TRUE, s, body) = Unresolved(index, FALSE, s, body)
<1>1. NamedCalls(body, TRUE) = NamedCalls(body, FALSE)
  BY DEF NamedCalls
<1> QED  BY <1>1 DEF Marked, Unresolved

----------------------------------------------------------------------------
(* Types *)

Bodies ==
    /\ source \in [Units -> (SUBSET Calls) \cup (SUBSET Funcs) \cup {Absent}]
    /\ source[Root] \subseteq Calls /\ source[Macro] \subseteq Funcs
    /\ \A n \in Names : source[n] \in (SUBSET Calls) \cup {Absent}

\* What the phases of a build leave empty.
Phases ==
    /\ pc = "idle" =>
          /\ mode = "first" /\ ordered = {} /\ parsed = {} /\ loaded = FALSE
          /\ reach = {} /\ refs = {} /\ work = <<>> /\ records = {} /\ resolved = {}
    /\ pc \in {"contracts", "rebuild", "done"} => work = <<>>
    /\ pc = "rebuild" => mode = "plan"
    /\ mode = "plan" => resolved = {}
    /\ mode = "first" => pc \in {"idle", "drain"}

Typed == TypeOK /\ Bodies /\ Phases /\ parsed \subseteq Defined

LEMMA VersionsTyped ==
    /\ \A u \in Units : Versions[u] = {p[u] : p \in Programs}
    /\ Versions[Root] \subseteq SUBSET Calls /\ Versions[Macro] \subseteq SUBSET Funcs
    /\ \A n \in Names : Versions[n] \subseteq (SUBSET Calls) \cup {Absent}
    /\ \A u \in Units : Versions[u] \subseteq (SUBSET Calls) \cup (SUBSET Funcs) \cup {Absent}
    /\ Root \in Units /\ Macro \in Units /\ Names \subseteq Units
<1>1. Root \in Units /\ Macro \in Units /\ Names \subseteq Units
  BY DEF Units
<1>2. \A u \in Units : Versions[u] = {p[u] : p \in Programs}
  BY DEF Versions
<1>3. \A p \in Programs :
         /\ p[Root] \in SUBSET Calls /\ p[Macro] \in SUBSET Funcs
         /\ \A n \in Names : p[n] \in (SUBSET Calls) \cup {Absent}
         /\ \A u \in Units : p[u] \in (SUBSET Calls) \cup (SUBSET Funcs) \cup {Absent}
  BY ReachAssumption
<1> QED  BY <1>1, <1>2, <1>3

LEMMA BodyTyped ==
    ASSUME Bodies
    PROVE  /\ Body(Root) \subseteq Calls
           /\ \A s \in Symbols : s # Root /\ (s[2] \in Defined => Body(s) \subseteq Calls)
<1>1. \A s \in Symbols : s # Root
  BY ReachAssumption
<1> QED  BY <1>1 DEF Bodies, Body, Defined

LEMMA InitTyped == Init => Typed
<1> SUFFICES ASSUME Init PROVE Typed
  OBVIOUS
<1>1. source \in Programs /\ importer \in Importers /\ lazy \in BOOLEAN
  BY DEF Init
<1>2. \A u \in Units : source[u] \in Versions[u]
  BY <1>1, VersionsTyped
<1>3. Bodies
  BY <1>1, ReachAssumption DEF Bodies
<1>4. TypeOK
  <2>1. 0 \in 0..MaxBuilds /\ 0 \in 0..MaxEdits
    BY ReachAssumption
  <2>2. <<>> \in Seq(reach)
    OBVIOUS
  <2> QED  BY <1>1, <1>2, <2>1, <2>2 DEF Init, TypeOK
<1> QED  BY <1>3, <1>4 DEF Init, Typed, Phases

LEMMA SourceKept ==
    ASSUME Typed, source' = source
    PROVE  Bodies' /\ (\A u \in Units : source'[u] \in Versions[u]) /\ Defined' = Defined
BY DEF Typed, TypeOK, Bodies, Defined

LEMMA RecordsTyped ==
    Typed => reach \subseteq Symbols /\ refs \subseteq Calls /\ records \subseteq Records(reach \cup {Root})
BY DEF Typed, TypeOK, Records, Kinds

\* What the lemmas on walks ask for.
LEMMA WalkReady ==
    ASSUME Typed
    PROVE  /\ reach \subseteq Symbols /\ refs \subseteq Calls
           /\ records \subseteq Records(reach \cup {Root})
           /\ source[Macro] \subseteq Funcs
           /\ Body(Root) \subseteq Calls
           /\ \A s \in reach : s # Root /\ (s[2] \in parsed => Body(s) \subseteq Calls)
BY RecordsTyped, BodyTyped DEF Typed, TypeOK, Bodies

LEMMA WalkTyped ==
    ASSUME Typed, NEW callers \in SUBSET (reach \cup {Root}),
           \A s \in callers : Body(s) \subseteq Calls,
           NEW queue \in Seq(reach), NEW mods, NEW known \in BOOLEAN,
           Walk(callers, queue, mods, known), resolved' \subseteq records'
    PROVE  /\ reach' \subseteq Symbols /\ refs' \subseteq Calls
           /\ work' \in Seq(reach')
           /\ resolved' \subseteq records'
           /\ records' \subseteq [kind : {"direct", "associated", "imported_macro"},
                                  caller : reach' \cup {Root}, call : Calls]
<1>1. /\ reach \subseteq Symbols /\ refs \subseteq Calls
      /\ records \subseteq Records(reach \cup {Root})
      /\ source[Macro] \subseteq Funcs
  BY WalkReady
<1>2. /\ reach' \subseteq Symbols /\ refs' \subseteq Calls /\ work' \in Seq(reach')
      /\ records' \subseteq Records(reach' \cup {Root})
  BY <1>1, WalkHasEffect DEF WalkEffect
<1> QED  BY <1>2 DEF Records, Kinds

LEMMA RescanReady ==
    ASSUME Typed, NEW again \in SUBSET records
    PROVE  LET callers == {r.caller : r \in again}
           IN  /\ callers \cap {Root} \in SUBSET (reach \cup {Root})
               /\ (callers \cap reach) \ {Root} \subseteq reach
               /\ SetToSeq((callers \cap reach) \ {Root}) \in Seq(reach)
               /\ Range(SetToSeq((callers \cap reach) \ {Root})) = callers \ {Root}
<1> DEFINE callers == {r.caller : r \in again}
           queue == (callers \cap reach) \ {Root}
<1>1. queue \in SUBSET Callers /\ queue \subseteq reach
  BY WalkReady DEF Callers
<1>2. SetToSeq(queue) \in Seq(queue) /\ Range(SetToSeq(queue)) = queue
  BY <1>1, Queued
<1>3. SetToSeq(queue) \in Seq(reach)
  BY <1>1, <1>2, SeqMonotonic
<1>4. queue = callers \ {Root}
  BY WalkReady DEF Records
<1> QED  BY <1>1, <1>2, <1>3, <1>4

LEMMA ModulesTyped ==
    /\ FirstModules \subseteq Mods
    /\ \A open : Grown(open) \subseteq Mods
    /\ \A mods : Selected(reach, mods) \subseteq Names \cap Defined
<1>1. FirstModules \subseteq Mods
  <2>1. Imports[Root] \subseteq Mods
    BY ReachAssumption
  <2>2. AllImported \subseteq Mods
    BY DEF AllImported, Least
  <2> QED  BY <2>1, <2>2 DEF FirstModules
<1>2. \A open : Grown(open) \subseteq Mods
  BY DEF Grown, Least
<1>3. \A mods : Selected(reach, mods) \subseteq Names \cap Defined
  BY DEF Selected, Index, Defined
<1> QED  BY <1>1, <1>2, <1>3

LEMMA GrownExtends == \A open : ordered \subseteq Mods => ordered \subseteq Grown(open)
BY DEF Grown, Least

LEMMA NothingWalked == Range(<<>>) = {}
BY DEF Range

LEMMA BeginColdTyped == Typed /\ BeginCold => Typed'
<1> SUFFICES ASSUME Typed, BeginCold PROVE Typed'
  OBVIOUS
<1>1. /\ builds' \in 0..MaxBuilds /\ edits' \in 0..MaxEdits
  BY ReachAssumption DEF Typed, TypeOK, BeginCold, Begin, files
<1>2. Bodies' /\ (\A u \in Units : source'[u] \in Versions[u])
  BY SourceKept DEF BeginCold, Begin, files
<1>3. resolved' = {} /\ parsed' = {}
  BY DEF BeginCold, Begin, Typed, Phases
<1>4. /\ reach' \subseteq Symbols /\ refs' \subseteq Calls /\ work' \in Seq(reach')
      /\ resolved' \subseteq records'
      /\ records' \subseteq [kind : {"direct", "associated", "imported_macro"},
                             caller : reach' \cup {Root}, call : Calls]
  <2>1. {Root} \in SUBSET (reach \cup {Root}) /\ \A s \in {Root} : Body(s) \subseteq Calls
    BY WalkReady
  <2>2. <<>> \in Seq(reach)
    OBVIOUS
  <2>3. Walk({Root}, <<>>, FirstModules, importer = Root)
    BY DEF BeginCold
  <2>4. resolved' \subseteq records' /\ (importer = Root) \in BOOLEAN
    BY <1>3
  <2> QED  BY <2>1, <2>2, <2>3, <2>4, WalkTyped
<1>5. /\ ordered' \subseteq Mods /\ loaded' \in BOOLEAN
  BY ModulesTyped DEF BeginCold, Begin
<1>6. /\ importer' \in Importers /\ lazy' \in BOOLEAN
      /\ \A p \in plans' : p.reach \subseteq Symbols /\ p.refs \subseteq Calls
      /\ pc' = "drain" /\ mode' = "first"
  BY DEF BeginCold, Begin, files, Typed, TypeOK
<1>7. TypeOK'
  BY <1>1, <1>2, <1>3, <1>4, <1>5, <1>6 DEF TypeOK
<1> QED  BY <1>2, <1>3, <1>6, <1>7 DEF Typed, Phases

LEMMA BeginPlannedTyped == Typed /\ BeginPlanned => Typed'
<1> SUFFICES ASSUME Typed, BeginPlanned PROVE Typed'
  OBVIOUS
<1>1. /\ builds' \in 0..MaxBuilds /\ edits' \in 0..MaxEdits
  BY ReachAssumption DEF Typed, TypeOK, BeginPlanned, Begin, files
<1>2. Bodies' /\ (\A u \in Units : source'[u] \in Versions[u]) /\ Defined' = Defined
  BY SourceKept DEF BeginPlanned, Begin, files
<1>3. resolved' = {} /\ records' = {} /\ work' = <<>>
  BY DEF BeginPlanned, Begin, Typed, Phases
<1>4. PICK p \in plans :
         /\ reach' = p.reach /\ refs' = p.refs
         /\ parsed' = Selected(p.reach, FirstModules)
  BY DEF BeginPlanned, Usable
<1>5. reach' \subseteq Symbols /\ refs' \subseteq Calls /\ parsed' \subseteq Names \cap Defined
  BY <1>4 DEF Typed, TypeOK, Selected, Index, Defined
<1>6. /\ ordered' \subseteq Mods /\ loaded' \in BOOLEAN
  BY ModulesTyped DEF BeginPlanned, Begin
<1>7. /\ importer' \in Importers /\ lazy' \in BOOLEAN
      /\ \A q \in plans' : q.reach \subseteq Symbols /\ q.refs \subseteq Calls
      /\ pc' = "contracts" /\ mode' = "plan"
  BY DEF BeginPlanned, Begin, files, Typed, TypeOK
<1>8. <<>> \in Seq(reach')
  OBVIOUS
<1>9. TypeOK'
  BY <1>1, <1>2, <1>3, <1>5, <1>6, <1>7, <1>8 DEF TypeOK
<1> QED  BY <1>2, <1>3, <1>5, <1>7, <1>9 DEF Typed, Phases

LEMMA DrainTyped == Typed /\ Drain => Typed'
<1> SUFFICES ASSUME Typed, Drain PROVE Typed'
  OBVIOUS
<1> DEFINE s == Head(work)
           callers == IF s[2] \in parsed THEN {s} ELSE {}
<1>1. s \in reach /\ Tail(work) \in Seq(reach)
  BY HeadTailProperties DEF Typed, TypeOK, Drain
<1>2. callers \in SUBSET (reach \cup {Root}) /\ \A x \in callers : Body(x) \subseteq Calls
  BY <1>1, WalkReady
<1>3. Walk(callers, Tail(work), ordered, loaded) /\ loaded \in BOOLEAN
  BY DEF Drain, Typed, TypeOK
<1>4. resolved' = resolved /\ resolved \subseteq records /\ records \subseteq records'
  BY <1>3 DEF Drain, Typed, TypeOK, Walk
<1>5. /\ reach' \subseteq Symbols /\ refs' \subseteq Calls /\ work' \in Seq(reach')
      /\ resolved' \subseteq records'
      /\ records' \subseteq [kind : {"direct", "associated", "imported_macro"},
                             caller : reach' \cup {Root}, call : Calls]
  <2> HIDE DEF callers
  <2> QED  BY <1>1, <1>2, <1>3, <1>4, WalkTyped
<1>6. Bodies' /\ (\A u \in Units : source'[u] \in Versions[u]) /\ Defined' = Defined
  BY SourceKept DEF Drain, files
<1>7. TypeOK'
  BY <1>5, <1>6 DEF Drain, files, Typed, TypeOK
<1>8. Phases' /\ parsed' \subseteq Defined'
  BY <1>6 DEF Drain, Typed, Phases
<1> QED  BY <1>6, <1>7, <1>8 DEF Typed

LEMMA MaterializeTyped == Typed /\ Materialize => Typed'
<1> SUFFICES ASSUME Typed, Materialize PROVE Typed'
  OBVIOUS
<1> DEFINE queue == {s \in reach : s[2] \in parsed' \ parsed}
<1>1. work' = SetToSeq(queue) /\ queue \subseteq reach /\ reach' = reach
  BY DEF Materialize
<1>2. work' \in Seq(reach')
  <2>1. queue \in SUBSET Callers
    BY <1>1, WalkReady DEF Callers
  <2> HIDE DEF queue
  <2> QED  BY <1>1, <2>1, Queued, SeqMonotonic
<1>3. parsed' \subseteq Names \cap Defined
  BY ModulesTyped DEF Materialize, Newly, Typed, TypeOK
<1>4. Bodies' /\ (\A u \in Units : source'[u] \in Versions[u]) /\ Defined' = Defined
  BY SourceKept DEF Materialize, files
<1>5. TypeOK'
  BY <1>2, <1>3, <1>4 DEF Materialize, files, Typed, TypeOK
<1>6. Phases'
  BY DEF Materialize, Drained, Typed, Phases
<1> QED  BY <1>3, <1>4, <1>5, <1>6 DEF Typed

(* Walking callers again, shared by Discover and LoadContract. *)
LEMMA RescanTyped ==
    ASSUME Typed, NEW again \in SUBSET records, NEW mods, NEW known \in BOOLEAN,
           Rescan(again, mods, known)
    PROVE  /\ reach' \subseteq Symbols /\ refs' \subseteq Calls
           /\ work' \in Seq(reach')
           /\ resolved' \subseteq records'
           /\ records' \subseteq [kind : {"direct", "associated", "imported_macro"},
                                  caller : reach' \cup {Root}, call : Calls]
<1> DEFINE callers == {r.caller : r \in again} \cap {Root}
           queue == SetToSeq(({r.caller : r \in again} \cap reach) \ {Root})
<1>1. resolved' = resolved \cup again /\ Walk(callers, queue, mods, known)
  BY DEF Rescan
<1>2. callers \in SUBSET (reach \cup {Root}) /\ queue \in Seq(reach)
  BY RescanReady
<1>3. \A s \in callers : Body(s) \subseteq Calls
  BY WalkReady
<1>4. records \subseteq records'
  BY <1>1 DEF Walk
<1>5. resolved' \subseteq records'
  BY <1>1, <1>4 DEF Typed, TypeOK
<1> HIDE DEF callers, queue
<1> QED  BY <1>1, <1>2, <1>3, <1>5, WalkTyped

LEMMA DiscoverTyped == Typed /\ Discover => Typed'
<1> SUFFICES ASSUME Typed, Discover PROVE Typed'
  OBVIOUS
<1>1. /\ reach' \subseteq Symbols /\ refs' \subseteq Calls /\ work' \in Seq(reach')
      /\ resolved' \subseteq records'
      /\ records' \subseteq [kind : {"direct", "associated", "imported_macro"},
                             caller : reach' \cup {Root}, call : Calls]
  <2> DEFINE again == {r \in records \ resolved : CanResolve(Index(ordered'), r)}
  <2>1. again \in SUBSET records /\ loaded \in BOOLEAN
    BY DEF Typed, TypeOK
  <2>2. Rescan(again, ordered', loaded)
    BY DEF Discover
  <2> HIDE DEF again
  <2> QED  BY <2>1, <2>2, RescanTyped
<1>2. ordered' \subseteq Mods
  BY ModulesTyped DEF Discover
<1>3. Bodies' /\ (\A u \in Units : source'[u] \in Versions[u]) /\ Defined' = Defined
  BY SourceKept DEF Discover, files
<1>4. TypeOK'
  BY <1>1, <1>2, <1>3 DEF Discover, files, Typed, TypeOK
<1>5. Phases' /\ parsed' \subseteq Defined'
  BY <1>3 DEF Discover, Settled, Drained, Typed, Phases
<1> QED  BY <1>3, <1>4, <1>5 DEF Typed

LEMMA LoadContractTyped == Typed /\ LoadContract => Typed'
<1> SUFFICES ASSUME Typed, LoadContract PROVE Typed'
  OBVIOUS
<1>1. /\ reach' \subseteq Symbols /\ refs' \subseteq Calls /\ work' \in Seq(reach')
      /\ resolved' \subseteq records'
      /\ records' \subseteq [kind : {"direct", "associated", "imported_macro"},
                             caller : reach' \cup {Root}, call : Calls]
  <2> DEFINE again == {r \in records \ resolved : r.kind = "imported_macro"}
  <2>1. again \in SUBSET records /\ Rescan(again, ordered, TRUE)
    BY DEF LoadContract
  <2> HIDE DEF again
  <2> QED  BY <2>1, RescanTyped
<1>2. Bodies' /\ (\A u \in Units : source'[u] \in Versions[u]) /\ Defined' = Defined
  BY SourceKept DEF LoadContract, files
<1>3. TypeOK'
  BY <1>1, <1>2 DEF LoadContract, files, Typed, TypeOK
<1>4. Phases' /\ parsed' \subseteq Defined'
  BY <1>2 DEF LoadContract, Typed, Phases
<1> QED  BY <1>2, <1>3, <1>4 DEF Typed

LEMMA StoreTyped ==
    ASSUME Typed, NEW part \in SUBSET reach, NEW r \in SUBSET refs, plans' = Written(part, r)
    PROVE  \A p \in plans' : p.reach \subseteq Symbols /\ p.refs \subseteq Calls
BY WalkReady DEF Written, Typed, TypeOK

\* Build steps that leave the sets, or clear them.
LEMMA OtherBuildTyped ==
    Typed /\ (Store \/ Advance \/ LoadContractPlanned \/ Rebuilt \/ Finish) => Typed'
<1> SUFFICES ASSUME Typed, Store \/ Advance \/ LoadContractPlanned \/ Rebuilt \/ Finish PROVE Typed'
  OBVIOUS
<1>1. Bodies' /\ (\A u \in Units : source'[u] \in Versions[u]) /\ Defined' = Defined
  BY SourceKept DEF Store, Advance, LoadContractPlanned, Rebuilt, Finish, files
<1>2. CASE Store
  <2>1. \A p \in plans' : p.reach \subseteq Symbols /\ p.refs \subseteq Calls
    BY <1>2, StoreTyped DEF Store
  <2>2. TypeOK'
    BY <1>1, <1>2, <2>1 DEF Store, files, sets, Typed, TypeOK
  <2>3. Phases' /\ parsed' \subseteq Defined'
    BY <1>1, <1>2 DEF Store, Advanced, Settled, Drained, sets, Typed, Phases
  <2> QED  BY <1>1, <2>2, <2>3 DEF Typed
<1>3. CASE Advance \/ LoadContractPlanned \/ Finish
  <2>1. TypeOK'
    BY <1>1, <1>3 DEF Advance, LoadContractPlanned, Finish, files, sets, Typed, TypeOK
  <2>2. Phases' /\ parsed' \subseteq Defined'
    BY <1>1, <1>3 DEF Advance, LoadContractPlanned, Finish, Advanced, Settled, Drained, sets, Typed, Phases
  <2> QED  BY <1>1, <2>1, <2>2 DEF Typed
<1>4. CASE Rebuilt
  <2>1. ordered' \subseteq Mods
    BY <1>4, ModulesTyped DEF Rebuilt, Typed, TypeOK
  <2>2. work' = <<>> /\ records' = {} /\ resolved' = {} /\ <<>> \in Seq(reach')
    BY <1>4 DEF Rebuilt, Drained, Typed, Phases
  <2>3. reach' \subseteq Symbols /\ refs' \subseteq Calls
    BY <1>4, WalkReady DEF Rebuilt
  <2>4. TypeOK'
    BY <1>1, <1>4, <2>1, <2>2, <2>3 DEF Rebuilt, files, Typed, TypeOK
  <2>5. Phases' /\ parsed' \subseteq Defined'
    BY <1>1, <1>4, <2>2 DEF Rebuilt, Drained, Typed, Phases
  <2> QED  BY <1>1, <2>4, <2>5 DEF Typed
<1> QED  BY <1>2, <1>3, <1>4

LEMMA RebuildTyped == Typed /\ Rebuild => Typed'
<1> SUFFICES ASSUME Typed, Rebuild PROVE Typed'
  OBVIOUS
<1>1. mode = "plan" /\ resolved' = {}
  BY DEF Rebuild, Typed, Phases
<1>2. /\ reach' \subseteq Symbols /\ refs' \subseteq Calls /\ work' \in Seq(reach')
      /\ resolved' \subseteq records'
      /\ records' \subseteq [kind : {"direct", "associated", "imported_macro"},
                             caller : reach' \cup {Root}, call : Calls]
  <2>1. {Root} \in SUBSET (reach \cup {Root}) /\ \A s \in {Root} : Body(s) \subseteq Calls
    BY WalkReady
  <2>2. <<>> \in Seq(reach)
    OBVIOUS
  <2>3. Walk({Root}, <<>>, ordered, loaded) /\ loaded \in BOOLEAN /\ resolved' \subseteq records'
    BY <1>1 DEF Rebuild, Typed, TypeOK
  <2> QED  BY <2>1, <2>2, <2>3, WalkTyped
<1>3. Bodies' /\ (\A u \in Units : source'[u] \in Versions[u]) /\ Defined' = Defined
  BY SourceKept DEF Rebuild, files
<1>4. TypeOK'
  BY <1>2, <1>3 DEF Rebuild, files, Typed, TypeOK
<1>5. Phases' /\ parsed' \subseteq Defined'
  BY <1>1, <1>3 DEF Rebuild, Typed, Phases
<1> QED  BY <1>3, <1>4, <1>5 DEF Typed

LEMMA EndTyped ==
    ASSUME Typed, End, UNCHANGED <<files, builds>>,
           \A p \in plans' : p.reach \subseteq Symbols /\ p.refs \subseteq Calls
    PROVE  Typed'
<1>1. Bodies' /\ (\A u \in Units : source'[u] \in Versions[u]) /\ Defined' = Defined
  BY SourceKept DEF files
<1>2. <<>> \in Seq({})
  OBVIOUS
<1>3. TypeOK'
  BY <1>1, <1>2 DEF End, files, Typed, TypeOK
<1>4. Phases' /\ parsed' \subseteq Defined'
  BY DEF End, Phases
<1> QED  BY <1>1, <1>3, <1>4 DEF Typed

LEMMA EditTyped == ASSUME NEW u \in Units PROVE Typed /\ Edit(u) => Typed'
<1> SUFFICES ASSUME Typed, Edit(u) PROVE Typed'
  OBVIOUS
<1>1. PICK b \in Versions[u] : source' = [source EXCEPT ![u] = b]
  BY DEF Edit
<1>2. \A v \in Units : source'[v] \in Versions[v]
  BY <1>1 DEF Typed, TypeOK, Bodies
<1>3. source' \in [Units -> (SUBSET Calls) \cup (SUBSET Funcs) \cup {Absent}]
  BY <1>1, VersionsTyped DEF Typed, Bodies
<1>4. Bodies'
  BY <1>2, <1>3, VersionsTyped DEF Bodies
<1>5. edits' \in 0..MaxEdits
  BY ReachAssumption DEF Edit, Typed, TypeOK
<1>6. TypeOK'
  BY <1>2, <1>5 DEF Edit, sets, Typed, TypeOK
<1>7. Phases' /\ parsed' \subseteq Defined'
  BY DEF Edit, sets, Typed, Phases
<1> QED  BY <1>4, <1>6, <1>7 DEF Typed

LEMMA StutterTyped == Typed /\ UNCHANGED vars => Typed'
<1> SUFFICES ASSUME Typed, UNCHANGED vars PROVE Typed'
  OBVIOUS
<1>1. Bodies' /\ (\A u \in Units : source'[u] \in Versions[u]) /\ Defined' = Defined
  BY SourceKept DEF vars, files
<1>2. TypeOK'
  BY <1>1 DEF vars, files, sets, Typed, TypeOK
<1>3. Phases' /\ parsed' \subseteq Defined'
  BY <1>1 DEF vars, sets, Typed, Phases
<1> QED  BY <1>1, <1>2, <1>3 DEF Typed

LEMMA StepTyped == Typed /\ [Next]_vars => Typed'
<1> SUFFICES ASSUME Typed, [Next]_vars PROVE Typed'
  OBVIOUS
<1>1. CASE BeginCold \/ BeginPlanned
  BY <1>1, BeginColdTyped, BeginPlannedTyped
<1>2. CASE Drain \/ Materialize \/ Discover \/ LoadContract \/ Rebuild
  BY <1>2, DrainTyped, MaterializeTyped, DiscoverTyped, LoadContractTyped, RebuildTyped
<1>3. CASE Store \/ Advance \/ LoadContractPlanned \/ Rebuilt \/ Finish
  BY <1>3, OtherBuildTyped
<1>4. CASE Return
  <2>1. \A p \in plans' : p.reach \subseteq Symbols /\ p.refs \subseteq Calls
    BY <1>4 DEF Return, Typed, TypeOK
  <2> QED  BY <1>4, <2>1, EndTyped DEF Return
<1>5. CASE Cut
  <2>1. \A p \in plans' : p.reach \subseteq Symbols /\ p.refs \subseteq Calls
    <3>1. PICK part \in SUBSET reach : plans' = Written(part, {})
      BY <1>5 DEF Cut
    <3>2. {} \in SUBSET refs
      OBVIOUS
    <3> QED  BY <3>1, <3>2, StoreTyped
  <2> QED  BY <1>5, <2>1, EndTyped DEF Cut
<1>6. CASE \E u \in Units : Edit(u)
  BY <1>6, EditTyped
<1>7. CASE UNCHANGED vars
  BY <1>7, StutterTyped
<1> QED  BY <1>1, <1>2, <1>3, <1>4, <1>5, <1>6, <1>7 DEF Next, Build

LEMMA AlwaysTyped == Spec => []Typed
<1>1. Init => Typed
  BY InitTyped
<1>2. Typed /\ [Next]_vars => Typed'
  BY StepTyped
<1> QED  BY <1>1, <1>2, PTL DEF Spec

(* In every build, whatever is edited and wherever it is cut off, the       *)
(* worklist, the records and the plans hold only callers, calls and symbols *)
(* that are there: no walk meets a body that is not declared.               *)
THEOREM TypeCorrect == Spec => []TypeOK
<1>1. Typed => TypeOK
  BY DEF Typed
<1> QED  BY <1>1, AlwaysTyped, PTL

----------------------------------------------------------------------------
(* Sessions *)

\* Primes of the operators while nobody edits.
LEMMA Unedited ==
    ASSUME source' = source
    PROVE  /\ Index(ordered)' = Index(ordered')
           /\ \A s : Body(s)' = Body(s)
           /\ \A s : Marked(Index(ordered), loaded, s, Body(s))'
                        = Marked(Index(ordered'), loaded', s, Body(s))
           /\ \A s : Unresolved(Index(ordered), loaded, s, Body(s))'
                        = Unresolved(Index(ordered'), loaded', s, Body(s))
           /\ Selected(reach, ordered)' = Selected(reach', ordered')
<1>1. Index(ordered)' = Index(ordered')
  BY DEF Index, Defined
<1>2. \A s : Body(s)' = Body(s)
  BY DEF Body
<1>3. \A s : NamedCalls(Body(s), loaded)' = NamedCalls(Body(s), loaded')
  BY <1>2 DEF NamedCalls, Expansion
<1>4. \A s, c : Direct(Index(ordered), s, c)' = Direct(Index(ordered'), s, c)
  BY <1>1 DEF Direct, Target
<1>5. \A x : Candidates(Index(ordered), x)' = Candidates(Index(ordered'), x)
  BY <1>1 DEF Candidates
<1>6. \A s : Marked(Index(ordered), loaded, s, Body(s))'
                = Marked(Index(ordered'), loaded', s, Body(s))
  BY <1>1, <1>2, <1>3, <1>4, <1>5 DEF Marked
<1>7. \A s : Unresolved(Index(ordered), loaded, s, Body(s))'
                = Unresolved(Index(ordered'), loaded', s, Body(s))
  BY <1>1, <1>2, <1>3, <1>4, <1>5 DEF Unresolved
<1>8. Selected(reach, ordered)' = Selected(reach', ordered')
  BY <1>1 DEF Selected
<1> QED  BY <1>1, <1>2, <1>6, <1>7, <1>8

InSession == pc # "idle" /\ mode # "plan"

\* What of its body a caller has been walked for.
Walked(s) ==
    /\ Marked(Index(ordered), loaded, s, Body(s)) \subseteq reach
    /\ Unresolved(Index(ordered), loaded, s, Body(s)) \subseteq records \ resolved

Closed(r) == CanResolve(Index(ordered), r) \/ (r.kind = "imported_macro" /\ loaded)

\* The inductive part of a session: what is reachable has a declaration and a
\* reason, what is resolved stays so, and what is neither waiting nor parsed
\* has been walked for all that is there.
Sound ==
    /\ reach \subseteq Index(ordered)
    /\ parsed \subseteq Selected(reach, ordered)
    /\ \A r \in resolved : Closed(r)
    /\ \A s \in {x \in reach : x[2] \in parsed} \cup {Root} : s \in Range(work) \/ Walked(s)
    /\ \A L \in SUBSET Index(ordered) : Holds(L, ordered, loaded) => reach \subseteq L
    /\ Undeclared(Index(ordered), Body(Root)) \subseteq refs

LEMMA UneditedSound ==
    ASSUME source' = source
    PROVE  /\ \A s : Walked(s)' <=>
                 /\ Marked(Index(ordered'), loaded', s, Body(s)) \subseteq reach'
                 /\ Unresolved(Index(ordered'), loaded', s, Body(s)) \subseteq records' \ resolved'
           /\ \A r : Closed(r)' <=> CanResolve(Index(ordered'), r) \/ (r.kind = "imported_macro" /\ loaded')
           /\ \A L : Holds(L, ordered, loaded)' <=>
                 \A s \in L \cup {Root} : Marked(Index(ordered'), loaded', s, Body(s)) \subseteq L
           /\ Undeclared(Index(ordered), Body(Root))' = Undeclared(Index(ordered'), Body(Root))
<1>1. \A s : Walked(s)' <=>
                 /\ Marked(Index(ordered'), loaded', s, Body(s)) \subseteq reach'
                 /\ Unresolved(Index(ordered'), loaded', s, Body(s)) \subseteq records' \ resolved'
  BY Unedited DEF Walked
<1>2. Index(ordered)' = Index(ordered') /\ Body(Root)' = Body(Root)
  BY Unedited
<1>3. \A r : CanResolve(Index(ordered), r)' <=> CanResolve(Index(ordered'), r)
  BY <1>2 DEF CanResolve, Direct, Target, Candidates
<1>4. \A L : Holds(L, ordered, loaded)' <=>
                 \A s \in L \cup {Root} : Marked(Index(ordered'), loaded', s, Body(s)) \subseteq L
  BY Unedited DEF Holds
<1>5. Undeclared(Index(ordered), Body(Root))' = Undeclared(Index(ordered'), Body(Root))
  BY <1>2 DEF Undeclared, Direct, Target
<1> QED  BY <1>1, <1>3, <1>4, <1>5 DEF Closed

LEMMA UndeclaredShrinks ==
    ASSUME NEW mods, NEW more, mods \subseteq more, NEW body \in SUBSET Calls
    PROVE  Undeclared(Index(more), body) \subseteq Undeclared(Index(mods), body)
BY DirectIndexed DEF Undeclared

LEMMA IndexedBody ==
    ASSUME Typed, NEW mods, NEW s \in Index(mods)
    PROVE  s # Root /\ s \in Symbols /\ Body(s) \subseteq Calls
BY BodyTyped DEF Typed, Index

(* A walk keeps a session sound if every parsed body is walked, queued, or  *)
(* learns nothing from the modules and the macro that have come.            *)
LEMMA WalkSound ==
    ASSUME Typed, Sound, source' = source, parsed' = parsed,
           NEW mods, ordered' = mods, ordered \subseteq mods,
           NEW known \in BOOLEAN, loaded' = known, loaded => known,
           NEW callers \in SUBSET (reach \cup {Root}),
           \A s \in callers : Body(s) \subseteq Calls,
           NEW queue \in Seq(reach), Walk(callers, queue, mods, known),
           \A r \in resolved' : \/ CanResolve(Index(mods), r)
                                \/ r.kind = "imported_macro" /\ known,
           \A s \in {x \in reach : x[2] \in parsed} \cup {Root} :
              \/ s \in callers
              \/ s \in Range(queue)
              \/ /\ Marked(Index(mods), known, s, Body(s)) \subseteq reach
                 /\ Unresolved(Index(mods), known, s, Body(s)) \subseteq records \ resolved'
    PROVE  Sound'
<1> DEFINE marked(s) == Marked(Index(mods), known, s, Body(s))
           unresolved(s) == Unresolved(Index(mods), known, s, Body(s))
<1>1. /\ reach \subseteq reach' /\ reach' \subseteq reach \cup Index(mods)
      /\ refs \subseteq refs' /\ Range(work') = Range(queue) \cup (reach' \ reach)
      /\ records \subseteq records'
      /\ \A s \in callers : marked(s) \subseteq reach' /\ unresolved(s) \subseteq records'
      /\ \A x \in reach' \ reach : \E s \in callers : x \in marked(s)
  <2>1. /\ reach \subseteq Symbols /\ refs \subseteq Calls
        /\ records \subseteq Records(reach \cup {Root}) /\ source[Macro] \subseteq Funcs
    BY WalkReady
  <2>2. WalkEffect(callers, queue, mods, known)
    BY <2>1, WalkHasEffect
  <2> QED  BY <2>2 DEF WalkEffect
<1>2. Index(ordered) \subseteq Index(mods) /\ Index(ordered)' = Index(mods)
  BY Unedited DEF Index
<1>3. (reach \subseteq Index(ordered))'
  BY <1>1, <1>2 DEF Sound
<1>4. (parsed \subseteq Selected(reach, ordered))'
  BY <1>1, <1>2 DEF Sound, Selected
<1>5. (\A r \in resolved : Closed(r))'
  BY UneditedSound
<1>6. ASSUME NEW s \in callers PROVE unresolved(s) \cap resolved' = {}
  BY OpenUnresolvable DEF Typed, Bodies
<1>7. (\A s \in {x \in reach : x[2] \in parsed} \cup {Root} : s \in Range(work) \/ Walked(s))'
  <2> SUFFICES ASSUME NEW s \in {x \in reach' : x[2] \in parsed} \cup {Root}, s \notin Range(work')
               PROVE  marked(s) \subseteq reach' /\ unresolved(s) \subseteq records' \ resolved'
    BY UneditedSound
  <2>1. s \in {x \in reach : x[2] \in parsed} \cup {Root} /\ s \notin Range(queue)
    BY <1>1
  <2> QED  BY <1>1, <1>6, <2>1
<1>8. (\A L \in SUBSET Index(ordered) : Holds(L, ordered, loaded) => reach \subseteq L)'
  <2> SUFFICES ASSUME NEW L \in SUBSET Index(mods), \A s \in L \cup {Root} : marked(s) \subseteq L
               PROVE  reach' \subseteq L
    BY <1>2, UneditedSound
  <2> DEFINE M == L \cap Index(ordered)
  <2>1. ASSUME NEW s \in M \cup {Root}
        PROVE  Marked(Index(ordered), loaded, s, Body(s)) \subseteq M
    <3>1. Body(s) \subseteq Calls
      <4>1. CASE s = Root
        BY <4>1, WalkReady
      <4>2. CASE s \in Index(ordered)
        BY <4>2, IndexedBody
      <4> QED  BY <4>1, <4>2
    <3>2. Marked(Index(ordered), loaded, s, Body(s)) \subseteq marked(s)
      BY <3>1, MarkedGrows DEF Typed, TypeOK, Bodies
    <3>3. Marked(Index(ordered), loaded, s, Body(s)) \subseteq Index(ordered)
      BY MarkedIndexed
    <3>4. marked(s) \subseteq L
      OBVIOUS
    <3> QED  BY <3>2, <3>3, <3>4
  <2>2. Holds(M, ordered, loaded)
    BY <2>1 DEF Holds
  <2>3. reach \subseteq L
    BY <2>2 DEF Sound
  <2> QED  BY <1>1, <2>3
<1>9. (Undeclared(Index(ordered), Body(Root)) \subseteq refs)'
  <2>1. Undeclared(Index(mods), Body(Root)) \subseteq Undeclared(Index(ordered), Body(Root))
    BY WalkReady, UndeclaredShrinks
  <2> QED  BY <1>1, <2>1, UneditedSound DEF Sound
<1> QED  BY <1>3, <1>4, <1>5, <1>7, <1>8, <1>9 DEF Sound

LEMMA BeginColdSound == Typed /\ BeginCold => Sound'
<1> SUFFICES ASSUME Typed, BeginCold PROVE Sound'
  OBVIOUS
<1> DEFINE mods == FirstModules
           known == (importer = Root)
           marked(s) == Marked(Index(mods), known, s, Body(s))
           unresolved(s) == Unresolved(Index(mods), known, s, Body(s))
<1>1. /\ reach = {} /\ parsed' = {} /\ resolved' = {} /\ source' = source
      /\ ordered' = mods /\ loaded' = known /\ known \in BOOLEAN
  BY DEF BeginCold, Begin, Typed, Phases, files
<1>2. WalkEffect({Root}, <<>>, mods, known)
  <2>1. /\ reach \subseteq Symbols /\ refs \subseteq Calls
        /\ records \subseteq Records(reach \cup {Root}) /\ source[Macro] \subseteq Funcs
    BY WalkReady
  <2>2. {Root} \in SUBSET (reach \cup {Root}) /\ \A s \in {Root} : Body(s) \subseteq Calls
    BY WalkReady
  <2>3. <<>> \in Seq(reach) /\ Walk({Root}, <<>>, mods, known)
    BY DEF BeginCold
  <2> HIDE DEF mods, known
  <2> QED  BY <1>1, <2>1, <2>2, <2>3, WalkHasEffect
<1>3. /\ reach' \subseteq Index(mods) /\ marked(Root) \subseteq reach' /\ reach' \subseteq marked(Root)
      /\ unresolved(Root) \subseteq records' /\ Undeclared(Index(mods), Body(Root)) \subseteq refs'
  BY <1>1, <1>2 DEF WalkEffect
<1>4. Index(ordered)' = Index(mods)
  BY <1>1, Unedited
<1> HIDE DEF mods, known
<1>5. (reach \subseteq Index(ordered))' /\ (parsed \subseteq Selected(reach, ordered))'
  BY <1>1, <1>3, <1>4
<1>6. (\A r \in resolved : Closed(r))'
  BY <1>1
<1>7. (\A s \in {x \in reach : x[2] \in parsed} \cup {Root} : s \in Range(work) \/ Walked(s))'
  BY <1>1, <1>3, UneditedSound
<1>8. (\A L \in SUBSET Index(ordered) : Holds(L, ordered, loaded) => reach \subseteq L)'
  <2> SUFFICES ASSUME NEW L \in SUBSET Index(mods), \A s \in L \cup {Root} : marked(s) \subseteq L
               PROVE  reach' \subseteq L
    BY <1>1, <1>4, UneditedSound
  <2> QED  BY <1>3
<1>9. (Undeclared(Index(ordered), Body(Root)) \subseteq refs)'
  BY <1>1, <1>3, UneditedSound
<1> QED  BY <1>5, <1>6, <1>7, <1>8, <1>9 DEF Sound

LEMMA DrainSound == Typed /\ Sound /\ Drain => Sound'
<1> SUFFICES ASSUME Typed, Sound, Drain PROVE Sound'
  OBVIOUS
<1> DEFINE h == Head(work)
           callers == IF h[2] \in parsed THEN {h} ELSE {}
<1>1. h \in reach /\ Tail(work) \in Seq(reach) /\ Range(work) = {h} \cup Range(Tail(work))
  <2>1. work \in Seq(reach) /\ work # <<>>
    BY DEF Typed, TypeOK, Drain
  <2>2. work = <<h>> \o Tail(work) /\ h \in reach /\ Tail(work) \in Seq(reach)
    BY <2>1, HeadTailProperties
  <2>3. Range(<<h>>) = {h} /\ <<h>> \in Seq(reach)
    BY <2>2 DEF Range
  <2> DEFINE q == <<h>>
             t == Tail(work)
  <2>4. Range(q \o t) = Range(q) \cup Range(t)
    <3>1. q \in Seq(reach) /\ t \in Seq(reach)
      BY <2>2, <2>3
    <3> HIDE DEF q, t
    <3> QED  BY <3>1, RangeConcatenation
  <2> QED  BY <2>2, <2>3, <2>4
<1>2. callers \in SUBSET (reach \cup {Root}) /\ \A x \in callers : Body(x) \subseteq Calls
  BY <1>1, WalkReady
<1>3. Walk(callers, Tail(work), ordered, loaded) /\ loaded \in BOOLEAN
  BY DEF Drain, Typed, TypeOK
<1>4. source' = source /\ parsed' = parsed /\ ordered' = ordered /\ loaded' = loaded /\ resolved' = resolved
  BY DEF Drain, files
<1>5. \A r \in resolved' : CanResolve(Index(ordered), r) \/ (r.kind = "imported_macro" /\ loaded)
  BY <1>4 DEF Sound, Closed
<1>6. \A s \in {x \in reach : x[2] \in parsed} \cup {Root} :
         \/ s \in callers
         \/ s \in Range(Tail(work))
         \/ /\ Marked(Index(ordered), loaded, s, Body(s)) \subseteq reach
            /\ Unresolved(Index(ordered), loaded, s, Body(s)) \subseteq records \ resolved'
  <2> SUFFICES ASSUME NEW s \in {x \in reach : x[2] \in parsed} \cup {Root}, s \in Range(work)
               PROVE  s \in callers \/ s \in Range(Tail(work))
    BY <1>4 DEF Sound, Walked
  <2>1. s = h => s # Root
    BY <1>1, WalkReady
  <2> QED  BY <1>1, <2>1
<1> HIDE DEF callers
<1> QED  BY <1>1, <1>2, <1>3, <1>4, <1>5, <1>6, WalkSound

LEMMA MaterializeSound == Typed /\ Sound /\ Materialize => Sound'
<1> SUFFICES ASSUME Typed, Sound, Materialize PROVE Sound'
  OBVIOUS
<1> DEFINE queue == {s \in reach : s[2] \in parsed' \ parsed}
<1>1. /\ source' = source /\ ordered' = ordered /\ loaded' = loaded /\ reach' = reach
      /\ refs' = refs /\ records' = records /\ resolved' = resolved /\ work = <<>>
      /\ parsed' = parsed \cup Newly /\ work' = SetToSeq(queue)
  BY DEF Materialize, Drained, files
<1>2. Range(work') = queue
  <2>1. queue \in SUBSET Callers
    BY WalkReady DEF Callers
  <2> HIDE DEF queue
  <2> QED  BY <1>1, <2>1, Queued
<1>3. (parsed \subseteq Selected(reach, ordered))'
  BY <1>1, Unedited DEF Newly, Sound
<1>4. \A s : Walked(s)' <=> Walked(s)
  BY <1>1, UneditedSound DEF Walked
<1>5. (\A s \in {x \in reach : x[2] \in parsed} \cup {Root} : s \in Range(work) \/ Walked(s))'
  <2> SUFFICES ASSUME NEW s \in {x \in reach : x[2] \in parsed'} \cup {Root}, s \notin queue
               PROVE  Walked(s)
    BY <1>1, <1>2, <1>4
  <2>1. s \in {x \in reach : x[2] \in parsed} \cup {Root}
    OBVIOUS
  <2>2. s \notin Range(work)
    BY <1>1, NothingWalked
  <2> QED  BY <2>1, <2>2 DEF Sound
<1>6. /\ (reach \subseteq Index(ordered))'
      /\ (\A r \in resolved : Closed(r))'
      /\ (Undeclared(Index(ordered), Body(Root)) \subseteq refs)'
  BY <1>1, Unedited, UneditedSound DEF Sound, Closed
<1>7. (\A L \in SUBSET Index(ordered) : Holds(L, ordered, loaded) => reach \subseteq L)'
  BY <1>1, Unedited, UneditedSound DEF Sound, Holds
<1> QED  BY <1>3, <1>5, <1>6, <1>7 DEF Sound

LEMMA UnresolvedCaller ==
    \A index, known, s, body : \A r \in Unresolved(index, known, s, body) : r.caller = s
BY DEF Unresolved

LEMMA ParsedBody ==
    ASSUME Typed, NEW s \in {x \in reach : x[2] \in parsed} \cup {Root}
    PROVE  Body(s) \subseteq Calls
<1>1. CASE s = Root
  BY <1>1, WalkReady
<1>2. CASE s # Root
  BY <1>2, WalkReady
<1> QED  BY <1>1, <1>2

(* Modules found later: callers that have to learn of them are walked or    *)
(* queued, since each left an open record of what it could not resolve.     *)
LEMMA DiscoverSound == ASSUME NoTwins PROVE Typed /\ Sound /\ Discover => Sound'
<1> SUFFICES ASSUME Typed, Sound, Discover PROVE Sound'
  OBVIOUS
<1> DEFINE again == {r \in records \ resolved : CanResolve(Index(ordered'), r)}
           callers == {r.caller : r \in again} \cap {Root}
           queue == SetToSeq(({r.caller : r \in again} \cap reach) \ {Root})
<1>1. /\ source' = source /\ parsed' = parsed /\ loaded' = loaded /\ loaded \in BOOLEAN /\ work = <<>>
      /\ resolved' = resolved \cup again /\ Walk(callers, queue, ordered', loaded)
  BY DEF Discover, Settled, Drained, Rescan, files, Typed, TypeOK
<1>2. ordered \subseteq ordered'
  BY GrownExtends DEF Discover, Typed, TypeOK
<1>3. again \in SUBSET records
  OBVIOUS
<1>4. /\ callers \in SUBSET (reach \cup {Root}) /\ queue \in Seq(reach)
      /\ Range(queue) = {r.caller : r \in again} \ {Root}
  <2> HIDE DEF again
  <2> QED  BY <1>3, RescanReady
<1>5. \A s \in callers : Body(s) \subseteq Calls
  BY WalkReady
<1>6. \A r \in resolved' : CanResolve(Index(ordered'), r) \/ (r.kind = "imported_macro" /\ loaded)
  <2> SUFFICES ASSUME NEW r \in resolved, CanResolve(Index(ordered), r)
               PROVE  CanResolve(Index(ordered'), r)
    BY <1>1 DEF Sound, Closed
  <2>1. r.call \in Calls
    BY WalkReady DEF Typed, TypeOK, Records
  <2> QED  BY <1>2, <2>1, ResolvableGrows
<1>7. \A s \in {x \in reach : x[2] \in parsed} \cup {Root} :
         \/ s \in callers
         \/ s \in Range(queue)
         \/ /\ Marked(Index(ordered'), loaded, s, Body(s)) \subseteq reach
            /\ Unresolved(Index(ordered'), loaded, s, Body(s)) \subseteq records \ resolved'
  <2> SUFFICES ASSUME NEW s \in {x \in reach : x[2] \in parsed} \cup {Root},
                      s \notin {r.caller : r \in again}
               PROVE  /\ Marked(Index(ordered'), loaded, s, Body(s)) \subseteq reach
                      /\ Unresolved(Index(ordered'), loaded, s, Body(s)) \subseteq records \ resolved'
    BY <1>4
  <2>1. Walked(s)
    BY <1>1, NothingWalked DEF Sound
  <2>2. Body(s) \in SUBSET Calls /\ source[Macro] \subseteq Funcs
    BY ParsedBody, WalkReady
  <2>3. \A r \in Unresolved(Index(ordered), loaded, s, Body(s)) : ~CanResolve(Index(ordered'), r)
    BY <2>1, UnresolvedCaller DEF Walked
  <2>4. Marked(Index(ordered'), loaded, s, Body(s)) \subseteq Marked(Index(ordered), loaded, s, Body(s))
    BY <1>1, <1>2, <2>2, <2>3, NothingNew
  <2>5. Unresolved(Index(ordered'), loaded, s, Body(s)) \subseteq Unresolved(Index(ordered), loaded, s, Body(s))
    BY <1>1, <1>2, <2>2, UnresolvedShrinks
  <2> QED  BY <1>1, <2>1, <2>3, <2>4, <2>5 DEF Walked
<1> HIDE DEF again, callers, queue
<1> QED  BY <1>1, <1>2, <1>4, <1>5, <1>6, <1>7, WalkSound

(* The macro of a module's contract: its callers left a record as well. *)
LEMMA LoadContractSound == Typed /\ Sound /\ LoadContract => Sound'
<1> SUFFICES ASSUME Typed, Sound, LoadContract PROVE Sound'
  OBVIOUS
<1> DEFINE again == {r \in records \ resolved : r.kind = "imported_macro"}
           callers == {r.caller : r \in again} \cap {Root}
           queue == SetToSeq(({r.caller : r \in again} \cap reach) \ {Root})
<1>1. /\ source' = source /\ parsed' = parsed /\ ordered' = ordered /\ loaded = FALSE /\ loaded' = TRUE
      /\ work = <<>> /\ resolved' = resolved \cup again /\ Walk(callers, queue, ordered, TRUE)
  BY DEF LoadContract, Missing, Rescan, files, Typed, TypeOK, Phases
<1>2. ordered \subseteq ordered /\ (loaded => TRUE) /\ TRUE \in BOOLEAN
  OBVIOUS
<1>3. again \in SUBSET records
  OBVIOUS
<1>4. /\ callers \in SUBSET (reach \cup {Root}) /\ queue \in Seq(reach)
      /\ Range(queue) = {r.caller : r \in again} \ {Root}
  <2> HIDE DEF again
  <2> QED  BY <1>3, RescanReady
<1>5. \A s \in callers : Body(s) \subseteq Calls
  BY WalkReady
<1>6. \A r \in resolved' : CanResolve(Index(ordered), r) \/ (r.kind = "imported_macro" /\ TRUE)
  BY <1>1 DEF Sound, Closed
<1>7. \A s \in {x \in reach : x[2] \in parsed} \cup {Root} :
         \/ s \in callers
         \/ s \in Range(queue)
         \/ /\ Marked(Index(ordered), TRUE, s, Body(s)) \subseteq reach
            /\ Unresolved(Index(ordered), TRUE, s, Body(s)) \subseteq records \ resolved'
  <2> SUFFICES ASSUME NEW s \in {x \in reach : x[2] \in parsed} \cup {Root},
                      s \notin {r.caller : r \in again}
               PROVE  /\ Marked(Index(ordered), TRUE, s, Body(s)) \subseteq reach
                      /\ Unresolved(Index(ordered), TRUE, s, Body(s)) \subseteq records \ resolved'
    BY <1>4
  <2>1. Walked(s)
    BY <1>1, NothingWalked DEF Sound
  <2>2. \A r \in Unresolved(Index(ordered), FALSE, s, Body(s)) : r.kind # "imported_macro"
    BY <1>1, <2>1, UnresolvedCaller DEF Walked
  <2>3. Expand \notin Body(s)
    <3> SUFFICES ASSUME Expand \in Body(s) PROVE FALSE
      OBVIOUS
    <3>1. [kind |-> "imported_macro", caller |-> s, call |-> Expand]
             \in Unresolved(Index(ordered), FALSE, s, Body(s))
      BY DEF Unresolved
    <3> QED  BY <2>2, <3>1
  <2> QED  BY <1>1, <2>1, <2>2, <2>3, NothingExpanded DEF Walked
<1> HIDE DEF again, callers, queue
<1> QED  BY <1>1, <1>2, <1>4, <1>5, <1>6, <1>7, WalkSound

LEMMA KeptSound ==
    ASSUME Typed, Sound, source' = source, ordered' = ordered, loaded' = loaded, parsed' = parsed,
           UNCHANGED <<sets, resolved>>
    PROVE  Sound'
<1>1. /\ (reach \subseteq Index(ordered))' /\ (parsed \subseteq Selected(reach, ordered))'
      /\ (\A r \in resolved : Closed(r))'
      /\ (Undeclared(Index(ordered), Body(Root)) \subseteq refs)'
  BY Unedited, UneditedSound DEF Sound, Closed, sets
<1>2. (\A s \in {x \in reach : x[2] \in parsed} \cup {Root} : s \in Range(work) \/ Walked(s))'
  <2>1. \A s : Walked(s)' <=> Walked(s)
    BY UneditedSound DEF Walked, sets
  <2> QED  BY <2>1 DEF Sound, sets
<1>3. (\A L \in SUBSET Index(ordered) : Holds(L, ordered, loaded) => reach \subseteq L)'
  BY Unedited, UneditedSound DEF Sound, Holds, sets
<1> QED  BY <1>1, <1>2, <1>3 DEF Sound

Session == Typed /\ (InSession => Sound)

LEMMA StepSound == ASSUME NoTwins PROVE Session /\ [Next]_vars => Session'
<1> SUFFICES ASSUME Session, [Next]_vars, InSession' PROVE Sound'
  BY StepTyped DEF Session
<1>1. Typed
  BY DEF Session
<1>2. CASE BeginCold \/ BeginPlanned
  <2>1. BeginCold
    BY <1>2 DEF BeginPlanned, InSession
  <2> QED  BY <1>1, <2>1, BeginColdSound
<1>3. CASE Drain \/ Materialize \/ Discover \/ LoadContract
  <2>1. Sound
    BY <1>3 DEF Drain, Materialize, Discover, LoadContract, Drained, Settled, InSession, Session
  <2> QED  BY <1>1, <1>3, <2>1, DrainSound, MaterializeSound, DiscoverSound, LoadContractSound
<1>4. CASE Store \/ Advance \/ Finish \/ UNCHANGED vars
  <2>1. Sound
    BY <1>4 DEF Store, Advance, Finish, Advanced, Settled, Drained, InSession, Session, vars
  <2>2. /\ source' = source /\ ordered' = ordered /\ loaded' = loaded /\ parsed' = parsed
        /\ UNCHANGED <<sets, resolved>>
    BY <1>4 DEF Store, Advance, Finish, files, vars
  <2> QED  BY <1>1, <2>1, <2>2, KeptSound
<1>5. CASE LoadContractPlanned \/ Rebuild \/ Rebuilt
  BY <1>1, <1>5 DEF LoadContractPlanned, Rebuild, Rebuilt, InSession, Typed, Phases
<1>6. CASE Return \/ Cut \/ \E u \in Units : Edit(u)
  BY <1>6 DEF Return, Cut, End, Edit, InSession
<1> QED  BY <1>2, <1>3, <1>4, <1>5, <1>6 DEF Next, Build

LEMMA AlwaysSession == ASSUME NoTwins PROVE Spec => []Session
<1>1. Init => Session
  BY InitTyped DEF Init, Session, InSession
<1>2. Session /\ [Next]_vars => Session'
  BY StepSound
<1> QED  BY <1>1, <1>2, PTL DEF Spec

(* When methods have names of their own, no session drops a call: whatever  *)
(* the modules import, whichever bodies are parsed when and however late a  *)
(* module or the macro comes, a body that was walked has marked all it      *)
(* calls of what is indexed and holds an open record of the rest.           *)
THEOREM NoCallDropped == ASSUME NoTwins PROVE Spec => []NothingLost
<1>1. Session => NothingLost
  BY DEF Session, Sound, Walked, NothingLost, InSession
<1> QED  BY <1>1, AlwaysSession, PTL

----------------------------------------------------------------------------
(* The end of a session *)

More ==
    InSession =>
        /\ pc \in {"contracts", "done"} => Newly = {}
        /\ mode = "first" => loaded = (importer = Root)
        /\ lazy => Imports[Root] \subseteq ordered

LEMMA StepMore == Session /\ More /\ [Next]_vars => More'
<1> SUFFICES ASSUME Session, More, [Next]_vars, InSession' PROVE More'
  BY DEF More
<1>1. Typed
  BY DEF Session
<1>2. CASE BeginCold \/ BeginPlanned
  BY <1>2 DEF BeginCold, BeginPlanned, Begin, files, FirstModules, InSession, More
<1>3. CASE Drain \/ Materialize
  BY <1>3 DEF Drain, Materialize, Drained, files, InSession, More
<1>4. CASE Discover
  <2>1. ordered \subseteq ordered'
    BY <1>1, <1>4, GrownExtends DEF Discover, Typed, TypeOK
  <2> QED  BY <1>4, <2>1 DEF Discover, Settled, Drained, files, InSession, More
<1>5. CASE Store \/ Advance \/ Finish \/ UNCHANGED vars
  <2>1. Newly' = Newly
    BY <1>5, Unedited DEF Store, Advance, Finish, files, sets, vars, Newly
  <2>2. UNCHANGED <<importer, lazy, ordered, loaded>>
    BY <1>5 DEF Store, Advance, Finish, files, vars
  <2>3. CASE Store \/ Advance
    <3>1. Newly = {} /\ pc # "idle" /\ mode # "plan" /\ mode' # "first"
      BY <2>3 DEF Store, Advance, Advanced, Settled, Drained
    <3> QED  BY <2>1, <2>2, <3>1 DEF InSession, More
  <2>4. CASE Finish
    <3>1. pc = "contracts" /\ mode' = mode
      BY <2>4 DEF Finish
    <3> QED  BY <2>1, <2>2, <3>1 DEF InSession, More
  <2>5. CASE UNCHANGED vars
    <3>1. pc' = pc /\ mode' = mode
      BY <2>5 DEF vars
    <3> QED  BY <2>1, <2>2, <3>1 DEF InSession, More
  <2> QED  BY <1>5, <2>3, <2>4, <2>5
<1>6. CASE LoadContract
  BY <1>6 DEF LoadContract, files, InSession, More
<1>7. CASE LoadContractPlanned \/ Rebuild \/ Rebuilt
  BY <1>1, <1>7 DEF LoadContractPlanned, Rebuild, Rebuilt, InSession, Typed, Phases
<1>8. CASE Return \/ Cut \/ \E u \in Units : Edit(u)
  BY <1>8 DEF Return, Cut, End, Edit, InSession
<1> QED  BY <1>2, <1>3, <1>4, <1>5, <1>6, <1>7, <1>8 DEF Next, Build

LEMMA SettledHolds ==
    ASSUME Typed, Sound, work = <<>>, Newly = {}
    PROVE  parsed = Selected(reach, ordered) /\ Holds(reach, ordered, loaded)
<1>1. parsed = Selected(reach, ordered)
  BY DEF Newly, Sound
<1>2. \A s \in reach : s[2] \in parsed
  BY <1>1 DEF Selected, Sound
<1>3. \A s \in reach \cup {Root} : Walked(s)
  BY <1>2, NothingWalked DEF Sound
<1> QED  BY <1>1, <1>3 DEF Walked, Holds

----------------------------------------------------------------------------
(* Plans *)

Contents == [Units -> (SUBSET Calls) \cup (SUBSET Funcs) \cup {Absent}]

\* The index and the marks of other sources.
IndexIn(src, mods) == {s \in Symbols : s[2] \in Names /\ src[s[2]] # Absent /\ Home[s[2]] \in mods}
BodyIn(src, s) == IF s = Root THEN src[Root] ELSE src[s[2]]
NamedIn(src, body, known) ==
    body \cup (IF Expand \in body THEN {"bare"} \X (IF known THEN src[Macro] ELSE {}) ELSE {})
MarkedIn(src, mods, known, s) ==
    ({Direct(IndexIn(src, mods), s, call) : call \in NamedIn(src, BodyIn(src, s), known)} \cap IndexIn(src, mods))
    \cup UNION {Candidates(IndexIn(src, mods), call[2]) : call \in {c \in BodyIn(src, s) : c[1] = "bare"}}

LEMMA Agreeing ==
    ASSUME NEW src, NEW mods, NEW known \in BOOLEAN,
           src[Root] = source[Root],
           \A n \in Names : Home[n] \in mods => src[n] = source[n],
           known => src[Macro] = source[Macro]
    PROVE  /\ IndexIn(src, mods) = Index(mods)
           /\ BodyIn(src, Root) = Body(Root)
           /\ \A s \in Index(mods) \cup {Root} :
                 MarkedIn(src, mods, known, s) = Marked(Index(mods), known, s, Body(s))
<1>1. IndexIn(src, mods) = Index(mods)
  BY DEF IndexIn, Index, Defined
<1>2. \A s \in Index(mods) \cup {Root} : BodyIn(src, s) = Body(s)
  BY DEF BodyIn, Body, Index, Defined
<1>3. \A s \in Index(mods) \cup {Root} : NamedIn(src, BodyIn(src, s), known) = NamedCalls(Body(s), known)
  BY <1>2 DEF NamedIn, NamedCalls, Expansion
<1> QED  BY <1>1, <1>2, <1>3 DEF MarkedIn, Marked

Matches(src, key) ==
    /\ key.root = src[Root]
    /\ key.texts = [n \in {x \in Names : Home[x] \in key.modules} |-> src[n]]

\* A plan is exact for all sources that have its key.
PlanExact(p) ==
    \A src \in Contents :
        Matches(src, p.key) /\ (importer = Root => src[Macro] = source[Macro]) =>
            /\ p.reach \subseteq IndexIn(src, p.key.modules)
            /\ \A s \in p.reach \cup {Root} :
                  MarkedIn(src, p.key.modules, importer = Root, s) \subseteq p.reach
            /\ \A L \in SUBSET IndexIn(src, p.key.modules) :
                  (\A s \in L \cup {Root} : MarkedIn(src, p.key.modules, importer = Root, s) \subseteq L)
                     => p.reach \subseteq L
            /\ Undeclared(IndexIn(src, p.key.modules), src[Root]) \subseteq p.refs

WantedBy(r, t, m) ==
    LET own == {n \in Names : Home[n] = m}
    IN  \/ \E n \in own : <<"alias", n>> \in r \/ <<"qualified", n>> \in t
        \/ \E n \in own \cap Defined : <<"plain", n>> \in r \/ <<"bare", n>> \in t

\* And it wants no module but its own.
PlanGrown(p) ==
    lazy => /\ Imports[Root] \subseteq p.key.modules
            /\ \A q \in p.key.modules, m \in Mods \ p.key.modules :
                  m \in Imports[q] => ~WantedBy(p.reach, p.refs, m)

PlansGood == \A p \in plans : p.reach # {} => PlanExact(p) /\ PlanGrown(p)

LEMMA ContentsNow == Typed => source \in Contents
BY DEF Typed, Bodies, Contents

LEMMA GrownClosed ==
    ASSUME NEW open, Grown(open) = ordered,
           NEW q \in ordered, NEW m \in Mods \ ordered, m \in Imports[q]
    PROVE  ~Wanted(open, m)
<1> SUFFICES ASSUME Wanted(open, m) PROVE m \in Grown(open)
  OBVIOUS
<1> DEFINE wanted == {k \in Mods : Wanted(open, k)}
           ClosedUnder(mods) == ordered \subseteq mods /\ \A k \in mods : Imports[k] \cap wanted \subseteq mods
<1>1. \A mods \in SUBSET Mods : ClosedUnder(mods) => m \in mods
  OBVIOUS
<1> QED  BY <1>1 DEF Grown, Least

LEMMA GrownStays ==
    ASSUME NEW open, ordered \subseteq Mods,
           \A q \in ordered, m \in Mods \ ordered : m \in Imports[q] => ~Wanted(open, m)
    PROVE  Grown(open) = ordered
<1>1. \A q \in ordered : Imports[q] \cap {m \in Mods : Wanted(open, m)} \subseteq ordered
  OBVIOUS
<1>2. Grown(open) \subseteq ordered
  BY <1>1 DEF Grown, Least
<1> QED  BY <1>2, GrownExtends

LEMMA WantedFewer ==
    \A open, m : WantedBy(reach, refs, m) => Wanted(open, m)
BY DEF Wanted, WantedBy

LEMMA WantedNow ==
    \A m : Wanted({}, m) => WantedBy(reach, refs, m)
BY DEF Wanted, WantedBy

LEMMA StoreGood ==
    ASSUME Session, More, PlansGood, Store
    PROVE  PlansGood'
<1> DEFINE new == [key |-> Key(ordered), reach |-> reach, refs |-> refs]
           known == (importer = Root)
<1>1. /\ Typed /\ Sound /\ work = <<>> /\ Newly = {} /\ loaded = known /\ known \in BOOLEAN
      /\ (lazy => Imports[Root] \subseteq ordered /\ Grown(records \ resolved) = ordered)
  BY DEF Session, More, InSession, Store, Advanced, Settled, Drained
<1>2. /\ source' = source /\ importer' = importer /\ lazy' = lazy
      /\ \A p \in plans' : p \in plans \/ p = new
  BY DEF Store, Written, files
<1>3. \A p : PlanExact(p)' <=> PlanExact(p)
  BY <1>2 DEF PlanExact
<1>4. \A p : PlanGrown(p)' <=> PlanGrown(p)
  BY <1>2 DEF PlanGrown, WantedBy, Defined
<1>5. Holds(reach, ordered, loaded)
  BY <1>1, SettledHolds
<1>6. PlanExact(new)
  <2> SUFFICES ASSUME NEW src \in Contents, Matches(src, new.key),
                      importer = Root => src[Macro] = source[Macro]
               PROVE  /\ reach \subseteq IndexIn(src, ordered)
                      /\ \A s \in reach \cup {Root} : MarkedIn(src, ordered, known, s) \subseteq reach
                      /\ \A L \in SUBSET IndexIn(src, ordered) :
                            (\A s \in L \cup {Root} : MarkedIn(src, ordered, known, s) \subseteq L)
                               => reach \subseteq L
                      /\ Undeclared(IndexIn(src, ordered), src[Root]) \subseteq refs
    BY DEF PlanExact, Key
  <2>1. src[Root] = source[Root] /\ \A n \in Names : Home[n] \in ordered => src[n] = source[n]
    <3>1. /\ source[Root] = src[Root]
          /\ [n \in {x \in Names : Home[x] \in ordered} |-> source[n]]
                = [n \in {x \in Names : Home[x] \in ordered} |-> src[n]]
      BY DEF Matches, Key
    <3> QED  BY <3>1
  <2>2. /\ IndexIn(src, ordered) = Index(ordered) /\ BodyIn(src, Root) = Body(Root)
        /\ \A s \in Index(ordered) \cup {Root} :
              MarkedIn(src, ordered, known, s) = Marked(Index(ordered), loaded, s, Body(s))
    <3>1. known \in BOOLEAN /\ known = loaded /\ (known => src[Macro] = source[Macro])
      BY <1>1
    <3> HIDE DEF known
    <3> QED  BY <2>1, <3>1, Agreeing
  <2>3. src[Root] = Body(Root)
    BY <2>2 DEF BodyIn
  <2>4. reach \subseteq Index(ordered)
    BY <1>1 DEF Sound
  <2>5. \A s \in reach \cup {Root} : MarkedIn(src, ordered, known, s) \subseteq reach
    BY <1>5, <2>2, <2>4 DEF Holds
  <2>6. ASSUME NEW L \in SUBSET IndexIn(src, ordered),
               \A s \in L \cup {Root} : MarkedIn(src, ordered, known, s) \subseteq L
        PROVE  reach \subseteq L
    <3>1. Holds(L, ordered, loaded)
      BY <2>2, <2>6 DEF Holds
    <3> QED  BY <1>1, <2>2, <2>6, <3>1 DEF Sound
  <2>7. Undeclared(IndexIn(src, ordered), src[Root]) \subseteq refs
    BY <1>1, <2>2, <2>3 DEF Sound
  <2> QED  BY <2>2, <2>4, <2>5, <2>6, <2>7
<1>7. PlanGrown(new)
  <2> SUFFICES ASSUME lazy
               PROVE  /\ Imports[Root] \subseteq ordered
                      /\ \A q \in ordered, m \in Mods \ ordered :
                            m \in Imports[q] => ~WantedBy(reach, refs, m)
    BY DEF PlanGrown, Key
  <2> QED  BY <1>1, GrownClosed, WantedFewer
<1> HIDE DEF new
<1> QED  BY <1>2, <1>3, <1>4, <1>6, <1>7 DEF PlansGood

LEMMA PlansKept ==
    ASSUME source' = source, importer' = importer, lazy' = lazy
    PROVE  /\ \A p : PlanExact(p)' <=> PlanExact(p)
           /\ \A p : PlanGrown(p)' <=> PlanGrown(p)
BY DEF PlanExact, PlanGrown, WantedBy, Defined

LEMMA CutGood == ASSUME Allowed = {}, PlansGood, Cut PROVE PlansGood'
<1>1. \A p \in plans' : p.reach # {} => p \in plans
  BY DEF Cut, Written
<1> QED  BY <1>1, PlansKept DEF Cut, files, PlansGood

LEMMA EditGood ==
    ASSUME Allowed = {}, Typed, PlansGood, NEW u \in Units, Edit(u)
    PROVE  PlansGood'
<1>1. /\ plans' = plans /\ importer' = importer /\ lazy' = lazy
      /\ u = Macro => importer # Root
      /\ lazy /\ u \in Names /\ source[u] = Absent => Home[u] \in Imports[Root]
      /\ \A x \in Units : x # u => source'[x] = source[x]
  BY DEF Edit, Typed, Bodies
<1>2. importer = Root => source'[Macro] = source[Macro]
  BY <1>1 DEF Units
<1>3. ASSUME NEW p \in plans, PlanExact(p)
      PROVE  PlanExact(p)'
  BY <1>1, <1>2, <1>3 DEF PlanExact
<1>4. ASSUME NEW p \in plans, PlanGrown(p)
      PROVE  PlanGrown(p)'
  <2> SUFFICES ASSUME lazy, NEW q \in p.key.modules, NEW m \in Mods \ p.key.modules,
                      m \in Imports[q], WantedBy(p.reach, p.refs, m)'
               PROVE  FALSE
    BY <1>1, <1>4 DEF PlanGrown
  <2>1. Imports[Root] \subseteq p.key.modules /\ ~WantedBy(p.reach, p.refs, m)
    BY <1>4 DEF PlanGrown
  <2>2. \A n \in Names : Home[n] = m /\ n \in Defined' => n \in Defined
    <3> SUFFICES ASSUME NEW n \in Names, Home[n] = m, n \in Defined', source[n] = Absent
                 PROVE  FALSE
      BY DEF Defined
    <3>1. n = u
      BY <1>1 DEF Defined, Units
    <3> QED  BY <1>1, <2>1, <3>1
  <2> QED  BY <2>1, <2>2 DEF WantedBy
<1> QED  BY <1>1, <1>3, <1>4 DEF PlansGood

LEMMA StepPlans ==
    ASSUME Allowed = {}
    PROVE  Session /\ More /\ PlansGood /\ [Next]_vars => PlansGood'
<1> SUFFICES ASSUME Session, More, PlansGood, [Next]_vars PROVE PlansGood'
  OBVIOUS
<1>1. CASE Store
  BY <1>1, StoreGood
<1>2. CASE Cut
  BY <1>2, CutGood
<1>3. CASE \E u \in Units : Edit(u)
  BY <1>3, EditGood DEF Session
<1>4. CASE UNCHANGED <<source, importer, lazy, plans>>
  BY <1>4, PlansKept DEF PlansGood
<1>5. CASE BeginCold \/ BeginPlanned \/ Return \/ UNCHANGED vars
  BY <1>4, <1>5 DEF BeginCold, BeginPlanned, Begin, Return, files, vars
<1>6. CASE Drain \/ Materialize \/ Discover \/ Advance
  BY <1>4, <1>6 DEF Drain, Materialize, Discover, Advance, files
<1>7. CASE LoadContract \/ LoadContractPlanned \/ Rebuild \/ Rebuilt \/ Finish
  BY <1>4, <1>7 DEF LoadContract, LoadContractPlanned, Rebuild, Rebuilt, Finish, files
<1> QED  BY <1>1, <1>2, <1>3, <1>5, <1>6, <1>7 DEF Next, Build

----------------------------------------------------------------------------
(* Builds that start from a plan *)

\* What a walk from scratch would find, and no module is missing.
Planned ==
    mode = "plan" =>
        /\ pc # "idle" /\ work = <<>>
        /\ reach \subseteq Index(ordered) /\ parsed = Selected(reach, ordered)
        /\ Holds(reach, ordered, loaded)
        /\ \A L \in SUBSET Index(ordered) : Holds(L, ordered, loaded) => reach \subseteq L
        /\ Undeclared(Index(ordered), Body(Root)) \subseteq refs
        /\ lazy => \A q \in ordered, m \in Mods \ ordered :
                      m \in Imports[q] => ~WantedBy(reach, refs, m)
        /\ ~loaded /\ Expand \in refs => source[Macro] = {}

LEMMA BeginPlannedExact ==
    ASSUME Allowed = {}, Typed, PlansGood, BeginPlanned
    PROVE  Planned'
<1> DEFINE known == (importer = Root)
           mods  == FirstModules
<1>1. PICK p \in Usable(mods) :
          /\ Expand \in p.refs /\ importer # Root => source[Macro] = {}
          /\ reach' = p.reach /\ refs' = p.refs
          /\ parsed' = Selected(p.reach, mods)
  BY DEF BeginPlanned
<1>2. /\ source' = source /\ importer' = importer /\ lazy' = lazy
      /\ ordered' = mods /\ loaded' = known /\ pc' = "contracts"
  BY DEF BeginPlanned, Begin, files
<1>3. work' = <<>>
  BY DEF BeginPlanned, Begin, Typed, Phases
<1>4. p \in plans /\ p.key = Key(mods) /\ p.reach # {}
  BY <1>1 DEF Usable
<1>5. p.key.modules = mods /\ Matches(source, p.key)
  BY <1>4 DEF Key, Matches
<1>6. PlanExact(p) /\ PlanGrown(p)
  BY <1>4 DEF PlansGood
<1>7. /\ p.reach \subseteq IndexIn(source, mods)
      /\ \A s \in p.reach \cup {Root} : MarkedIn(source, mods, importer = Root, s) \subseteq p.reach
      /\ \A L \in SUBSET IndexIn(source, mods) :
            (\A s \in L \cup {Root} : MarkedIn(source, mods, importer = Root, s) \subseteq L)
               => p.reach \subseteq L
      /\ Undeclared(IndexIn(source, mods), source[Root]) \subseteq p.refs
  BY <1>5, <1>6, ContentsNow DEF PlanExact
<1>8. /\ IndexIn(source, mods) = Index(mods)
      /\ \A s \in Index(mods) \cup {Root} :
            MarkedIn(source, mods, importer = Root, s) = Marked(Index(mods), loaded', s, Body(s))
  <2>1. known \in BOOLEAN /\ (known <=> importer = Root) /\ loaded' = known
    BY <1>2
  <2> HIDE DEF known, mods
  <2>2. /\ IndexIn(source, mods) = Index(mods)
        /\ \A s \in Index(mods) \cup {Root} :
              MarkedIn(source, mods, known, s) = Marked(Index(mods), known, s, Body(s))
    BY <2>1, Agreeing
  <2> QED  BY <2>1, <2>2 DEF known
<1> HIDE DEF mods
<1>9. Index(ordered)' = Index(mods) /\ parsed' = Selected(reach, ordered)'
  BY <1>1, <1>2, Unedited
<1>10. Holds(reach, ordered, loaded)'
  <2>1. \A s \in p.reach \cup {Root} : Marked(Index(mods), loaded', s, Body(s)) \subseteq p.reach
    BY <1>7, <1>8
  <2> QED  BY <1>1, <1>2, <2>1, Unedited DEF Holds
<1>11. ASSUME NEW L \in SUBSET Index(mods), Holds(L, ordered, loaded)'
       PROVE  p.reach \subseteq L
  <2>1. \A s \in L \cup {Root} : Marked(Index(mods), loaded', s, Body(s)) \subseteq L
    BY <1>2, <1>11, UneditedSound
  <2>2. \A s \in L \cup {Root} : MarkedIn(source, mods, importer = Root, s) \subseteq L
    BY <1>8, <1>11, <2>1
  <2> QED  BY <1>7, <1>8, <2>2
<1>12. Undeclared(Index(ordered), Body(Root))' \subseteq refs'
  BY <1>1, <1>2, <1>7, <1>8, UneditedSound DEF Body
<1>13. (lazy => \A q \in ordered, m \in Mods \ ordered : m \in Imports[q] => ~WantedBy(reach, refs, m))'
  <2>1. \A m : WantedBy(reach, refs, m)' <=> WantedBy(p.reach, p.refs, m)
    BY <1>1, <1>2 DEF WantedBy, Defined
  <2> QED  BY <1>2, <1>5, <1>6, <2>1 DEF PlanGrown
<1>14. (~loaded /\ Expand \in refs => source[Macro] = {})'
  BY <1>1, <1>2
<1> QED  BY <1>1, <1>2, <1>3, <1>7, <1>8, <1>9, <1>10, <1>11, <1>12, <1>13, <1>14 DEF Planned

LEMMA PlannedKept ==
    ASSUME Planned, mode' = mode, pc' # "idle", work' = work, source' = source, lazy' = lazy,
           ordered' = ordered, reach' = reach, refs' = refs, parsed' = parsed, loaded' = loaded
    PROVE  Planned'
<1> SUFFICES ASSUME mode = "plan" PROVE Planned'
  BY DEF Planned
<1>1. Index(ordered)' = Index(ordered) /\ Selected(reach, ordered)' = Selected(reach, ordered)
  BY Unedited DEF Selected, Index, Defined
<1>2. \A L : Holds(L, ordered, loaded)' <=> Holds(L, ordered, loaded)
  BY UneditedSound DEF Holds
<1>3. Holds(reach, ordered, loaded)' <=> Holds(reach, ordered, loaded)
  BY Unedited DEF Holds
<1>4. Undeclared(Index(ordered), Body(Root))' = Undeclared(Index(ordered), Body(Root))
  BY UneditedSound
<1>5. \A m : WantedBy(reach, refs, m)' <=> WantedBy(reach, refs, m)
  BY DEF WantedBy, Defined
<1> QED  BY <1>1, <1>2, <1>3, <1>4, <1>5 DEF Planned

(* A macro that calls nothing means nothing to any body. *)
LEMMA EmptyMacro ==
    ASSUME source[Macro] = {}, NEW known \in BOOLEAN, NEW s, NEW body
    PROVE  Marked(Index(ordered), TRUE, s, body) = Marked(Index(ordered), known, s, body)
<1>1. Expansion(TRUE) = {} /\ Expansion(known) = {}
  BY DEF Expansion
<1> QED  BY <1>1 DEF Marked, NamedCalls

LEMMA LoadContractPlannedExact ==
    ASSUME Typed, Planned, LoadContractPlanned
    PROVE  Planned'
<1>1. /\ mode = "plan" /\ loaded = FALSE /\ loaded' = TRUE /\ pc' = "rebuild"
      /\ source' = source /\ lazy' = lazy /\ ordered' = ordered /\ reach' = reach
      /\ refs' = refs /\ work' = work /\ parsed' = parsed /\ source[Macro] = {}
  BY DEF LoadContractPlanned, Missing, files, sets, Planned, Typed, TypeOK
<1>2. \A s : Marked(Index(ordered), loaded', s, Body(s)) = Marked(Index(ordered), loaded, s, Body(s))
  BY <1>1, EmptyMacro
<1>3. \A L : Holds(L, ordered, loaded)' <=> Holds(L, ordered, loaded)
  <2>1. \A L : Holds(L, ordered, loaded)' <=>
           \A s \in L \cup {Root} : Marked(Index(ordered), loaded', s, Body(s)) \subseteq L
    BY <1>1, UneditedSound
  <2> QED  BY <1>2, <2>1 DEF Holds
<1>4. Holds(reach, ordered, loaded)'
  <2>1. \A s \in reach \cup {Root} : Marked(Index(ordered), loaded', s, Body(s)) \subseteq reach
    BY <1>1, <1>2 DEF Planned, Holds
  <2> QED  BY <1>1, <2>1, Unedited DEF Holds
<1>5. /\ Index(ordered)' = Index(ordered) /\ Selected(reach, ordered)' = Selected(reach, ordered)
      /\ Undeclared(Index(ordered), Body(Root))' = Undeclared(Index(ordered), Body(Root))
  BY <1>1, Unedited, UneditedSound
<1>6. (lazy => \A q \in ordered, m \in Mods \ ordered : m \in Imports[q] => ~WantedBy(reach, refs, m))'
  <2>1. \A m : WantedBy(reach, refs, m)' <=> WantedBy(reach, refs, m)
    BY <1>1 DEF WantedBy, Defined
  <2> QED  BY <1>1, <2>1 DEF Planned
<1>7. (\A L \in SUBSET Index(ordered) : Holds(L, ordered, loaded) => reach \subseteq L)'
  BY <1>1, <1>3, <1>5 DEF Planned
<1>8. (/\ pc # "idle" /\ work = <<>> /\ reach \subseteq Index(ordered) /\ parsed = Selected(reach, ordered)
       /\ Undeclared(Index(ordered), Body(Root)) \subseteq refs
       /\ (~loaded /\ Expand \in refs => source[Macro] = {}))'
  <2>1. (/\ pc # "idle" /\ work = <<>> /\ (~loaded /\ Expand \in refs => source[Macro] = {}))'
    BY <1>1 DEF Planned
  <2> QED  BY <1>1, <1>5, <2>1 DEF Planned
<1> QED  BY <1>4, <1>6, <1>7, <1>8 DEF Planned

LEMMA RebuildSame ==
    ASSUME Typed, Planned, Rebuild
    PROVE  /\ mode = "plan" /\ mode' = mode /\ ordered' = ordered
           /\ reach' = reach /\ refs' = refs /\ work' = work
<1>1. /\ mode = "plan" /\ mode' = mode /\ work = <<>> /\ ordered' = ordered
  BY DEF Rebuild, Planned, Typed, Phases
<1>2. /\ reach' = reach \cup UNION {Marked(Index(ordered), loaded, s, Body(s)) : s \in {Root}}
      /\ refs' = refs \cup UNION {Undeclared(Index(ordered), Body(s)) : s \in {Root}}
      /\ work' = <<>> \o SetToSeq(reach' \ reach)
  BY DEF Rebuild, Walk
<1>3. Marked(Index(ordered), loaded, Root, Body(Root)) \subseteq reach
  BY <1>1 DEF Planned, Holds
<1>4. reach' = reach
  BY <1>2, <1>3
<1>5. Undeclared(Index(ordered), Body(Root)) \subseteq refs
  BY <1>1 DEF Planned
<1>6. refs' = refs
  BY <1>2, <1>5
<1>7. work' = <<>>
  <2>1. SetToSeq({}) \in Seq({})
    BY Queued
  <2>2. \A q \in Seq({}) : q = <<>>
    <3> SUFFICES ASSUME NEW q \in Seq({}), q # <<>> PROVE FALSE
      OBVIOUS
    <3>1. Len(q) \in Nat \ {0}
      BY EmptySeq
    <3> QED  BY <3>1, q[1] \in {}
  <2>3. reach' \ reach = {} /\ work' = <<>> \o SetToSeq(reach' \ reach)
    BY <1>2, <1>4
  <2>4. <<>> \o SetToSeq({}) = <<>>
    BY <2>1, <2>2
  <2> QED  BY <2>3, <2>4
<1> QED  BY <1>1, <1>4, <1>6, <1>7

LEMMA RebuildExact ==
    ASSUME Typed, Planned, Rebuild
    PROVE  Planned'
<1>1. /\ pc' # "idle" /\ source' = source /\ lazy' = lazy /\ parsed' = parsed /\ loaded' = loaded
  BY DEF Rebuild, files
<1> QED  BY <1>1, RebuildSame, PlannedKept

LEMMA RebuiltSame ==
    ASSUME Typed, Planned, Rebuilt
    PROVE  /\ mode = "plan" /\ mode' = mode /\ ordered' = ordered /\ pc' = "contracts"
           /\ reach' = reach /\ refs' = refs /\ work' = work
<1>1. /\ mode = "plan" /\ mode' = mode /\ work' = work
      /\ ordered' = (IF lazy THEN Grown({}) ELSE ordered)
  BY DEF Rebuilt
<1>2. lazy => Grown({}) = ordered
  <2> SUFFICES ASSUME lazy PROVE Grown({}) = ordered
    OBVIOUS
  <2>1. \A q \in ordered, m \in Mods \ ordered : m \in Imports[q] => ~Wanted({}, m)
    BY <1>1, WantedNow DEF Planned
  <2>2. ordered \subseteq Mods
    BY DEF Typed, TypeOK
  <2> QED  BY <2>1, <2>2, GrownStays
<1> QED  BY <1>1, <1>2 DEF Rebuilt

LEMMA RebuiltExact ==
    ASSUME Typed, Planned, Rebuilt
    PROVE  Planned'
<1>1. source' = source /\ lazy' = lazy /\ parsed' = parsed /\ loaded' = loaded
  BY DEF Rebuilt, files
<1> QED  BY <1>1, RebuiltSame, PlannedKept

LEMMA StepPlanned ==
    ASSUME Allowed = {}
    PROVE  Typed /\ PlansGood /\ Planned /\ [Next]_vars => Planned'
<1> SUFFICES ASSUME Typed, PlansGood, Planned, [Next]_vars, mode' = "plan" PROVE Planned'
  BY DEF Planned
<1>1. CASE BeginPlanned
  BY <1>1, BeginPlannedExact
<1>2. CASE LoadContractPlanned
  BY <1>2, LoadContractPlannedExact
<1>3. CASE Rebuild
  BY <1>3, RebuildExact
<1>4. CASE Rebuilt
  BY <1>4, RebuiltExact
<1>5. CASE Finish
  BY <1>5, PlannedKept DEF Finish, files, sets
<1>6. CASE UNCHANGED vars
  <2>1. mode = "plan" /\ pc' = pc
    BY <1>6 DEF vars
  <2> QED  BY <1>6, <2>1, PlannedKept DEF vars, files, sets, Planned
<1>7. CASE Drain
  <2>1. work # <<>> /\ mode = "plan"
    BY <1>7 DEF Drain
  <2> QED  BY <2>1 DEF Planned
<1>8. CASE BeginCold \/ Store \/ Return \/ Cut
  BY <1>8 DEF BeginCold, Store, Return, Cut, End
<1>9. CASE Materialize \/ Discover \/ Advance \/ LoadContract
  BY <1>9 DEF Materialize, Discover, Advance, Settled, LoadContract
<1>10. CASE \E u \in Units : Edit(u)
  BY <1>10 DEF Edit, Planned
<1> QED  BY <1>1, <1>2, <1>3, <1>4, <1>5, <1>6, <1>7, <1>8, <1>9, <1>10 DEF Next, Build

----------------------------------------------------------------------------
(* Exactness *)

AllGood == Session /\ More /\ PlansGood /\ Planned

LEMMA AlwaysGood == ASSUME NoTwins, Allowed = {} PROVE Spec => []AllGood
<1>1. Init => AllGood
  BY InitTyped DEF Init, AllGood, Session, InSession, More, PlansGood, Planned
<1>2. AllGood /\ [Next]_vars => AllGood'
  BY StepSound, StepMore, StepPlans, StepPlanned DEF AllGood, Session
<1> QED  BY <1>1, <1>2, PTL DEF Spec

LEMMA GoodExact == AllGood => Exact
<1> SUFFICES ASSUME AllGood, pc = "done"
             PROVE  /\ parsed = Selected(reach, ordered)
                    /\ Holds(reach, ordered, loaded)
                    /\ \A less \in SUBSET reach : Holds(less, ordered, loaded) => less = reach
  BY DEF Exact
<1>1. CASE mode = "plan"
  BY <1>1 DEF AllGood, Planned
<1>2. CASE mode # "plan"
  <2>1. Typed /\ Sound /\ Newly = {} /\ work = <<>>
    BY <1>2 DEF AllGood, Session, More, InSession, Typed, Phases
  <2> QED  BY <2>1, SettledHolds DEF Sound
<1> QED  BY <1>1, <1>2

(* When methods have names of their own and nothing extraordinary happens,  *)
(* every finished build ends where a walk from scratch over its modules     *)
(* would: the same symbols, all their bodies parsed and nothing else.  This *)
(* covers the incremental session, with each module and macro that came     *)
(* late, and every plan taken over from a build of earlier sources.         *)
THEOREM BuildsExact == ASSUME NoTwins, Allowed = {} PROVE Spec => []Exact
<1> QED  BY AlwaysGood, GoodExact, PTL

----------------------------------------------------------------------------
(* No module is missing *)

\* What a call by name may mean.
Means(call, n) == call[2] = n \/ (n \in Methods /\ call = <<"bare", Bare[n]>>)

\* The modules that the root imports, that those import, and that a body's own
\* module is and imports: where a declaration that a body uses is looked for.
Around(mods) == mods \cup UNION {Imports[q] : q \in mods}
Sees(u) == Around(Imports[Root] \cup (IF u \in Names THEN {Home[u]} ELSE {}))

\* Bodies, and the macro where its contract is imported, use no others.
Near ==
    \A p \in Programs :
        /\ \A u \in Names \cup {Root} : \A call \in p[u] \cap Calls, n \in Names :
              Means(call, n) => Home[n] \in Sees(u)
        /\ \A f \in p[Macro] : \A i \in Importers :
              Home[f] \in Around(Imports[Root] \cup ({i} \ {Root}))

Parsed == {s \in reach : s[2] \in parsed} \cup {Root}

\* A body that was walked has left in refs what it calls and is not declared.
Told ==
    \A s \in Parsed :
        s \in Range(work) \/ Undeclared(Index(ordered), Body(s)) \subseteq refs

\* Every declaration that a body may mean is in a module that was found.
FoundAll ==
    \A s \in reach \cup {Root}, n \in Names :
        n \in Defined \/ ~lazy =>
            \A call \in NamedCalls(Body(s), loaded) : Means(call, n) => Home[n] \in ordered

Found ==
    pc # "idle" =>
        /\ FirstModules \subseteq ordered
        /\ ~lazy => ordered = AllImported
        /\ importer = Root => loaded
        /\ loaded => importer \in ordered \cup {Root}
        /\ Told
        /\ pc = "done" => ~Missing
        /\ pc \in {"contracts", "done"} \/ mode = "plan" => FoundAll

\* The same of a plan, for all sources that have its key.
PlanTold(p) ==
    \A src \in Contents :
        Matches(src, p.key) =>
            \A s \in p.reach \cup {Root} :
                Undeclared(IndexIn(src, p.key.modules), BodyIn(src, s)) \subseteq p.refs

PlanFound(p) ==
    \A src \in Contents :
        Matches(src, p.key) /\ (importer = Root => src[Macro] = source[Macro]) =>
            \A s \in p.reach \cup {Root}, n \in Names :
                n \in Defined \/ ~lazy =>
                    \A call \in NamedIn(src, BodyIn(src, s), importer = Root) :
                        Means(call, n) => Home[n] \in p.key.modules

PlansFound == \A p \in plans : p.reach # {} => PlanTold(p) /\ PlanFound(p)

LEMMA SeesNow ==
    ASSUME Near, Typed
    PROVE  /\ \A u \in Names \cup {Root} : \A call \in source[u] \cap Calls, n \in Names :
                 Means(call, n) => Home[n] \in Sees(u)
           /\ \A f \in source[Macro] : Home[f] \in Around(Imports[Root] \cup ({importer} \ {Root}))
<1>1. \A u \in Units : \E p \in Programs : source[u] = p[u]
  BY VersionsTyped DEF Typed, TypeOK
<1>2. importer \in Importers /\ Names \cup {Root} \subseteq Units /\ Macro \in Units
  BY VersionsTyped DEF Typed, TypeOK
<1> QED  BY <1>1, <1>2 DEF Near

LEMMA FirstFound == Imports[Root] \subseteq FirstModules
<1>1. Imports[Root] \subseteq AllImported
  BY ReachAssumption DEF AllImported, Least
<1> QED  BY <1>1 DEF FirstModules

LEMMA AllClosed == \A q \in AllImported : Imports[q] \subseteq AllImported
BY ReachAssumption DEF AllImported, Least

(* What a body that was walked may mean is in a module that was found, once *)
(* no module is wanted: the body is told in refs, or left an open record.   *)
LEMMA AdvancedFound ==
    ASSUME NoTwins, Near, Typed, Sound, Found, Advanced, Newly = {},
           pc # "idle"
    PROVE  FoundAll
<1>1. work = <<>> /\ FirstModules \subseteq ordered /\ (~lazy => ordered = AllImported) /\ Told
      /\ (loaded => importer \in ordered \cup {Root}) /\ ordered \subseteq Mods
  BY DEF Found, Advanced, Settled, Drained, Typed, TypeOK
<1>2. Imports[Root] \subseteq ordered
  BY <1>1, FirstFound
<1>3. \A s \in reach : s[2] \in parsed
  BY SettledHolds, <1>1 DEF Selected, Sound
<1>4. \A s \in reach \cup {Root} : /\ Walked(s) /\ Body(s) \subseteq Calls
                                   /\ Undeclared(Index(ordered), Body(s)) \subseteq refs
  <2>1. \A s \in reach \cup {Root} : s \in {x \in reach : x[2] \in parsed} \cup {Root} /\ s \notin Range(work)
    BY <1>1, <1>3, NothingWalked
  <2>2. \A s \in reach \cup {Root} : Body(s) \subseteq Calls
    BY <2>1, ParsedBody
  <2>3. \A s \in reach \cup {Root} : Walked(s)
    BY <2>1 DEF Sound
  <2>4. \A s \in reach \cup {Root} : Undeclared(Index(ordered), Body(s)) \subseteq refs
    BY <1>1, <2>1 DEF Told, Parsed
  <2> QED  BY <2>2, <2>3, <2>4
<1>5. ASSUME NEW s \in reach \cup {Root}, NEW n \in Names, n \in Defined \/ ~lazy,
             NEW call \in NamedCalls(Body(s), loaded), Means(call, n), Home[n] \notin ordered
      PROVE  FALSE
  <2>1. \E q \in ordered : Home[n] \in Imports[q]
    <3>1. \A mods \in SUBSET ordered : Home[n] \in Around(mods) => \E q \in ordered : Home[n] \in Imports[q]
      BY <1>5 DEF Around
    <3>2. CASE call \in Body(s)
      <4>1. CASE s = Root
        <5>1. Home[n] \in Sees(Root)
          BY <1>4, <1>5, <3>2, <4>1, SeesNow DEF Body
        <5>2. Root \notin Names
          BY ReachAssumption
        <5> QED  BY <1>2, <3>1, <5>1, <5>2 DEF Sees
      <4>2. CASE s # Root
        <5>1. s \in Index(ordered)
          BY <4>2 DEF Sound
        <5>2. s[2] \in Names /\ Home[s[2]] \in ordered /\ Body(s) = source[s[2]]
          BY <4>2, <5>1 DEF Index, Defined, Body
        <5>3. Home[n] \in Sees(s[2])
          BY <1>4, <1>5, <3>2, <5>2, SeesNow
        <5> QED  BY <1>2, <3>1, <5>2, <5>3 DEF Sees
      <4> QED  BY <4>1, <4>2
    <3>3. CASE call \notin Body(s)
      <4>1. loaded /\ call \in {"bare"} \X source[Macro] /\ source[Macro] \subseteq Funcs
        BY <1>5, <3>3, WalkReady DEF NamedCalls, Expansion
      <4>2. n = call[2]
        BY <1>5, <4>1, ReachAssumption DEF Means, Spoken, Names
      <4>3. Home[n] \in Around(Imports[Root] \cup ({importer} \ {Root}))
        BY <4>1, <4>2, SeesNow
      <4>4. Imports[Root] \cup ({importer} \ {Root}) \subseteq ordered
        BY <1>1, <1>2, <4>1
      <4> QED  BY <3>1, <4>3, <4>4
    <3> QED  BY <3>2, <3>3
  <2>2. PICK q \in ordered : Home[n] \in Imports[q]
    BY <2>1
  <2>3. lazy /\ n \in Defined
    BY <1>1, <1>5, <2>2, AllClosed
  <2>4. ~Wanted(records \ resolved, Home[n])
    <3>1. Home[n] \in Mods \ ordered /\ Grown(records \ resolved) = ordered
      BY <1>5, <2>3, ReachAssumption DEF Advanced
    <3> QED  BY <2>2, <3>1, GrownClosed
  <2>5. source[Macro] \subseteq Funcs /\ loaded \in BOOLEAN
    BY WalkReady DEF Typed, TypeOK
  <2>6. call \in Calls /\ Direct(Index(ordered), s, call) \notin Index(ordered)
        /\ Direct(Index(ordered), Root, call) \notin Index(ordered)
    <3>1. call \in Calls
      BY <1>4, <1>5, <2>5, NamedCallsTyped
    <3>2. call[2] \in Funcs => n = call[2]
      BY <1>5, ReachAssumption DEF Means, Spoken, Names
    <3> QED  BY <1>5, <3>1, <3>2, DirectIndexed
  <2>7. [kind |-> "direct", caller |-> s, call |-> call] \in records \ resolved
    BY <1>4, <1>5, <2>6 DEF Walked, Unresolved
  <2>8. CASE n = call[2]
    <3>1. CASE call[1] = "bare"
      <4>1. call = <<"bare", n>>
        BY <2>6, <2>8, <3>1 DEF Calls
      <4> QED  BY <2>3, <2>4, <2>7, <4>1 DEF Wanted
    <3>2. CASE call[1] # "bare"
      <4>1. call = <<"qualified", n>>
        BY <2>6, <2>8, <3>2 DEF Calls
      <4>2. call \in Body(s)
        BY <1>5, <4>1 DEF NamedCalls
      <4>3. call \in refs
        BY <1>4, <2>6, <4>2 DEF Undeclared
      <4> QED  BY <2>4, <4>1, <4>3 DEF Wanted
    <3> QED  BY <3>1, <3>2
  <2>9. CASE n # call[2]
    <3>1. n \in Methods /\ call = <<"bare", Bare[n]>>
      BY <1>5, <2>9 DEF Means
    <3>2. Candidates(Index(ordered), Bare[n]) = {}
      <4>1. ASSUME NEW t \in Candidates(Index(ordered), Bare[n]) PROVE FALSE
        <5>1. t \in Symbols /\ Home[t[2]] \in ordered
          BY <4>1 DEF Candidates, Index
        <5>2. t # <<"alias", Bare[n]>>
          BY <3>1, <5>1, ReachAssumption DEF Symbols, Spoken, Names
        <5>3. t[2] \in Methods /\ Bare[t[2]] = Bare[n]
          BY <4>1, <5>2 DEF Candidates
        <5> QED  BY <1>5, <3>1, <5>1, <5>3 DEF NoTwins
      <4> QED  BY <4>1
    <3>3. call \in Body(s)
      <4>1. Bare[n] \notin Funcs
        BY <3>1, ReachAssumption DEF Spoken, Names
      <4> QED  BY <1>5, <2>5, <3>1, <4>1 DEF NamedCalls, Expansion
    <3>4. [kind |-> "associated", caller |-> s, call |-> call] \in records \ resolved
      BY <1>4, <3>1, <3>2, <3>3 DEF Walked, Unresolved
    <3> QED  BY <2>3, <2>4, <3>1, <3>4 DEF Wanted
  <2> QED  BY <2>8, <2>9
<1> QED  BY <1>5 DEF FoundAll

(* Nothing a build has found is lost while its sets stay. *)
LEMMA FoundSame ==
    ASSUME source' = source, lazy' = lazy, importer' = importer,
           NEW known \in BOOLEAN, loaded' = known, ordered' = ordered, reach' = reach
    PROVE  /\ FoundAll' <=> \A s \in reach \cup {Root}, n \in Names :
                 n \in Defined \/ ~lazy =>
                     \A call \in NamedCalls(Body(s), known) : Means(call, n) => Home[n] \in ordered
           /\ FirstModules' = FirstModules /\ AllImported' = AllImported
<1>1. \A s : NamedCalls(Body(s), loaded)' = NamedCalls(Body(s), known)
  BY DEF Body, NamedCalls, Expansion
<1>2. Defined' = Defined /\ FirstModules' = FirstModules /\ AllImported' = AllImported
  BY DEF Defined, FirstModules, AllImported, Least
<1> QED  BY <1>1, <1>2 DEF FoundAll

LEMMA UneditedTold ==
    ASSUME source' = source
    PROVE  /\ Told' <=> \A s \in {x \in reach' : x[2] \in parsed'} \cup {Root} :
                 s \in Range(work') \/ Undeclared(Index(ordered'), Body(s)) \subseteq refs'
           /\ Defined' = Defined
<1>1. Index(ordered)' = Index(ordered') /\ \A s : Body(s)' = Body(s)
  BY Unedited
<1>2. \A s : Undeclared(Index(ordered), Body(s))' = Undeclared(Index(ordered'), Body(s))
  BY <1>1 DEF Undeclared, Direct, Target
<1> QED  BY <1>2 DEF Told, Parsed, Defined

(* A walk tells of the bodies it walks and queues the symbols it adds. *)
LEMMA WalkTold ==
    ASSUME Typed, source' = source, parsed' = parsed, ordered' = ordered \/ ordered \subseteq ordered',
           NEW callers \in SUBSET (reach \cup {Root}), \A s \in callers : Body(s) \subseteq Calls,
           NEW queue \in Seq(reach), NEW known \in BOOLEAN,
           Walk(callers, queue, ordered', known),
           \A s \in Parsed : \/ s \in callers \cup Range(queue)
                             \/ Undeclared(Index(ordered), Body(s)) \subseteq refs
    PROVE  Told'
<1>1. WalkEffect(callers, queue, ordered', known)
  <2>1. /\ reach \subseteq Symbols /\ refs \subseteq Calls
        /\ records \subseteq Records(reach \cup {Root}) /\ source[Macro] \subseteq Funcs
    BY WalkReady
  <2> QED  BY <2>1, WalkHasEffect
<1>2. /\ refs \subseteq refs' /\ Range(work') = Range(queue) \cup (reach' \ reach)
      /\ \A s \in callers : Undeclared(Index(ordered'), Body(s)) \subseteq refs'
  BY <1>1 DEF WalkEffect
<1>3. ASSUME NEW s \in Parsed, Undeclared(Index(ordered), Body(s)) \subseteq refs
      PROVE  Undeclared(Index(ordered'), Body(s)) \subseteq refs'
  <2>1. Body(s) \in SUBSET Calls
    BY ParsedBody DEF Parsed
  <2>2. Undeclared(Index(ordered'), Body(s)) \subseteq Undeclared(Index(ordered), Body(s))
    BY <2>1, UndeclaredShrinks
  <2> QED  BY <1>2, <1>3, <2>2
<1> QED  BY <1>2, <1>3, UneditedTold DEF Parsed

LEMMA StoredFound ==
    ASSUME Session, Found, PlansFound, Store, FoundAll, More
    PROVE  PlansFound'
<1> DEFINE new == [key |-> Key(ordered), reach |-> reach, refs |-> refs]
           known == (importer = Root)
<1>1. /\ Typed /\ Sound /\ Told /\ work = <<>> /\ Newly = {} /\ loaded = known /\ known \in BOOLEAN
  BY DEF Session, More, InSession, Store, Advanced, Settled, Drained, Found
<1>2. /\ source' = source /\ importer' = importer /\ lazy' = lazy
      /\ \A p \in plans' : p \in plans \/ p = new
  BY DEF Store, Written, files
<1>3. \A p : (PlanTold(p)' <=> PlanTold(p)) /\ (PlanFound(p)' <=> PlanFound(p))
  BY <1>2 DEF PlanTold, PlanFound, Defined
<1>4. \A s \in reach : s[2] \in parsed /\ s \in Index(ordered)
  BY SettledHolds, <1>1 DEF Selected, Sound
<1>5. ASSUME NEW src \in Contents, Matches(src, new.key)
      PROVE  /\ IndexIn(src, ordered) = Index(ordered)
             /\ \A s \in reach \cup {Root} : BodyIn(src, s) = Body(s)
  <2>1. src[Root] = source[Root] /\ \A n \in Names : Home[n] \in ordered => src[n] = source[n]
    <3>1. /\ source[Root] = src[Root]
          /\ [n \in {x \in Names : Home[x] \in ordered} |-> source[n]]
                = [n \in {x \in Names : Home[x] \in ordered} |-> src[n]]
      BY <1>5 DEF Matches, Key
    <3> QED  BY <3>1
  <2>2. IndexIn(src, ordered) = Index(ordered)
    BY <2>1 DEF IndexIn, Index, Defined
  <2>3. \A s \in reach \cup {Root} : BodyIn(src, s) = Body(s)
    BY <1>4, <2>1 DEF BodyIn, Body, Index, Defined
  <2> QED  BY <2>2, <2>3
<1>6. PlanTold(new)
  <2>1. \A s \in reach \cup {Root} : Undeclared(Index(ordered), Body(s)) \subseteq refs
    BY <1>1, <1>4, NothingWalked DEF Told, Parsed
  <2> SUFFICES ASSUME NEW src \in Contents, Matches(src, new.key), NEW s \in reach \cup {Root}
               PROVE  Undeclared(IndexIn(src, ordered), BodyIn(src, s)) \subseteq refs
    BY DEF PlanTold, Key
  <2> QED  BY <1>5, <2>1
<1>7. PlanFound(new)
  <2> SUFFICES ASSUME NEW src \in Contents, Matches(src, new.key),
                      importer = Root => src[Macro] = source[Macro],
                      NEW s \in reach \cup {Root}, NEW n \in Names, n \in Defined \/ ~lazy,
                      NEW call \in NamedIn(src, BodyIn(src, s), known), Means(call, n)
               PROVE  Home[n] \in ordered
    BY DEF PlanFound, Key
  <2>1. NamedIn(src, BodyIn(src, s), known) = NamedCalls(Body(s), loaded)
    BY <1>1, <1>5 DEF NamedIn, NamedCalls, Expansion
  <2> QED  BY <2>1 DEF FoundAll
<1> HIDE DEF new
<1> QED  BY <1>2, <1>3, <1>6, <1>7 DEF PlansFound

LEMMA EditFound ==
    ASSUME Allowed = {}, Typed, PlansGood, PlansFound, NEW u \in Units, Edit(u)
    PROVE  PlansFound'
<1>1. /\ plans' = plans /\ importer' = importer /\ lazy' = lazy
      /\ u = Macro => importer # Root
      /\ lazy /\ u \in Names /\ source[u] = Absent => Home[u] \in Imports[Root]
      /\ \A x \in Units : x # u => source'[x] = source[x]
  BY DEF Edit, Typed, Bodies
<1>2. importer = Root => source'[Macro] = source[Macro]
  BY <1>1 DEF Units
<1>3. \A p : PlanTold(p)' <=> PlanTold(p)
  BY DEF PlanTold
<1>4. ASSUME NEW p \in plans, PlanGrown(p), PlanFound(p)
      PROVE  PlanFound(p)'
  <2>1. ASSUME NEW n \in Names, n \in Defined', n \notin Defined, lazy
        PROVE  Home[n] \in p.key.modules
    <3>1. n = u /\ source[n] = Absent
      BY <1>1, <2>1 DEF Defined, Units
    <3> QED  BY <1>1, <1>4, <2>1, <3>1 DEF PlanGrown
  <2> QED  BY <1>1, <1>2, <1>4, <2>1 DEF PlanFound
<1> QED  BY <1>1, <1>3, <1>4 DEF PlansFound, PlansGood

LEMMA PlansFoundKept ==
    ASSUME source' = source, importer' = importer, lazy' = lazy, PlansFound,
           \A p \in plans' : p.reach # {} => p \in plans
    PROVE  PlansFound'
<1>1. \A p : (PlanTold(p)' <=> PlanTold(p)) /\ (PlanFound(p)' <=> PlanFound(p))
  BY DEF PlanTold, PlanFound, Defined
<1> QED  BY <1>1 DEF PlansFound

LEMMA BeginColdFound == Typed /\ BeginCold => Found'
<1> SUFFICES ASSUME Typed, BeginCold PROVE Found'
  OBVIOUS
<1>1. /\ reach = {} /\ refs = {} /\ parsed' = {} /\ parsed = {} /\ source' = source
      /\ lazy' = lazy /\ importer' = importer /\ ordered' = FirstModules /\ pc' = "drain"
      /\ mode' = "first" /\ loaded' = (importer = Root)
      /\ Walk({Root}, <<>>, ordered', importer = Root) /\ ordered = {}
  BY DEF BeginCold, Begin, Typed, Phases, files
<1>2. Told'
  <2>1. {Root} \in SUBSET (reach \cup {Root}) /\ \A s \in {Root} : Body(s) \subseteq Calls
    BY WalkReady
  <2>2. \A s \in Parsed : s \in {Root} \cup Range(<<>>)
    BY <1>1 DEF Parsed
  <2>3. <<>> \in Seq(reach) /\ (importer = Root) \in BOOLEAN /\ ordered \subseteq ordered'
        /\ parsed' = parsed
    BY <1>1
  <2> QED  BY <1>1, <2>1, <2>2, <2>3, WalkTold
<1>3. FirstModules' = FirstModules /\ AllImported' = AllImported /\ (~lazy => FirstModules = AllImported)
  BY <1>1 DEF FirstModules, AllImported, Least
<1>4. importer' \in ordered' \cup {Root} \/ ~loaded'
  BY <1>1
<1> QED  BY <1>1, <1>2, <1>3, <1>4 DEF Found

LEMMA BeginPlannedFound ==
    ASSUME Typed, PlansFound, BeginPlanned
    PROVE  Found'
<1> DEFINE mods == FirstModules
           known == (importer = Root)
<1>1. PICK p \in Usable(mods) :
          reach' = p.reach /\ refs' = p.refs /\ parsed' = Selected(p.reach, mods)
  BY DEF BeginPlanned
<1>2. /\ source' = source /\ importer' = importer /\ lazy' = lazy
      /\ ordered' = mods /\ loaded' = known /\ pc' = "contracts" /\ work' = <<>>
  BY DEF BeginPlanned, Begin, files, Typed, Phases
<1>3. /\ p \in plans /\ p.key.modules = mods /\ Matches(source, p.key)
      /\ PlanTold(p) /\ PlanFound(p) /\ source \in Contents
  BY <1>1, ContentsNow DEF Usable, Key, Matches, PlansFound
<1>4. /\ IndexIn(source, mods) = Index(mods) /\ \A s : BodyIn(source, s) = Body(s)
      /\ \A s : NamedIn(source, Body(s), known) = NamedCalls(Body(s), known)
  BY DEF IndexIn, Index, Defined, BodyIn, Body, NamedIn, NamedCalls, Expansion
<1>5. Told'
  <2>1. \A s \in reach' \cup {Root} : Undeclared(Index(ordered'), Body(s)) \subseteq refs'
    BY <1>1, <1>2, <1>3, <1>4 DEF PlanTold
  <2> QED  BY <1>2, <2>1, UneditedTold
<1>6. FoundAll'
  <2>1. \A s \in reach' \cup {Root}, n \in Names :
           n \in Defined \/ ~lazy =>
               \A call \in NamedCalls(Body(s), known) : Means(call, n) => Home[n] \in mods
    BY <1>1, <1>3, <1>4 DEF PlanFound
  <2>2. \A s : NamedCalls(Body(s), loaded)' = NamedCalls(Body(s), known)
    BY <1>2 DEF Body, NamedCalls, Expansion
  <2>3. Defined' = Defined
    BY <1>2 DEF Defined
  <2> QED  BY <1>2, <2>1, <2>2, <2>3 DEF FoundAll
<1>7. FirstModules' = FirstModules /\ AllImported' = AllImported /\ (~lazy => FirstModules = AllImported)
  BY <1>2 DEF FirstModules, AllImported, Least
<1> QED  BY <1>2, <1>5, <1>6, <1>7 DEF Found

(* Steps of the walk: only what was told must be kept. *)
LEMMA DrainingFound ==
    ASSUME Typed, Found, pc # "idle", source' = source, lazy' = lazy, importer' = importer,
           ordered \subseteq ordered', ~lazy => ordered' = ordered,
           loaded => loaded', loaded' => loaded \/ importer \in ordered,
           pc' = "drain", mode' # "plan", Told'
    PROVE  Found'
<1>1. FirstModules' = FirstModules /\ AllImported' = AllImported
  BY DEF FirstModules, AllImported, Least
<1> QED  BY <1>1 DEF Found

LEMMA DrainFound == ASSUME Typed, Found, Planned, Drain PROVE Found'
<1> DEFINE h == Head(work)
           callers == IF h[2] \in parsed THEN {h} ELSE {}
<1>1. h \in reach /\ Tail(work) \in Seq(reach) /\ Range(work) = {h} \cup Range(Tail(work))
  <2>1. work \in Seq(reach) /\ work # <<>>
    BY DEF Typed, TypeOK, Drain
  <2>2. work = <<h>> \o Tail(work) /\ h \in reach /\ Tail(work) \in Seq(reach)
    BY <2>1, HeadTailProperties
  <2>3. Range(<<h>>) = {h} /\ <<h>> \in Seq(reach)
    BY <2>2 DEF Range
  <2> DEFINE q == <<h>>
             t == Tail(work)
  <2>4. Range(q \o t) = Range(q) \cup Range(t)
    <3>1. q \in Seq(reach) /\ t \in Seq(reach)
      BY <2>2, <2>3
    <3> HIDE DEF q, t
    <3> QED  BY <3>1, RangeConcatenation
  <2> QED  BY <2>2, <2>3, <2>4
<1>2. callers \in SUBSET (reach \cup {Root}) /\ \A x \in callers : Body(x) \subseteq Calls
  BY <1>1, WalkReady
<1>3. Walk(callers, Tail(work), ordered', loaded) /\ loaded \in BOOLEAN
  BY DEF Drain, Typed, TypeOK
<1>4. /\ source' = source /\ parsed' = parsed /\ ordered' = ordered /\ loaded' = loaded
      /\ lazy' = lazy /\ importer' = importer /\ pc = "drain" /\ pc' = "drain" /\ mode' # "plan"
  BY DEF Drain, files, Planned
<1>5. \A s \in Parsed : \/ s \in callers \cup Range(Tail(work))
                        \/ Undeclared(Index(ordered), Body(s)) \subseteq refs
  <2> SUFFICES ASSUME NEW s \in Parsed, s \in Range(work)
               PROVE  s \in callers \cup Range(Tail(work))
    BY <1>4 DEF Found, Told
  <2>1. s = h => s # Root
    BY <1>1, WalkReady
  <2> QED  BY <1>1, <2>1 DEF Parsed
<1>6. Told'
  <2> HIDE DEF callers
  <2> QED  BY <1>1, <1>2, <1>3, <1>4, <1>5, WalkTold, ZenonT(60)
<1> QED  BY <1>4, <1>6, DrainingFound

LEMMA MaterializeFound == ASSUME Typed, Found, Materialize PROVE Found'
<1> DEFINE queue == {s \in reach : s[2] \in parsed' \ parsed}
<1>1. /\ source' = source /\ ordered' = ordered /\ loaded' = loaded /\ reach' = reach
      /\ refs' = refs /\ work = <<>> /\ lazy' = lazy /\ importer' = importer
      /\ parsed' = parsed \cup Newly /\ work' = SetToSeq(queue)
      /\ pc = "drain" /\ pc' = "drain" /\ mode' # "plan"
  BY DEF Materialize, Drained, files
<1>2. Range(work') = queue
  <2>1. queue \in SUBSET Callers
    BY WalkReady DEF Callers
  <2> HIDE DEF queue
  <2> QED  BY <1>1, <2>1, Queued
<1>3. Told'
  <2> SUFFICES ASSUME NEW s \in {x \in reach : x[2] \in parsed'} \cup {Root}, s \notin queue
               PROVE  Undeclared(Index(ordered), Body(s)) \subseteq refs
    BY <1>1, <1>2, UneditedTold
  <2>1. s \in Parsed
    BY DEF Parsed
  <2>2. s \notin Range(work)
    BY <1>1, NothingWalked
  <2> QED  BY <1>1, <2>1, <2>2 DEF Found, Told
<1> QED  BY <1>1, <1>3, DrainingFound

(* Callers walked again tell again; the others have told. *)
LEMMA RescanTold ==
    ASSUME Typed, Told, work = <<>>, source' = source, parsed' = parsed, ordered \subseteq ordered',
           NEW again \in SUBSET records, NEW known \in BOOLEAN, Rescan(again, ordered', known)
    PROVE  Told'
<1> DEFINE callers == {r.caller : r \in again} \cap {Root}
           queue == SetToSeq(({r.caller : r \in again} \cap reach) \ {Root})
<1>1. callers \in SUBSET (reach \cup {Root}) /\ queue \in Seq(reach)
  BY RescanReady
<1>2. Walk(callers, queue, ordered', known)
  BY DEF Rescan
<1>3. \A s \in callers : Body(s) \subseteq Calls
  BY WalkReady
<1>4. \A s \in Parsed : Undeclared(Index(ordered), Body(s)) \subseteq refs
  BY NothingWalked DEF Told
<1> HIDE DEF callers, queue
<1> QED  BY <1>1, <1>2, <1>3, <1>4, WalkTold

LEMMA DiscoverFound == ASSUME Typed, Found, Discover PROVE Found'
<1> DEFINE again == {r \in records \ resolved : CanResolve(Index(ordered'), r)}
<1>1. /\ source' = source /\ parsed' = parsed /\ loaded' = loaded /\ loaded \in BOOLEAN /\ work = <<>>
      /\ lazy' = lazy /\ importer' = importer /\ pc = "drain" /\ pc' = "drain" /\ mode' # "plan"
      /\ lazy /\ Rescan(again, ordered', loaded)
  BY DEF Discover, Settled, Drained, files, Typed, TypeOK
<1>2. ordered \subseteq ordered'
  BY GrownExtends DEF Discover, Typed, TypeOK
<1>3. Told'
  <2>1. again \in SUBSET records /\ Told
    BY <1>1 DEF Found
  <2> HIDE DEF again
  <2> QED  BY <1>1, <1>2, <2>1, RescanTold
<1> QED  BY <1>1, <1>2, <1>3, DrainingFound

LEMMA LoadContractFound == ASSUME Typed, Found, LoadContract PROVE Found'
<1> DEFINE again == {r \in records \ resolved : r.kind = "imported_macro"}
<1>1. /\ source' = source /\ parsed' = parsed /\ ordered' = ordered /\ loaded' = TRUE /\ work = <<>>
      /\ lazy' = lazy /\ importer' = importer /\ pc # "idle" /\ pc' = "drain" /\ mode' # "plan"
      /\ importer \in ordered /\ Rescan(again, ordered', TRUE)
  BY DEF LoadContract, Missing, files, Typed, Phases
<1>2. Told'
  <2>1. again \in SUBSET records /\ Told /\ TRUE \in BOOLEAN /\ ordered \subseteq ordered'
    BY <1>1 DEF Found
  <2> HIDE DEF again
  <2> QED  BY <1>1, <2>1, RescanTold
<1> QED  BY <1>1, <1>2, DrainingFound

(* Steps that keep what was found. *)
LEMMA KeptFound ==
    ASSUME Typed, Found, pc # "idle", source' = source, lazy' = lazy, importer' = importer,
           ordered' = ordered, reach' = reach, refs' = refs, work' = work, parsed' = parsed,
           loaded' \in BOOLEAN, loaded => loaded', loaded' => loaded \/ importer \in ordered,
           \A s : NamedCalls(Body(s), loaded') = NamedCalls(Body(s), loaded),
           pc' = "done" => ~Missing,
           pc' \in {"contracts", "done"} \/ mode' = "plan" => FoundAll
    PROVE  Found'
<1>1. FirstModules' = FirstModules /\ AllImported' = AllImported
  BY DEF FirstModules, AllImported, Least
<1>2. Told'
  <2>1. Told' <=> \A s \in {x \in reach : x[2] \in parsed} \cup {Root} :
                 s \in Range(work) \/ Undeclared(Index(ordered), Body(s)) \subseteq refs
    BY UneditedTold
  <2> QED  BY <2>1 DEF Found, Told, Parsed
<1>3. pc' \in {"contracts", "done"} \/ mode' = "plan" => FoundAll'
  <2> DEFINE known == loaded'
  <2>1. known \in BOOLEAN /\ loaded' = known
    OBVIOUS
  <2>2. \A s : NamedCalls(Body(s), known) = NamedCalls(Body(s), loaded)
    OBVIOUS
  <2> HIDE DEF known
  <2>3. FoundAll' <=> \A s \in reach \cup {Root}, n \in Names :
                 n \in Defined \/ ~lazy =>
                     \A call \in NamedCalls(Body(s), known) : Means(call, n) => Home[n] \in ordered
    BY <2>1, FoundSame
  <2> QED  BY <2>2, <2>3 DEF FoundAll
<1>4. pc' = "done" => ~Missing'
  BY DEF Missing
<1> QED  BY <1>1, <1>2, <1>3, <1>4 DEF Found

LEMMA OtherBuildFound ==
    ASSUME NoTwins, Near, AllGood, Found,
           Store \/ Advance \/ Finish \/ LoadContractPlanned \/ Rebuild \/ Rebuilt
    PROVE  Found'
<1>1. Typed
  BY DEF AllGood, Session
<1>2. CASE Store \/ Advance \/ Finish
  <2>1. /\ source' = source /\ lazy' = lazy /\ importer' = importer /\ ordered' = ordered
        /\ reach' = reach /\ refs' = refs /\ work' = work /\ parsed' = parsed
        /\ loaded' = loaded /\ loaded \in BOOLEAN /\ pc # "idle"
        /\ pc' = "done" => ~Missing
    BY <1>1, <1>2 DEF Store, Advance, Finish, files, sets, Advanced, Settled, Drained, Typed, TypeOK
  <2>2. FoundAll
    <3>1. CASE Store \/ Advance
      <4>1. Advanced /\ Newly = {} /\ InSession
        BY <3>1 DEF Store, Advance, Advanced, Settled, Drained, InSession
      <4>2. Sound
        BY <4>1 DEF AllGood, Session
      <4> QED  BY <1>1, <2>1, <4>1, <4>2, AdvancedFound
    <3>2. CASE Finish
      BY <3>2 DEF Finish, Found
    <3> QED  BY <1>2, <3>1, <3>2
  <2>3. \A s : NamedCalls(Body(s), loaded') = NamedCalls(Body(s), loaded)
    BY <2>1
  <2> QED  BY <1>1, <2>1, <2>2, <2>3, KeptFound
<1>3. CASE LoadContractPlanned
  <2>1. /\ source' = source /\ lazy' = lazy /\ importer' = importer /\ ordered' = ordered
        /\ reach' = reach /\ refs' = refs /\ work' = work /\ parsed' = parsed
        /\ loaded' = TRUE /\ loaded = FALSE /\ importer \in ordered /\ mode = "plan"
        /\ pc # "idle" /\ pc' # "done" /\ Expand \in refs
    BY <1>1, <1>3 DEF LoadContractPlanned, Missing, files, sets, Typed, TypeOK
  <2>2. FoundAll /\ source[Macro] = {}
    BY <2>1 DEF Found, AllGood, Planned
  <2>3. \A s : NamedCalls(Body(s), loaded') = NamedCalls(Body(s), loaded)
    BY <2>2 DEF NamedCalls, Expansion
  <2> QED  BY <1>1, <2>1, <2>2, <2>3, KeptFound
<1>4. CASE Rebuild \/ Rebuilt
  <2>1. Planned /\ reach' = reach /\ refs' = refs /\ work' = work /\ ordered' = ordered /\ mode = "plan"
    BY <1>1, <1>4, RebuildSame, RebuiltSame DEF AllGood
  <2>2. /\ source' = source /\ lazy' = lazy /\ importer' = importer /\ parsed' = parsed
        /\ loaded' = loaded /\ loaded \in BOOLEAN /\ pc # "idle" /\ pc' # "done"
    BY <1>1, <1>4 DEF Rebuild, Rebuilt, Drained, files, Typed, TypeOK
  <2>3. FoundAll
    BY <2>1, <2>2 DEF Found
  <2>4. \A s : NamedCalls(Body(s), loaded') = NamedCalls(Body(s), loaded)
    BY <2>2
  <2> QED  BY <1>1, <2>1, <2>2, <2>3, <2>4, KeptFound
<1> QED  BY <1>2, <1>3, <1>4

LEMMA StepFound ==
    ASSUME NoTwins, Near, Allowed = {}
    PROVE  AllGood /\ Found /\ PlansFound /\ [Next]_vars => Found'
<1> SUFFICES ASSUME AllGood, Found, PlansFound, [Next]_vars PROVE Found'
  OBVIOUS
<1>1. Typed /\ Planned
  BY DEF AllGood, Session
<1>2. CASE BeginCold \/ BeginPlanned
  BY <1>1, <1>2, BeginColdFound, BeginPlannedFound
<1>3. CASE Drain \/ Materialize \/ Discover \/ LoadContract
  BY <1>1, <1>3, DrainFound, MaterializeFound, DiscoverFound, LoadContractFound
<1>4. CASE Store \/ Advance \/ Finish \/ LoadContractPlanned \/ Rebuild \/ Rebuilt
  BY <1>4, OtherBuildFound
<1>5. CASE Return \/ Cut \/ \E u \in Units : Edit(u)
  BY <1>5 DEF Return, Cut, End, Edit, Found
<1>6. CASE UNCHANGED vars
  <2>1. /\ source' = source /\ lazy' = lazy /\ importer' = importer /\ ordered' = ordered
        /\ reach' = reach /\ refs' = refs /\ work' = work /\ parsed' = parsed
        /\ loaded' = loaded /\ loaded \in BOOLEAN /\ pc' = pc /\ mode' = mode
    BY <1>1, <1>6 DEF vars, files, sets, Typed, TypeOK
  <2>2. CASE pc = "idle"
    BY <2>1, <2>2 DEF Found
  <2>3. CASE pc # "idle"
    <3>1. \A s : NamedCalls(Body(s), loaded') = NamedCalls(Body(s), loaded)
      BY <2>1
    <3>2. (pc' = "done" => ~Missing) /\ (pc' \in {"contracts", "done"} \/ mode' = "plan" => FoundAll)
      BY <2>1, <2>3 DEF Found
    <3> QED  BY <1>1, <2>1, <2>3, <3>1, <3>2, KeptFound
  <2> QED  BY <2>2, <2>3
<1> QED  BY <1>2, <1>3, <1>4, <1>5, <1>6 DEF Next, Build

LEMMA StepPlansFound ==
    ASSUME NoTwins, Near, Allowed = {}
    PROVE  AllGood /\ Found /\ PlansFound /\ [Next]_vars => PlansFound'
<1> SUFFICES ASSUME AllGood, Found, PlansFound, [Next]_vars PROVE PlansFound'
  OBVIOUS
<1>1. Typed /\ Session /\ More /\ PlansGood
  BY DEF AllGood, Session
<1>2. CASE Store
  <2>1. Advanced /\ Newly = {} /\ InSession /\ pc # "idle"
    BY <1>2 DEF Store, Advanced, Settled, Drained, InSession
  <2>2. Sound
    BY <2>1 DEF AllGood, Session
  <2>3. FoundAll
    BY <1>1, <2>1, <2>2, AdvancedFound
  <2> QED  BY <1>1, <1>2, <2>3, StoredFound
<1>3. CASE Cut
  <2>1. \A p \in plans' : p.reach # {} => p \in plans
    BY <1>3 DEF Cut, Written
  <2>2. source' = source /\ importer' = importer /\ lazy' = lazy
    BY <1>3 DEF Cut, files
  <2> QED  BY <2>1, <2>2, PlansFoundKept
<1>4. CASE \E u \in Units : Edit(u)
  BY <1>1, <1>4, EditFound
<1>5. CASE UNCHANGED <<source, importer, lazy, plans>>
  BY <1>5, PlansFoundKept
<1>6. CASE BeginCold \/ BeginPlanned \/ Return \/ UNCHANGED vars
  BY <1>5, <1>6 DEF BeginCold, BeginPlanned, Begin, Return, files, vars
<1>7. CASE Drain \/ Materialize \/ Discover \/ Advance
  BY <1>5, <1>7 DEF Drain, Materialize, Discover, Advance, files
<1>8. CASE LoadContract \/ LoadContractPlanned \/ Rebuild \/ Rebuilt \/ Finish
  BY <1>5, <1>8 DEF LoadContract, LoadContractPlanned, Rebuild, Rebuilt, Finish, files
<1> QED  BY <1>2, <1>3, <1>4, <1>6, <1>7, <1>8 DEF Next, Build

LEMMA AlwaysFound ==
    ASSUME NoTwins, Near, Allowed = {}
    PROVE  Spec => [](AllGood /\ Found)
<1> DEFINE Inv == AllGood /\ Found /\ PlansFound
<1>1. Init => Inv
  BY InitTyped DEF Init, AllGood, Session, InSession, More, PlansGood, Planned, Found, PlansFound
<1>2. Inv /\ [Next]_vars => Inv'
  <2>1. AllGood /\ [Next]_vars => AllGood'
    BY StepSound, StepMore, StepPlans, StepPlanned DEF AllGood, Session
  <2> QED  BY <2>1, StepFound, StepPlansFound
<1>3. Inv => AllGood /\ Found
  OBVIOUS
<1> QED  BY <1>1, <1>2, <1>3, PTL DEF Spec

(* What a body of a finished build uses is among what is reachable. *)
LEMMA GoodComplete == AllGood /\ Found => Complete
<1> SUFFICES ASSUME AllGood, Found, pc = "done"
             PROVE  Needed \subseteq Selected(reach, ordered) \cap parsed
  BY DEF Complete
<1> DEFINE D == Selected(reach, ordered)
<1>1. /\ Typed /\ work = <<>> /\ parsed = D /\ Holds(reach, ordered, loaded)
      /\ FoundAll /\ Told /\ ~Missing /\ FirstModules \subseteq ordered
      /\ (importer = Root => loaded) /\ loaded \in BOOLEAN
  BY GoodExact DEF AllGood, Session, Typed, TypeOK, Phases, Exact, Found
<1>2. reach \subseteq Index(ordered)
  BY DEF AllGood, Session, InSession, Sound, Planned
<1>3. D = {s[2] : s \in reach} /\ D \subseteq Defined /\ (\A n \in D : Home[n] \in ordered)
  BY <1>2 DEF Selected, Index
<1>4. \A s \in reach \cup {Root} : /\ Body(s) \subseteq Calls
                                   /\ Marked(Index(ordered), loaded, s, Body(s)) \subseteq reach
                                   /\ Undeclared(Index(ordered), Body(s)) \subseteq refs
  <2>1. \A s \in reach \cup {Root} : s \in {x \in reach : x[2] \in parsed} \cup {Root} /\ s \notin Range(work)
    BY <1>1, <1>3, NothingWalked
  <2>2. \A s \in reach \cup {Root} : Body(s) \subseteq Calls
    BY <1>1, <2>1, ParsedBody
  <2> QED  BY <1>1, <2>1, <2>2 DEF Holds, Told, Parsed
<1>5. ASSUME NEW s \in reach \cup {Root}, NEW call \in NamedCalls(Body(s), loaded),
             NEW n \in Funcs, n \in Defined, call[2] = n, call \in Calls
      PROVE  n \in D
  <2>1. n \in Names /\ Home[n] \in ordered
    BY <1>1, <1>5 DEF FoundAll, Means, Names
  <2>2. Direct(Index(ordered), s, call) \in Index(ordered)
    BY <1>5, <2>1, DirectIndexed
  <2>3. Direct(Index(ordered), s, call) \in reach
    BY <1>4, <1>5, <2>2 DEF Marked
  <2>4. Direct(Index(ordered), s, call)[2] = n
    BY <1>5 DEF Direct, Target
  <2> QED  BY <1>3, <2>3, <2>4
<1>6. ASSUME NEW s \in reach \cup {Root}, NEW m \in Methods, m \in Defined, <<"bare", Bare[m]>> \in Body(s)
      PROVE  m \in D
  <2>1. m \in Names /\ Home[m] \in ordered
    BY <1>1, <1>6 DEF FoundAll, Means, Names, NamedCalls
  <2>2. <<"plain", m>> \in Candidates(Index(ordered), Bare[m])
    BY <1>6, <2>1 DEF Candidates, Index, Symbols
  <2>3. <<"plain", m>> \in reach
    BY <1>4, <1>6, <2>2 DEF Marked
  <2> QED  BY <1>3, <2>3
<1>7. ASSUME NEW s \in reach \cup {Root}, Expand \in Body(s), importer \in ordered \cup {Root}
      PROVE  loaded
  <2>1. Expand \in Undeclared(Index(ordered), Body(s))
    <3>1. Expand \in Calls /\ Macro \notin Funcs
      BY ReachAssumption DEF Calls, Expand, Names
    <3> QED  BY <1>7, <3>1, DirectIndexed DEF Undeclared, Expand
  <2> QED  BY <1>1, <1>4, <1>7, <2>1 DEF Missing
<1> HIDE DEF D
<1>8. ASSUME NEW u \in D \cup {Root} PROVE Uses(u, D) \subseteq D
  <2>1. PICK s \in reach \cup {Root} : Body(s) = source[u]
    <3>1. CASE u = Root
      BY <3>1 DEF Body
    <3>2. CASE u # Root
      <4>1. PICK s \in reach : u = s[2]
        BY <1>3, <3>2
      <4>2. s # Root
        BY <1>1, WalkReady
      <4> QED  BY <4>1, <4>2 DEF Body
    <3> QED  BY <3>1, <3>2
  <2>2. \A call \in source[u] : call \in Calls /\ call \in NamedCalls(Body(s), loaded)
    BY <1>4, <2>1 DEF NamedCalls
  <2>3. ASSUME NEW call \in source[u], call[2] \in Defined PROVE call[2] \in D
    <3>1. call[2] \in Funcs
      BY <2>2, <2>3, ReachAssumption DEF Defined, Calls
    <3> QED  BY <1>5, <2>2, <2>3, <3>1
  <2>4. ASSUME NEW call \in source[u], call[2] = Macro,
               importer \in FirstModules \cup {Home[n] : n \in D} \cup {Root},
               NEW n \in source[Macro], n \in Defined
        PROVE  n \in D
    <3>1. call = Expand /\ n \in Funcs
      BY <1>1, <2>2, <2>4, WalkReady, ReachAssumption DEF Calls, Expand, Names
    <3>2. loaded
      BY <1>1, <1>3, <1>7, <2>1, <2>4, <3>1
    <3>3. <<"bare", n>> \in NamedCalls(Body(s), loaded) /\ <<"bare", n>> \in Calls
      BY <2>1, <2>4, <3>1, <3>2 DEF NamedCalls, Expansion, Calls
    <3> QED  BY <1>5, <2>4, <3>1, <3>3
  <2>5. ASSUME NEW m \in Methods, m \in Defined, NEW call \in source[u], call[2] = Bare[m]
        PROVE  m \in D
    <3>1. call = <<"bare", Bare[m]>>
      <4>1. Bare[m] \in Spoken /\ Bare[m] \notin Funcs
        BY ReachAssumption DEF Spoken, Names
      <4> QED  BY <2>2, <2>5, <4>1 DEF Calls
    <3> QED  BY <1>6, <2>1, <2>5, <3>1
  <2> QED  BY <2>3, <2>4, <2>5 DEF Uses
<1>9. D \in SUBSET Defined
  BY <1>3
<1>10. Needed \subseteq D
  BY <1>8, <1>9 DEF Needed, Least
<1> QED  BY <1>1, <1>10 DEF D

(* When methods have names of their own, what a body uses is declared in    *)
(* its module, a module the root imports or a module that one of these      *)
(* imports, and nothing extraordinary happens, every finished build keeps   *)
(* every function the test needs, with its body: also one whose module,     *)
(* body or macro was found while walking, and also in a build that took its *)
(* plan over from a build of earlier sources.                               *)
THEOREM KeepsAllNeeded ==
    ASSUME NoTwins, Near, Allowed = {}
    PROVE  Spec => []Complete
<1> QED  BY AlwaysFound, GoodComplete, PTL
=============================================================================
